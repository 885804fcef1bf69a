----------------------- MODULE MCNotificationDelivery -----------------------
(* Two notifications, two dispatch transactions, two gateway calls.          *)
EXTENDS NotificationDelivery

CONSTANTS w1, w2, c1, c2

TwoWorkers == {w1, w2}
TwoCalls == {c1, c2}
=============================================================================
