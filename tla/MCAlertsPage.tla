---------------------------- MODULE MCAlertsPage ----------------------------
(* AlertsPage on a small instance: two alerts, of which a GET returns only *)
(* the newer one, and two changes of the status of that one.               *)
EXTENDS AlertsPage
=============================================================================
