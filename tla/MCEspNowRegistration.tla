------------------------ MODULE MCEspNowRegistration ------------------------
(* EspNowRegistration on small instances, for TLC.                         *)
EXTENDS EspNowRegistration

\* How often the nodes restart.
NobodyRestarts == [n \in Node |-> 0]
AllRestartOnce == [n \in Node |-> 1]
OneClientRestarts == [n \in Node |-> IF n = CHOOSE c \in Client : TRUE THEN 1 ELSE 0]

=============================================================================
