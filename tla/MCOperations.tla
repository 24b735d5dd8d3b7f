---------------------------- MODULE MCOperations ----------------------------
(***************************************************************************)
(* An instance of Operations for TLC.                                      *)
(***************************************************************************)
EXTENDS Operations, TLC

\* Two sensors of one name on two devices, and one that a bar in the names
\* makes look like the first.
Ping1 == [id |-> "11", name |-> "Ping", deviceId |-> "1", device |-> "web|eu", priority |-> "2"]
Ping2 == [id |-> "22", name |-> "Ping", deviceId |-> "2", device |-> "db", priority |-> "***"]
Ping3 == [id |-> "33", name |-> "Ping|web", deviceId |-> "1", device |-> "eu", priority |-> "2"]
SomeSensors == {Ping1, Ping2, Ping3}

SomeValues ==
    {"", "%x", "%cpu", "11", "22", "33", "1", "2", "Ping", "Ping|web", "web|eu", "web", "eu",
     "db", "***", "down", "down (acknowledged)", "warning", "no answer", "unknown"}

Digits == [v \in SomeValues |->
    CASE v \in {"11", "1"} -> 1 [] v \in {"22", "2"} -> 2 [] v = "33" -> 3 [] OTHER -> NoDigit]
Stars == [v \in SomeValues |-> IF v = "***" THEN 3 ELSE 0]
Split == [v \in SomeValues |->
    CASE v = "Ping|web" -> <<"Ping", "web">> [] v = "web|eu" -> <<"web", "eu">> [] OTHER -> <<v>>]

Real(s, st) == [sensor |-> s, status |-> st, message |-> "no answer", encoding |-> "quoted",
                test |-> FALSE]

\* All are down, one is acknowledged later; a message with a percent sign,
\* a test, and a body that was cut off.
SomeNotes ==
    {Real(Ping1, "down"), Real(Ping3, "down"), Real(Ping2, "down"), Real(Ping2, "down (acknowledged)"),
     [Real(Ping1, "warning") EXCEPT !.message = "%cpu"],
     [Real(Ping1, "down") EXCEPT !.test = TRUE],
     [Real(Ping1, "down") EXCEPT !.encoding = "broken"]}

AllAlarms == {"LambdaErrors", "LambdaThrottles", "RoutingFailures", "AlarmsLost",
              "DeadLetters", "ApiClientErrors", "ApiServerErrors"}
Thresholds == [w \in AllAlarms |-> IF w = "ApiClientErrors" THEN 2 ELSE 1]
Symmetry == Permutations(Notification)

OnePeriod == [w \in AllAlarms |-> 1]
=============================================================================
