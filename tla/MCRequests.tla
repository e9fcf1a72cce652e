----------------------------- MODULE MCRequests -----------------------------
(* A small instance of Requests for TLC: a worker for every request, with    *)
(* the arguments that the routes tell apart, and beside it one whose         *)
(* requests meet those of the other, /chat on the main connection and        *)
(* /srforcr when it takes the daemon with it.                                *)
EXTENDS Requests

CONSTANTS w1, w2

Plain == {"/srnrs", "/srforcr", "/srinfo", "/srstatus"}

MCServe ==
  [w \in Worker |->
     IF w = w1
       THEN {r \in Request :
               CASE r[1] \in Plain -> r[2] \in {"bad", "good"}
                 [] r[1] \in {"/detailed", "/assign", "/userqueue", "/stats"} ->
                      r[2] \in {"none", "good"}
                 [] r[1] = "/updateDB" -> r[2] \in {"none", "full"}
                 [] OTHER -> r[2] = "none"}
       ELSE {<<"/chat", "none">>, <<"/srforcr", "good">>}]
=============================================================================
