-------------------------- MODULE MCMessageIngress --------------------------
(* A small instance of MessageIngress: two chats, a command and an echo.    *)
EXTENDS MessageIngress

CONSTANTS c1, c2, a1, e1, t1, t2, w1

AllMessages == {c1, c2, a1, e1}
ChatSet     == {c1, c2}
EchoSet     == {e1}

HistorySet  == {<<c1, e1, c2>>, <<a1, c1>>}

CallBound   == (c1 :> 2) @@ (c2 :> 0) @@ (a1 :> 1) @@ (e1 :> 0)

Separate == {"polling", "callbacks"}
Together == {"both"}
=============================================================================
