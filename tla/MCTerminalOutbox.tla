-------------------------- MODULE MCTerminalOutbox --------------------------
(* Small instances of TerminalOutbox for TLC. *)
EXTENDS TerminalOutbox, TLC

CONSTANTS r1, r2, x1, x2, t1, t2, a1, a2

(* The first turn of a thread answers once, its second not at all. *)
OneThread == t1 :> x1 @@ t2 :> x1
AnswerThenSilence == t1 :> <<a1>> @@ t2 :> <<>>
(* One turn on each of two threads. *)
TwoThreads == t1 :> x1 @@ t2 :> x2
(* One turn that answers twice. *)
OneTurn == t1 :> x1
TwoAnswers == t1 :> <<a1, a2>>

AllBound == [r \in Routes |-> IF r = r1 THEN x1 ELSE x2]

Times(crash, reset, dsk, sink, resume, timeout, user) ==
  "crash" :> crash @@ "reset" :> reset @@ "disk" :> dsk @@ "sink" :> sink
    @@ "resume" :> resume @@ "timeout" :> timeout @@ "user" :> user

(* Every fault once, and a user who acts twice. *)
EveryFault == Times(1, 1, 1, 1, 1, 1, 2)
(* A restart or a lost connection. *)
Interruption == Times(1, 1, 0, 0, 0, 0, 0)
=============================================================================
