--------------------------- MODULE ReadersWriter ----------------------------
(***************************************************************************)
(* What a readers/writer lock promises: any number of readers, or one      *)
(* writer and nobody else.                                                 *)
(***************************************************************************)
CONSTANTS Threads, NoThread

VARIABLES readers,   \* threads that hold the lock for reading
          writer     \* the thread that holds it for writing, or NoThread

Init == readers = {} /\ writer = NoThread

BeginRead(t) ==
  /\ writer = NoThread
  /\ t \notin readers
  /\ readers' = readers \union {t}
  /\ UNCHANGED writer

EndRead(t) ==
  /\ t \in readers
  /\ readers' = readers \ {t}
  /\ UNCHANGED writer

BeginWrite(t) ==
  /\ readers = {}
  /\ writer = NoThread
  /\ writer' = t
  /\ UNCHANGED readers

EndWrite(t) ==
  /\ writer = t
  /\ writer' = NoThread
  /\ UNCHANGED readers

Next == \E t \in Threads : BeginRead(t) \/ EndRead(t) \/ BeginWrite(t) \/ EndWrite(t)

Spec == Init /\ [][Next]_<<readers, writer>>
=============================================================================
