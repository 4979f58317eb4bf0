-------------------------------- MODULE Feed --------------------------------
(* What the activity feed of a run promises the person who watches it: the   *)
(* frames of the run, each once, in the order they were recorded, and in the *)
(* end all of them.  A page that is opened again starts from some beginning  *)
(* of them.                                                                  *)
EXTENDS Naturals, Sequences

VARIABLES written,   \* how many frames the run has recorded
          drawn,     \* the frames on the page, first to last
          watched    \* somebody has opened the page

feedVars == <<written, drawn, watched>>

\* The first k frames.
Upto(k) == [i \in 1..k |-> i]

Nothing == written = 0 /\ drawn = <<>> /\ watched = FALSE

Record == written' = written + 1 /\ UNCHANGED <<drawn, watched>>

Draw == /\ watched /\ Len(drawn) < written
        /\ drawn' = Append(drawn, Len(drawn) + 1)
        /\ UNCHANGED <<written, watched>>

Open == /\ watched' = TRUE
        /\ UNCHANGED <<written, drawn>>

Reload == /\ watched
          /\ \E k \in 0..written : drawn' = Upto(k)
          /\ UNCHANGED <<written, watched>>

Watch == Record \/ Draw \/ Open \/ Reload

FeedSafety == Nothing /\ [][Watch]_feedVars

FeedSpec == FeedSafety /\ WF_feedVars(Draw)
=============================================================================
