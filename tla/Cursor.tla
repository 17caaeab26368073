------------------------------- MODULE Cursor -------------------------------
(***************************************************************************)
(* What an ISR promises its user: it walks over a set of matches, and      *)
(* every call of next() or seek(t) moves it to the first match at or after *)
(* the location that the call asks for, or exhausts it.                    *)
(***************************************************************************)
EXTENDS Locations

VARIABLES
  found,     \* the matches, fixed for the life of the cursor
  loc,       \* where it stands; Sentinel when it is exhausted
  target,    \* the location the last call asked for
  calling    \* a call has not returned yet

cursorVars == <<found, loc, target, calling>>

\* The constructor already moves the cursor to its first match.
CursorInit == found \in SUBSET Location /\ loc = 0 /\ target = 0 /\ calling = TRUE

\* next() asks for the location after the current one, or for the current
\* one again where the chunk lists it twice; seek(t) asks for t.
Call(t) ==
  /\ ~calling /\ loc # Sentinel
  /\ loc <= t
  /\ target' = t
  /\ calling' = TRUE
  /\ UNCHANGED <<found, loc>>

Return ==
  /\ calling
  /\ loc' = First(found, target)
  /\ calling' = FALSE
  /\ UNCHANGED <<found, target>>

CursorSpec == CursorInit /\ [][Return \/ \E t \in 0 .. Sentinel : Call(t)]_cursorVars

=============================================================================
