----------------------------- MODULE WordCursor -----------------------------
(***************************************************************************)
(* ISRWord (src/src/index/src/lib/isr.cpp): the cursor over one posting    *)
(* list as it lies in the file.  The composite cursors of QueryCursor have *)
(* it as their children.  One action is one round of seek's loop.          *)
(***************************************************************************)
EXTENDS IndexFile

CONSTANT Lists   \* posting lists: locations in their order, perhaps twice the same

VARIABLES
  list,       \* what createISR found: [count, data, table]
  locations,  \* history: what was written into it
  index, ptr, at, exhausted,   \* current_index, current_ptr, current_loc, is_exhausted
  calling,    \* the call that has not returned: "next", "seek" or "no"
  target,     \* the location it asks for
  answer      \* what the last call returned

vars == <<list, locations, index, ptr, at, exhausted, calling, target, answer>>

Sentinel == LocationLimit - 1

\* ISRWord::ISRWord, whose call of next() is still to come.
Init ==
  /\ locations \in Lists
  /\ list = ReadPostingList(WritePostingList(locations))
  /\ index = 0 /\ ptr = 0 /\ at = 0 /\ exhausted = FALSE
  /\ calling = "next" /\ target = 0 /\ answer = 0

\* A user calls next(): it asks for whatever comes behind the current posting.
CallNext ==
  /\ calling = "no" /\ ~exhausted
  /\ calling' = "next"
  /\ target' = IF index < list.count /\ locations[index + 1] = at THEN at ELSE at + 1
  /\ UNCHANGED <<list, locations, index, ptr, at, exhausted, answer>>

\* Mutant: a jump does not count the posting it lands on.
JumpUncounted(t) ==
  IF list.table # NoTable /\ list.table[Entry(t)].posting # NoPosting
     /\ list.table[Entry(t)].posting + 1 > index
  THEN LET entry == list.table[Entry(t)]
       IN ptr' = entry.offset /\ at' = entry.base /\ index' = entry.posting
  ELSE UNCHANGED <<ptr, at, index>>

\* Ahead to the posting that the table names, if that is ahead.
Jump(t) ==
  IF list.table # NoTable /\ list.table[Entry(t)].posting # NoPosting
     /\ list.table[Entry(t)].posting + 1 > index
  THEN LET entry == list.table[Entry(t)]
       IN ptr' = entry.offset /\ at' = entry.base /\ index' = entry.posting + 1
  ELSE UNCHANGED <<ptr, at, index>>

\* A user calls seek(t), which jumps unless the cursor is there or past it.
CallSeek(t) ==
  /\ calling = "no" /\ ~exhausted
  /\ calling' = "seek"
  /\ IF at >= t THEN target' = at /\ UNCHANGED <<ptr, at, index>> ELSE target' = t /\ Jump(t)
  /\ UNCHANGED <<list, locations, exhausted, answer>>

ReturnThere == calling' = "no" /\ answer' = at'

\* next(), in its own right or in the loop of seek().
Advance ==
  /\ calling = "next" \/ (calling = "seek" /\ at < target)
  /\ IF index >= list.count
     THEN exhausted' = TRUE /\ at' = Sentinel /\ UNCHANGED <<index, ptr>>
     ELSE LET number == Decode(list.data, ptr)
          IN /\ at' = (at + number.value) % LocationLimit
             /\ ptr' = number.next /\ index' = index + 1 /\ UNCHANGED exhausted
  /\ IF calling = "next" \/ at' >= target THEN ReturnThere ELSE UNCHANGED <<calling, answer>>
  /\ UNCHANGED <<list, locations, target>>

\* seek() finds itself at or past the target before its loop.
Arrived ==
  /\ calling = "seek" /\ at >= target
  /\ UNCHANGED <<list, locations, index, ptr, at, exhausted, target>>
  /\ ReturnThere

Next == CallNext \/ (\E t \in 0 .. Sentinel - 1 : CallSeek(t)) \/ Advance \/ Arrived

Spec == Init /\ [][Next]_vars

-----------------------------------------------------------------------------
(* Properties *)

Abstract == INSTANCE Cursor
  WITH Sentinel <- Sentinel, found <- ToSet(locations), loc <- answer, calling <- calling # "no"

\* The bytes of a list and its seek table make a Cursor: whatever calls came
\* before, next() and seek() return the first location of the list at or after
\* the one asked for, and the table never skips one.
ImplementsCursor == Abstract!CursorSpec

\* currentIndex() counts the postings up to the current one, however the cursor
\* got there: for the end-of-document words it is the number of the document.
IndexIsPosting == calling = "no" /\ ~exhausted => index \in DOMAIN locations /\ locations[index] = at
=============================================================================
