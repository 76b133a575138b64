----------------------------- MODULE LogChannel -----------------------------
(***************************************************************************)
(* What the asynchronous log queue promises to its callers: a FIFO channel *)
(* that holds Cap lines and never blocks.  A line handed over is accepted  *)
(* whenever the channel has room; it is refused, and counted, only when    *)
(* Cap lines wait in it.  The writer takes the accepted lines out in the   *)
(* order in which they entered, one at a time, and each is written or      *)
(* counted.  The ring, the mutex, the condition variable and the life of   *)
(* the writer thread (amxmodx/amxxlog.cpp:35-262) are the business of      *)
(* LogQueue, which implements this module.                                 *)
(***************************************************************************)
EXTENDS Naturals, Sequences

CONSTANTS Line,      \* what one queued operation carries (path and text)
          Cap        \* how many lines may wait

VARIABLES queue,     \* accepted lines that wait, oldest first
          hand,      \* the line the writer has taken out, if any
          written,   \* lines that reached their file, in order
          lost       \* how many lines were dropped

chanVars == <<queue, hand, written, lost>>

ChanInit == /\ queue = <<>>
            /\ hand = {}
            /\ written = <<>>
            /\ lost = 0

\* There is room: the line is accepted.
Accept(l) == /\ Len(queue) < Cap
             /\ queue' = Append(queue, l)
             /\ UNCHANGED <<hand, written, lost>>

\* There is none: the caller goes on and the loss is counted.
Refuse == /\ Len(queue) = Cap
          /\ lost' = lost + 1
          /\ UNCHANGED <<queue, hand, written>>

\* The writer, with nothing in hand, takes the oldest line, which makes room.
Take == /\ hand = {} /\ queue # <<>>
        /\ hand' = {Head(queue)}
        /\ queue' = Tail(queue)
        /\ UNCHANGED <<written, lost>>

\* The line is written ...
Write == \E l \in hand :
           /\ hand' = {}
           /\ written' = Append(written, l)
           /\ UNCHANGED <<queue, lost>>

\* ... or its file cannot be opened or written, and the loss is counted.
Lose == /\ hand # {}
        /\ hand' = {}
        /\ lost' = lost + 1
        /\ UNCHANGED <<queue, written>>

ChanNext == (\E l \in Line : Accept(l)) \/ Refuse \/ Take \/ Write \/ Lose

ChanSpec == ChanInit /\ [][ChanNext]_chanVars

=============================================================================
