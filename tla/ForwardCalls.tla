---------------------------- MODULE ForwardCalls ----------------------------
(***************************************************************************)
(* Calls through CForwardMngr (amxmodx/CForward.cpp): of one function, the *)
(* registry of SPForwards, or of a public of every plugin, a               *)
(* multi-forward.  A caller first prepares the arrays it passes: each gets *)
(* an entry of the one table m_TmpArrays, and the index goes along as the  *)
(* parameter.  The entry is read when a function is entered, and again     *)
(* when the array is copied back after it; in between the function may     *)
(* prepare arrays and make calls, to any depth.                            *)
(*                                                                         *)
(* m_TmpArraysNum goes back to 0 whenever a call returns, also one that is *)
(* nested, so what the calls around it have prepared is then up for        *)
(* overwriting ("safe" below).                                             *)
(***************************************************************************)
EXTENDS SPForwards

CONSTANTS Forwards,   \* the names of multi-forwards
          Functions,  \* name -> how many plugins have that public
          Arrays,     \* the arrays callers pass
          MaxArrays,  \* FORWARD_MAX_PARAMS, the size of the table
          MaxReady    \* bound on the indices one caller keeps for its next call

ASSUME FunctionsAssumption == Functions \in [Forwards -> Nat]
ASSUME MaxArraysAssumption == MaxArrays \in Nat \ {0}

VARIABLES
  multi,   \* the multi-forwards in m_Forwards
  tmp,     \* m_TmpArrays, the array of each entry
  tmpNum,  \* m_TmpArraysNum
  calls    \* who runs: the engine, then the calls in progress, innermost last

callVars == <<multi, tmp, tmpNum, calls>>

\* What prepareArray returned, and for which array; safe until m_TmpArraysNum is
\* reset (history).
Index == [at : 0 .. MaxArrays - 1, array : Arrays \cup {None}, safe : BOOLEAN]

\* A call: of one function or of several, those still to be called, its array
\* parameters, and the indices the code that runs in it has ready for a call of
\* its own.
Frame == [one : BOOLEAN, left : Nat, args : SUBSET Index, ready : SUBSET Index]

CallOf(one, left, args, ready) ==
  [one |-> one, left |-> left, args |-> args, ready |-> ready]

Here == Top(calls)

CallInit ==
  /\ Init
  /\ multi = {}
  /\ tmp = [i \in 0 .. MaxArrays - 1 |-> None]
  /\ tmpNum = 0
  /\ calls = <<CallOf(FALSE, 0, {}, {})>>

-----------------------------------------------------------------------------
(* prepareArray *)

Exposed(s) == {[x EXCEPT !.safe = FALSE, !.array = None] : x \in s}

\* m_TmpArraysNum = 0: every index in use, of whatever call, may be given out again,
\* and it no longer matters which array it was for.
ExposeAll(cs) == [d \in 1 .. Len(cs) |->
                   CallOf(cs[d].one, cs[d].left, Exposed(cs[d].args), Exposed(cs[d].ready))]

\* Whoever runs prepares array a.
PrepareArray(a) ==
  /\ tmpNum < MaxArrays /\ Cardinality(Here.ready) < MaxReady
  /\ tmp' = [tmp EXCEPT ![tmpNum] = a]
  /\ tmpNum' = tmpNum + 1
  /\ calls' = [calls EXCEPT ![Len(calls)].ready =
                 @ \cup {[at |-> tmpNum, array |-> a, safe |-> TRUE]}]
  /\ UNCHANGED <<multi, vars>>

\* The table is full: the caller gets -1 and the counter starts again.
PrepareTooMany ==
  /\ tmpNum = MaxArrays
  /\ tmpNum' = 0
  /\ calls' = ExposeAll(calls)
  /\ UNCHANGED <<multi, tmp, vars>>

-----------------------------------------------------------------------------
(* executeForwards *)

EnterResetting(used, one, left) ==
  /\ calls' = Append([calls EXCEPT ![Len(calls)].ready = @ \ used],
                     CallOf(one, left, used, {}))
  /\ tmpNum' = 0
  /\ UNCHANGED <<multi, tmp>>

\* The innermost code calls, with some of the arrays it has ready.
Enter(used, one, left) ==
  /\ calls' = Append([calls EXCEPT ![Len(calls)].ready = @ \ used],
                     CallOf(one, left, used, {}))
  /\ UNCHANGED <<multi, tmp, tmpNum>>

\* It returns to the code around it.
Leave ==
  /\ Len(calls) > 1
  /\ calls' = ExposeAll(Pop(calls))
  /\ tmpNum' = 0
  /\ UNCHANGED <<multi, tmp>>

\* CSPForward::execute of a holder's function ...
CallOne(h) ==
  /\ Len(calls) <= MaxDepth
  /\ Execute(h)
  /\ \E used \in SUBSET Here.ready : Enter(used, TRUE, 0)

ReturnOne == Here.one /\ Finish /\ Leave

\* ... and CForward::execute: the first plugin that has the function ...
CallAll(f) ==
  /\ Len(calls) <= MaxDepth
  /\ f \in multi /\ Functions[f] > 0
  /\ \E used \in SUBSET Here.ready : Enter(used, FALSE, Functions[f] - 1)
  /\ UNCHANGED vars

\* ... and the next one, with the same parameters ...
NextFunction ==
  /\ ~Here.one /\ Here.left > 0
  /\ calls' = [calls EXCEPT ![Len(calls)] = CallOf(FALSE, Here.left - 1, Here.args, {})]
  /\ UNCHANGED <<multi, tmp, tmpNum, vars>>

\* ... until the last one, or one whose result stops the forward (ET_STOP, ET_STOP2);
\* the plugins that are paused are passed over.
ReturnAll ==
  /\ ~Here.one /\ Leave
  /\ UNCHANGED vars

\* Nobody is called: the function is free, about to be deleted or its plugin paused, or
\* no plugin has it.  The call still resets the counter.
CallNobody ==
  /\ len > 0 \/ multi # {}
  /\ \E used \in SUBSET Here.ready :
       calls' = ExposeAll([calls EXCEPT ![Len(calls)].ready = @ \ used])
  /\ tmpNum' = 0
  /\ UNCHANGED <<multi, tmp, vars>>

-----------------------------------------------------------------------------
(* The tables of forwards *)

\* registerForward; one that is there already is shared.
RegisterForward(f) ==
  /\ multi' = multi \cup {f}
  /\ UNCHANGED <<tmp, tmpNum, calls, vars>>

ClearAll ==
  /\ Len(calls) = 1
  /\ Clear
  /\ multi' = {} /\ tmpNum' = 0
  /\ calls' = ExposeAll(calls)
  /\ UNCHANGED tmp

\* The other operations of SPForwards.
Bookkeeping ==
  /\ \/ \E h \in Holders : Release(h) \/ \E k \in Keys : Register(h, k)
     \/ \E g, h \in Holders : Duplicate(g, h)
     \/ \E k \in Keys : RecycleFails(k)
  /\ UNCHANGED callVars

CallNext ==
  \/ \E a \in Arrays : PrepareArray(a)
  \/ \E h \in Holders : CallOne(h)
  \/ \E f \in Forwards : CallAll(f) \/ RegisterForward(f)
  \/ PrepareTooMany \/ NextFunction \/ ReturnOne \/ ReturnAll \/ CallNobody
  \/ ClearAll \/ Bookkeeping

CallSpec == CallInit /\ [][CallNext]_<<vars, callVars>>

-----------------------------------------------------------------------------
(* Properties *)

CallTypeOK ==
  /\ multi \subseteq Forwards
  /\ tmp \in [0 .. MaxArrays - 1 -> Arrays \cup {None}]
  /\ tmpNum \in 0 .. MaxArrays
  /\ calls \in Seq(Frame) /\ calls # <<>>

\* The indices the callers have, and those the calls were given.
InUse == UNION {calls[d].args \cup calls[d].ready : d \in 1 .. Len(calls)}

\* The parameter a call was given still leads to the array its caller prepared, in
\* every function it calls and when the array is copied back, as long as no call has
\* returned since the array was prepared: a call that is nested in it, with arrays of
\* its own, does no harm.  ("Modifications made by the called plugin(s) will be copied
\* back to the caller", plugins/include/amxmodx.inc:3297; it does not hold after
\* CForward.cpp:756 has run in a nested call.)
ArraysAreOwn ==
  /\ CallTypeOK
  /\ \A x \in InUse : x.safe => x.at < tmpNum /\ tmp[x.at] = x.array

\* "Modifications made by the called plugin(s) will be copied back to the caller"
\* (plugins/include/amxmodx.inc:3297): while a call is in progress the entry of its
\* array is not given out again to code inside it, whose array would be read by the
\* next plugin and written to when the first is copied back.  This is false: no run
\* checks it, TLC refutes it on the instance of ForwardCalls.cfg.
EntriesNotShared ==
  \A d, e \in 1 .. Len(calls) : d < e =>
    \A x \in calls[d].args, y \in calls[e].args \cup calls[e].ready : x.at # y.at

=============================================================================
