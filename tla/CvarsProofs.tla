----------------------------- MODULE CvarsProofs -----------------------------
(***************************************************************************)
(* Proofs about Cvars, for any cvars, values, bounds, hooks and depth of   *)
(* nesting.                                                                *)
(***************************************************************************)
EXTENDS Cvars, SequenceTheorems, TLAPS

-----------------------------------------------------------------------------
(* The inductive invariant *)

\* A walk will still come to the hook i of c.
Owed(fs, c, i) ==
  \E k \in 1 .. Len(fs) : fs[k].op = "walk" /\ fs[k].c = c /\ fs[k].at < i

\* Whoever hangs on a cvar is noticed by the detour.
DetourServes ==
  \A c \in Cvars : hooks[c] # <<>> \/ binds[c] # {} => detour /\ cvar[c].cached

\* Only cvars that plugins registered, and that are in the cache, have bounds.
Unbounded(info) == info.min = None /\ info.max = None

BoundsAreManaged ==
  \A c \in Cvars : ~cvar[c].cached \/ c \notin Managed => Unbounded(cvar[c])

CreatingIsManaged ==
  \A k \in 1 .. Len(frames) : frames[k].op = "create" =>
    frames[k].c \in Managed /\ cvar[frames[k].c].cached

\* An enabled hook knows the value, or will be told.
Hears ==
  \A c \in Cvars : \A i \in 1 .. Len(hooks[c]) :
    hooks[c][i] => heard[c][i] = cvar[c].value \/ Owed(frames, c, i)

Mirrors ==
  \A x \in Variables :
    (\E c \in Cvars : x \in binds[c]) =>
      \E c \in Cvars : x \in binds[c] /\ var[x] = cvar[c].value

IInv == TypeOK /\ DetourServes /\ BoundsAreManaged /\ CreatingIsManaged /\ Hears /\ Mirrors

USE CvarsAssumption

-----------------------------------------------------------------------------
(* Where Cvar_DirectSet_Custom comes to rest *)

LEMMA NumbersAreInts ==
  /\ Values \cup {None} \subseteq Int
  /\ Bounds \cup {None} \subseteq Int
<1>1. None \in Int /\ Nat \subseteq Int
  BY DEF None
<1>2. Values \subseteq Nat /\ Bounds \subseteq Nat
  OBVIOUS
<1> QED
  BY <1>1, <1>2

LEMMA ClampedIsValue ==
  ASSUME NEW info \in Info, NEW v \in Values
  PROVE  Clamped(info, v) \in Values
<1>1. CASE TooLow(info, v)
  <2>1. info.min \in Bounds
    BY <1>1 DEF TooLow, Info
  <2> QED
    BY <1>1, <2>1 DEF Clamped
<1>2. CASE ~TooLow(info, v) /\ TooHigh(info, v)
  <2>1. info.max \in Bounds
    BY <1>2 DEF TooHigh, Info
  <2> QED
    BY <1>2, <2>1 DEF Clamped
<1>3. CASE ~TooLow(info, v) /\ ~TooHigh(info, v)
  BY <1>3 DEF Clamped
<1> QED
  BY <1>1, <1>2, <1>3

LEMMA LandingIsValue ==
  ASSUME NEW info \in Info, NEW v \in Values
  PROVE  Landing(info, v) \in Values \cup {Never}
<1> DEFINE once == Clamped(info, v)
           twice == Clamped(info, once)
<1>1. once \in Values
  BY ClampedIsValue
<1>2. twice \in Values
  BY <1>1, ClampedIsValue
<1> QED
  BY <1>1, <1>2 DEF Landing

\* Between bounds that are in order one clamping is enough.
LEMMA LandingInside ==
  ASSUME NEW info \in Info, NEW v \in Values, Sound(info)
  PROVE  /\ Landing(info, v) # Never
         /\ Landing(info, v) = info.value \/ Fits(info, Landing(info, v))
         /\ Fits(info, v) => Landing(info, v) = v
<1> DEFINE once == Clamped(info, v)
<1>1. /\ info.min \in (Bounds \cap Values) \cup {None}
      /\ info.max \in (Bounds \cap Values) \cup {None}
  BY DEF Info, Sound
<1>2. /\ info.min # None => Printed[info.min] = info.min /\ info.min \in Nat
      /\ info.max # None => Printed[info.max] = info.max /\ info.max \in Nat
      /\ info.min # None /\ info.max # None => info.min <= info.max
      /\ v \in Nat
  BY <1>1 DEF Sound
<1>3. ~Fits(info, v) => Fits(info, once)
  <2>1. CASE TooLow(info, v)
    <3>1. once = info.min /\ info.min # None
      BY <2>1, <1>2 DEF Clamped, TooLow
    <3> QED
      BY <3>1, <1>2 DEF Fits, TooLow, TooHigh, None
  <2>2. CASE ~TooLow(info, v) /\ TooHigh(info, v)
    <3>1. once = info.max /\ info.max # None
      BY <2>2, <1>2 DEF Clamped, TooHigh
    <3> QED
      BY <3>1, <1>2 DEF Fits, TooLow, TooHigh, None
  <2> QED
    BY <2>1, <2>2 DEF Fits
<1>4. v # Never /\ once # Never
  BY ClampedIsValue DEF Never
<1>5. CASE v = info.value \/ Fits(info, v)
  BY <1>5, <1>4 DEF Landing
<1>6. CASE ~(v = info.value \/ Fits(info, v))
  BY <1>6, <1>3, <1>4 DEF Landing
<1> QED
  BY <1>5, <1>6

-----------------------------------------------------------------------------
(* A walk over hooks *)

LEMMA OwedAppend ==
  ASSUME NEW fs \in Seq(Frame), NEW f \in Frame, NEW c, NEW i
  PROVE  /\ Owed(fs, c, i) => Owed(Append(fs, f), c, i)
         /\ f.op = "walk" /\ f.c = c /\ f.at < i => Owed(Append(fs, f), c, i)
<1>1. /\ Append(fs, f) \in Seq(Frame) /\ Len(Append(fs, f)) = Len(fs) + 1
      /\ \A k \in 1 .. Len(fs) : Append(fs, f)[k] = fs[k]
      /\ Append(fs, f)[Len(fs) + 1] = f
  OBVIOUS
<1>2. Len(fs) \in Nat
  OBVIOUS
<1> QED
  BY <1>1, <1>2 DEF Owed

LEMMA PopFrame ==
  ASSUME frames \in Seq(Frame), frames # <<>>
  PROVE  /\ Len(frames) \in Nat \ {0} /\ Top \in Frame
         /\ Below \in Seq(Frame) /\ Len(Below) = Len(frames) - 1
         /\ \A k \in 1 .. Len(Below) : Below[k] = frames[k]
<1>1. Len(frames) \in Nat \ {0}
  OBVIOUS
<1>2. Len(frames) \in 1 .. Len(frames) /\ 1 \in 1 .. Len(frames)
  BY <1>1
<1>3. frames[Len(frames)] \in Frame
  BY <1>2, ElementOfSeq
<1> DEFINE n == Len(frames) - 1
<1>4. n \in 0 .. Len(frames)
  BY <1>1
<1>5. /\ SubSeq(frames, 1, n) \in Seq(Frame)
      /\ Len(SubSeq(frames, 1, n)) = n
      /\ \A k \in 1 .. n : SubSeq(frames, 1, n)[k] = frames[k]
  <2>1. \A k \in 1 .. n : frames[k] \in Frame
    BY <1>1, ElementOfSeq
  <2>2. n \in Int /\ (n - 1 + 1 = n) /\ (~(1 <= n) => n = 0)
    <3>1. \A i \in Nat \ {0} : LET j == i - 1
                               IN  j \in Int /\ (j - 1 + 1 = j) /\ (~(1 <= j) => j = 0)
      OBVIOUS
    <3> QED
      BY <3>1, <1>1
  <2>3. /\ SubSeq(frames, 1, n) \in Seq(Frame)
        /\ Len(SubSeq(frames, 1, n)) = IF 1 <= n THEN n - 1 + 1 ELSE 0
        /\ \A k \in 1 .. n - 1 + 1 : SubSeq(frames, 1, n)[k] = frames[1 + k - 1]
    BY <2>1, <2>2, SubSeqProperties
  <2> QED
    BY <2>2, <2>3
<1> QED
  BY <1>1, <1>3, <1>5 DEF Top, Below

LEMMA WalkStep ==
  ASSUME TypeOK, NEW c \in Cvars, NEW from \in Nat, from # 0, NEW value \in Values \cup {None},
         NEW fs \in Seq(Frame), Walk(c, from, value, fs)
  PROVE  /\ frames' \in Seq(Frame)
         /\ heard' \in [Cvars -> Seq(Values \cup {None})]
         /\ \A d \in Cvars : Len(heard'[d]) = Len(heard[d])
         /\ \A d \in Cvars : d # c => heard'[d] = heard[d]
         /\ \A i \in 1 .. Len(hooks[c]) : heard'[c][i] \in {heard[c][i], value}
         /\ \A d, i : Owed(fs, d, i) => Owed(frames', d, i)
         /\ \A i \in from .. Len(hooks[c]) :
              hooks[c][i] => heard'[c][i] = value \/ Owed(frames', c, i)
         /\ \A k \in 1 .. Len(frames') : frames'[k].op = "create" =>
              k \in 1 .. Len(fs) /\ frames'[k] = fs[k]
<1> DEFINE left == {i \in from .. Len(hooks[c]) : hooks[c][i]}
<1>0. /\ heard \in [Cvars -> Seq(Values \cup {None})] /\ heard[c] \in Seq(Values \cup {None})
      /\ Len(heard[c]) = Len(hooks[c]) /\ Len(hooks[c]) \in Nat
  BY DEF TypeOK
<1>1. CASE left = {} /\ frames' = fs /\ UNCHANGED heard
  BY <1>0, <1>1
<1>2. ASSUME NEW j \in left,
             \A i \in left : j <= i,
             frames' = Append(fs, [op |-> "walk", c |-> c, at |-> j, max |-> None]),
             heard' = [heard EXCEPT ![c][j] = value]
      PROVE  /\ frames' \in Seq(Frame)
             /\ heard' \in [Cvars -> Seq(Values \cup {None})]
             /\ \A d \in Cvars : Len(heard'[d]) = Len(heard[d])
             /\ \A d \in Cvars : d # c => heard'[d] = heard[d]
             /\ \A i \in 1 .. Len(hooks[c]) : heard'[c][i] \in {heard[c][i], value}
             /\ \A d, i : Owed(fs, d, i) => Owed(frames', d, i)
             /\ \A i \in from .. Len(hooks[c]) :
                  hooks[c][i] => heard'[c][i] = value \/ Owed(frames', c, i)
             /\ \A k \in 1 .. Len(frames') : frames'[k].op = "create" =>
                  k \in 1 .. Len(fs) /\ frames'[k] = fs[k]
  <2> DEFINE f == [op |-> "walk", c |-> c, at |-> j, max |-> None]
             row == [heard[c] EXCEPT ![j] = value]
  <2>1. j \in 1 .. Len(heard[c]) /\ j \in Nat
    BY <1>0
  <2>2. f \in Frame /\ f.op = "walk" /\ f.c = c /\ f.at = j
    BY <2>1 DEF Frame
  <2>3. row \in Seq(Values \cup {None}) /\ Len(row) = Len(heard[c])
    BY <2>1, <1>0
  <2>4. heard' = [heard EXCEPT ![c] = row]
    BY <1>2
  <2>5. heard'[c] = row /\ \A d \in Cvars : d # c => heard'[d] = heard[d]
    BY <2>4, <1>0
  <2>6. heard' \in [Cvars -> Seq(Values \cup {None})]
    BY <2>3, <2>4, <1>0
  <2>7. \A d \in Cvars : Len(heard'[d]) = Len(heard[d])
    BY <2>3, <2>5
  <2>8. \A i \in 1 .. Len(hooks[c]) : heard'[c][i] = IF i = j THEN value ELSE heard[c][i]
    BY <2>5, <1>0
  <2>9. frames' \in Seq(Frame)
    BY <1>2, <2>2
  <2>10. \A d, i : Owed(fs, d, i) => Owed(frames', d, i)
    BY <1>2, <2>2, OwedAppend
  <2>11. \A i \in from .. Len(hooks[c]) :
           hooks[c][i] => heard'[c][i] = value \/ Owed(frames', c, i)
    <3> SUFFICES ASSUME NEW i \in from .. Len(hooks[c]), hooks[c][i], i # j
                 PROVE  Owed(frames', c, i)
      BY <2>8, <1>0
    <3>1. i \in left /\ j < i
      BY <1>2, <2>1
    <3> QED
      BY <3>1, <1>2, <2>2, OwedAppend
  <2>12. \A k \in 1 .. Len(frames') : frames'[k].op = "create" =>
           k \in 1 .. Len(fs) /\ frames'[k] = fs[k]
    <3>1. /\ Len(frames') = Len(fs) + 1 /\ frames'[Len(fs) + 1] = f /\ Len(fs) \in Nat
          /\ \A k \in 1 .. Len(fs) : frames'[k] = fs[k]
      BY <1>2, <2>2
    <3> QED
      BY <3>1, <2>2
  <2> QED
    BY <2>5, <2>6, <2>7, <2>8, <2>9, <2>10, <2>11, <2>12
<1> QED
  BY <1>1, <1>2 DEF Walk

-----------------------------------------------------------------------------
(* A cvar gets a new CvarInfo or a new value *)

\* What a native has made of the CvarInfo and of the stack before it sets a value.
Legit(c, info, fs) ==
  /\ info \in Info /\ fs \in Seq(Frame)
  /\ cvar[c].cached => info.cached /\ info.value = cvar[c].value
  /\ ~info.cached \/ c \notin Managed => Unbounded(info)
  /\ \A k \in 1 .. Len(fs) : fs[k].op = "create" =>
       fs[k].c \in Managed /\ (cvar[fs[k].c].cached \/ (fs[k].c = c /\ info.cached))
  /\ \A d, i : Owed(frames, d, i) => Owed(fs, d, i)

CreatesKept(fs) ==
  \A k \in 1 .. Len(frames') : frames'[k].op = "create" =>
    k \in 1 .. Len(fs) /\ frames'[k] = fs[k]

DetourStays == /\ detour' \in BOOLEAN /\ (detour => detour')
               /\ UNCHANGED <<hooks, binds>>

LEMMA WithValue ==
  ASSUME NEW info \in Info, NEW w \in Values \cup {None}
  PROVE  LET new == [info EXCEPT !.value = w]
         IN  /\ new \in Info /\ new.value = w
             /\ new.cached = info.cached /\ new.min = info.min /\ new.max = info.max
  BY DEF Info

LEMMA WithMin ==
  ASSUME NEW info \in Info, NEW b \in Bounds \cup {None}
  PROVE  LET new == [info EXCEPT !.min = b]
         IN  /\ new \in Info /\ new.min = b /\ new.max = info.max
             /\ new.cached = info.cached /\ new.value = info.value
  BY DEF Info

LEMMA WithMax ==
  ASSUME NEW info \in Info, NEW b \in Bounds \cup {None}
  PROVE  LET new == [info EXCEPT !.max = b]
         IN  /\ new \in Info /\ new.max = b /\ new.min = info.min
             /\ new.cached = info.cached /\ new.value = info.value
  BY DEF Info

\* The parts of the invariant that do not depend on values and hooks.
LEMMA ManagedStep ==
  ASSUME IInv, NEW c \in Cvars, NEW info, NEW fs, Legit(c, info, fs), DetourStays,
         NEW new \in Info, new.cached = info.cached, new.min = info.min, new.max = info.max,
         cvar' = [cvar EXCEPT ![c] = new],
         CreatesKept(fs)
  PROVE  DetourServes' /\ BoundsAreManaged' /\ CreatingIsManaged'
<1>0. cvar \in [Cvars -> Info] /\ \A d \in Cvars : cvar[d].cached \in BOOLEAN
  BY DEF IInv, TypeOK, Info
<1>1. cvar'[c] = new /\ \A d \in Cvars : d # c => cvar'[d] = cvar[d]
  BY <1>0
<1>2. \A d \in Cvars : cvar[d].cached => cvar'[d].cached
  BY <1>1 DEF Legit
<1>3. DetourServes'
  BY <1>2 DEF IInv, DetourServes, DetourStays
<1>4. BoundsAreManaged'
  BY <1>1 DEF IInv, BoundsAreManaged, Unbounded, Legit
<1>5. CreatingIsManaged'
  <2> SUFFICES ASSUME NEW k \in 1 .. Len(frames'), frames'[k].op = "create"
               PROVE  frames'[k].c \in Managed /\ cvar'[frames'[k].c].cached
    BY DEF CreatingIsManaged
  <2>1. /\ frames'[k].c \in Managed
        /\ cvar[frames'[k].c].cached \/ (frames'[k].c = c /\ new.cached)
    BY DEF Legit, CreatesKept
  <2> QED
    BY <2>1, <1>1, <1>2
<1> QED
  BY <1>3, <1>4, <1>5

\* Nobody notices: the value stays, or nothing hangs on the cvar.
LEMMA QuietStep ==
  ASSUME IInv, NEW c \in Cvars, NEW info, NEW fs, Legit(c, info, fs), DetourStays,
         NEW w \in Values \cup {None}, cvar' = [cvar EXCEPT ![c] = [info EXCEPT !.value = w]],
         w = cvar[c].value \/ (hooks[c] = <<>> /\ binds[c] = {}),
         frames' = fs, UNCHANGED <<var, heard>>, endless' \in BOOLEAN
  PROVE  IInv'
<1> DEFINE new == [info EXCEPT !.value = w]
<1>1. info \in Info /\ fs \in Seq(Frame)
  BY DEF Legit
<1>2. /\ new \in Info /\ new.value = w
      /\ new.cached = info.cached /\ new.min = info.min /\ new.max = info.max
  BY <1>1, WithValue
<1> HIDE DEF new
<1>3. cvar' = [cvar EXCEPT ![c] = new]
  BY DEF new
<1>4. cvar \in [Cvars -> Info]
  BY DEF IInv, TypeOK
<1>5. cvar'[c] = new /\ \A d \in Cvars : d # c => cvar'[d] = cvar[d]
  BY <1>3, <1>4
<1>6. TypeOK'
  BY <1>1, <1>2, <1>3, <1>4 DEF IInv, TypeOK, DetourStays
<1>7. DetourServes' /\ BoundsAreManaged' /\ CreatingIsManaged'
  <2>1. CreatesKept(fs)
    BY DEF CreatesKept
  <2> QED
    BY <2>1, <1>2, <1>3, ManagedStep
<1>8. Hears'
  <2> SUFFICES ASSUME NEW d \in Cvars, NEW i \in 1 .. Len(hooks[d]), hooks[d][i]
               PROVE  heard[d][i] = cvar'[d].value \/ Owed(fs, d, i)
    BY DEF Hears, DetourStays, Owed
  <2>1. heard[d][i] = cvar[d].value \/ Owed(fs, d, i)
    BY DEF IInv, Hears, Legit
  <2>2. hooks[d] # <<>>
    BY DEF IInv, TypeOK
  <2> QED
    BY <2>1, <2>2, <1>2, <1>5
<1>9. Mirrors'
  <2> SUFFICES ASSUME NEW x \in Variables, NEW b \in Cvars, x \in binds[b]
               PROVE  \E d \in Cvars : x \in binds[d] /\ var[x] = cvar'[d].value
    BY DEF Mirrors, DetourStays
  <2>1. PICK d \in Cvars : x \in binds[d] /\ var[x] = cvar[d].value
    BY DEF IInv, Mirrors
  <2> QED
    BY <2>1, <1>2, <1>5
<1> QED
  BY <1>6, <1>7, <1>8, <1>9 DEF IInv

\* Variables are written and a walk begins.
LEMMA NoticedStep ==
  ASSUME IInv, NEW c \in Cvars, NEW info, NEW fs, Legit(c, info, fs), DetourStays,
         NEW w \in Values, cvar' = [cvar EXCEPT ![c] = [info EXCEPT !.value = w]],
         var' = [x \in Variables |-> IF x \in binds[c] THEN w ELSE var[x]],
         Walk(c, 1, w, fs), endless' \in BOOLEAN
  PROVE  IInv'
<1> DEFINE new == [info EXCEPT !.value = w]
<1>1. info \in Info /\ fs \in Seq(Frame) /\ TypeOK
  BY DEF Legit, IInv
<1>2. /\ new \in Info /\ new.value = w
      /\ new.cached = info.cached /\ new.min = info.min /\ new.max = info.max
  BY <1>1, WithValue
<1> HIDE DEF new
<1>3. cvar' = [cvar EXCEPT ![c] = new]
  BY DEF new
<1>4. cvar \in [Cvars -> Info]
  BY <1>1 DEF TypeOK
<1>5. cvar'[c] = new /\ \A d \in Cvars : d # c => cvar'[d] = cvar[d]
  BY <1>3, <1>4
<1>W. /\ frames' \in Seq(Frame)
      /\ heard' \in [Cvars -> Seq(Values \cup {None})]
      /\ \A d \in Cvars : Len(heard'[d]) = Len(heard[d])
      /\ \A d \in Cvars : d # c => heard'[d] = heard[d]
      /\ \A d, i : Owed(fs, d, i) => Owed(frames', d, i)
      /\ \A i \in 1 .. Len(hooks[c]) : hooks[c][i] => heard'[c][i] = w \/ Owed(frames', c, i)
      /\ \A k \in 1 .. Len(frames') : frames'[k].op = "create" =>
           k \in 1 .. Len(fs) /\ frames'[k] = fs[k]
  <2> DEFINE one == 1
  <2>1. one \in Nat /\ one # 0 /\ Walk(c, one, w, fs)
    OBVIOUS
  <2> HIDE DEF one
  <2>2. \A i \in one .. Len(hooks[c]) :
          hooks[c][i] => heard'[c][i] = w \/ Owed(frames', c, i)
    BY <1>1, <2>1, WalkStep
  <2>3. /\ frames' \in Seq(Frame)
        /\ heard' \in [Cvars -> Seq(Values \cup {None})]
        /\ \A d \in Cvars : Len(heard'[d]) = Len(heard[d])
        /\ \A d \in Cvars : d # c => heard'[d] = heard[d]
        /\ \A d, i : Owed(fs, d, i) => Owed(frames', d, i)
        /\ \A k \in 1 .. Len(frames') : frames'[k].op = "create" =>
             k \in 1 .. Len(fs) /\ frames'[k] = fs[k]
    BY <1>1, <2>1, WalkStep
  <2> QED
    BY <2>2, <2>3 DEF one
<1>6. TypeOK'
  <2>1. var' \in [Variables -> Values \cup {None}]
    BY <1>1 DEF TypeOK
  <2>2. cvar' \in [Cvars -> Info]
    BY <1>2, <1>3, <1>4
  <2> QED
    BY <2>1, <2>2, <1>1, <1>W DEF TypeOK, DetourStays
<1>7. DetourServes' /\ BoundsAreManaged' /\ CreatingIsManaged'
  <2>1. CreatesKept(fs)
    BY <1>W DEF CreatesKept
  <2> QED
    BY <2>1, <1>2, <1>3, ManagedStep
<1>8. Hears'
  <2> SUFFICES ASSUME NEW d \in Cvars, NEW i \in 1 .. Len(hooks[d]), hooks[d][i]
               PROVE  heard'[d][i] = cvar'[d].value \/ Owed(frames', d, i)
    BY DEF Hears, DetourStays, Owed
  <2>1. CASE d = c
    BY <2>1, <1>W, <1>5, <1>2
  <2>2. CASE d # c
    <3>1. heard[d][i] = cvar[d].value \/ Owed(fs, d, i)
      BY DEF IInv, Hears, Legit
    <3> QED
      BY <3>1, <2>2, <1>W, <1>5
  <2> QED
    BY <2>1, <2>2
<1>9. Mirrors'
  <2> SUFFICES ASSUME NEW x \in Variables, NEW b \in Cvars, x \in binds[b]
               PROVE  \E d \in Cvars : x \in binds[d] /\ var'[x] = cvar'[d].value
    BY DEF Mirrors, DetourStays
  <2>1. CASE x \in binds[c]
    BY <2>1, <1>2, <1>5
  <2>2. CASE x \notin binds[c]
    <3>1. PICK d \in Cvars : x \in binds[d] /\ var[x] = cvar[d].value
      BY DEF IInv, Mirrors
    <3>2. var'[x] = var[x] /\ d # c
      BY <2>2, <3>1
    <3> QED
      BY <3>1, <3>2, <1>5
  <2> QED
    BY <2>1, <2>2
<1> QED
  BY <1>6, <1>7, <1>8, <1>9 DEF IInv

-----------------------------------------------------------------------------
(* Assign and Keep *)

\* A CvarInfo gets a value, which rests between its bounds or was there before.
Landed(c, info, v, w) ==
  /\ cvar' = [cvar EXCEPT ![c] = [info EXCEPT !.value = w]]
  /\ detour' /\ Sound(info) =>
       (w = info.value \/ Fits(info, w)) /\ (Fits(info, v) => w = v)

LEMMA UnboundedFits ==
  ASSUME NEW info \in Info, Unbounded(info), NEW v
  PROVE  Sound(info) /\ Fits(info, v)
BY DEF Unbounded, Sound, Fits, TooLow, TooHigh

LEMMA AssignStep ==
  ASSUME IInv, NEW c \in Cvars, NEW info, NEW fs, Legit(c, info, fs), DetourStays,
         NEW v \in Values, Assign(c, info, v, fs)
  PROVE  /\ IInv'
         /\ endless' => c \in Managed /\ ~Sound(info)
         /\ \E w \in Values \cup {None} : Landed(c, info, v, w)
<1> DEFINE w == IF detour' /\ info.cached THEN Landing(info, v) ELSE v
           seen == detour' /\ info.cached /\ w \notin {info.value, Never}
<1>1. info \in Info /\ info.value \in Values \cup {None} /\ cvar \in [Cvars -> Info]
  BY DEF Legit, Info, IInv, TypeOK
<1>2. w \in Values \cup {Never}
  BY <1>1, LandingIsValue
<1>3. detour' /\ Sound(info) =>
        w # Never /\ (w = info.value \/ Fits(info, w)) /\ (Fits(info, v) => w = v)
  <2>1. CASE detour' /\ info.cached
    BY <2>1, <1>1, LandingInside
  <2>2. CASE ~(detour' /\ info.cached)
    <3>1. v # Never
      BY DEF Never
    <3>2. detour' => Fits(info, v)
      BY <2>2, <1>1, UnboundedFits DEF Legit
    <3> QED
      BY <2>2, <3>1, <3>2
  <2> QED
    BY <2>1, <2>2
<1>4. w = Never => detour' /\ ~Sound(info) /\ c \in Managed
  <2>1. v # Never
    BY DEF Never
  <2>2. w = Never => detour' /\ info.cached
    BY <2>1
  <2>3. c \notin Managed => Sound(info)
    BY <1>1, UnboundedFits DEF Legit
  <2> QED
    BY <2>2, <2>3, <1>3
<1>5. ~detour' \/ ~info.cached => hooks[c] = <<>> /\ binds[c] = {}
  BY DEF IInv, DetourServes, DetourStays, Legit
<1>6. ~info.cached \/ info.value = cvar[c].value \/ (hooks[c] = <<>> /\ binds[c] = {})
  BY DEF IInv, DetourServes, Legit
<1>7. /\ endless' = (w = Never)
      /\ cvar' = [cvar EXCEPT ![c] = IF w = Never THEN info ELSE [info EXCEPT !.value = w]]
      /\ var' = [x \in Variables |-> IF x \in binds[c] /\ seen THEN w ELSE var[x]]
      /\ IF seen THEN Walk(c, 1, w, fs) ELSE frames' = fs /\ UNCHANGED heard
  BY DEF Assign, CallHooks
<1>8. info = [info EXCEPT !.value = info.value]
  BY <1>1 DEF Info
<1> HIDE DEF w
<1>9. CASE seen
  <2>1. /\ w \in Values /\ w # Never
    BY <1>2, <1>9
  <2>2. cvar' = [cvar EXCEPT ![c] = [info EXCEPT !.value = w]]
    BY <2>1, <1>7
  <2>3. var' = [x \in Variables |-> IF x \in binds[c] THEN w ELSE var[x]]
    BY <1>7, <1>9
  <2>4. Walk(c, 1, w, fs) /\ endless' \in BOOLEAN
    BY <1>7, <1>9
  <2>5. IInv'
    BY <2>1, <2>2, <2>3, <2>4, NoticedStep
  <2>6. Landed(c, info, v, w)
    BY <2>2, <1>3 DEF Landed
  <2> QED
    BY <2>1, <2>5, <2>6, <1>4, <1>7
<1>10. CASE ~seen
  <2> DEFINE u == IF w = Never THEN info.value ELSE w
  <2>1. u \in Values \cup {None}
    BY <1>1, <1>2
  <2>2. cvar' = [cvar EXCEPT ![c] = [info EXCEPT !.value = u]]
    BY <1>7, <1>8
  <2>3. u = cvar[c].value \/ (hooks[c] = <<>> /\ binds[c] = {})
    BY <1>10, <1>5, <1>6
  <2>4. var \in [Variables -> Values \cup {None}]
    BY DEF IInv, TypeOK
  <2>5. UNCHANGED <<var, heard>> /\ frames' = fs /\ endless' \in BOOLEAN
    BY <1>7, <1>10, <2>4
  <2>6. detour' /\ Sound(info) =>
          (u = info.value \/ Fits(info, u)) /\ (Fits(info, v) => u = v)
    BY <1>3
  <2> HIDE DEF u, seen
  <2>7. IInv'
    BY <2>1, <2>2, <2>3, <2>5, QuietStep
  <2>8. Landed(c, info, v, u)
    BY <2>2, <2>6 DEF Landed
  <2> QED
    BY <2>1, <2>7, <2>8, <1>4, <1>7
<1> QED
  BY <1>9, <1>10

LEMMA KeepStep ==
  ASSUME IInv, NEW c \in Cvars, NEW info, NEW fs, Legit(c, info, fs), DetourStays,
         Keep(c, info, fs)
  PROVE  IInv'
<1>1. info \in Info /\ info.value \in Values \cup {None}
  BY DEF Legit, Info
<1>2. info = [info EXCEPT !.value = info.value]
  BY <1>1 DEF Info
<1>3. info.value = cvar[c].value \/ (hooks[c] = <<>> /\ binds[c] = {})
  BY DEF IInv, DetourServes, Legit
<1>4. /\ cvar' = [cvar EXCEPT ![c] = [info EXCEPT !.value = info.value]]
      /\ frames' = fs /\ UNCHANGED <<var, heard>> /\ endless' \in BOOLEAN
  BY <1>2 DEF Keep, IInv, TypeOK
<1> QED
  BY <1>1, <1>3, <1>4, QuietStep

-----------------------------------------------------------------------------
(* Setting a bound, in set_pcvar_bounds and in create_cvar *)

\* What BoundsHold says of a cvar that a step may change.
Settled(old, new) ==
  detour' /\ Sound(old) /\ Sound(new) =>
    /\ old.value # new.value => Fits(new, new.value)
    /\ old.min # new.min => ~TooLow(new, new.value)
    /\ old.max # new.max => ~TooHigh(new, new.value)

BoundStep ==
  /\ endless' => \E c \in Managed : ~Sound(cvar'[c])
  /\ \A c \in Cvars : Settled(cvar[c], cvar'[c])

\* A CvarInfo that is not the old one has the old value or takes any, and lacks a
\* bound or has the old one.
Near(c, info) ==
  /\ info.value = cvar[c].value \/ Unbounded(info)
  /\ info.min \in {None, cvar[c].min} /\ info.max \in {None, cvar[c].max}

LEMMA SoundAgain ==
  ASSUME NEW r, NEW q, r.min = q.min, r.max = q.max
  PROVE  Sound(r) = Sound(q) /\ \A w : Fits(r, w) = Fits(q, w)
BY DEF Sound, Fits, TooLow, TooHigh

LEMMA Untouched ==
  ASSUME NEW c, NEW new, cvar \in [Cvars -> Info], cvar' = [cvar EXCEPT ![c] = new],
         Settled(cvar[c], new)
  PROVE  \A d \in Cvars : Settled(cvar[d], cvar'[d])
<1>1. \A d \in Cvars : d # c => cvar'[d] = cvar[d]
  OBVIOUS
<1>2. c \in Cvars => cvar'[c] = new
  OBVIOUS
<1>3. \A old : Settled(old, old)
  BY DEF Settled
<1> QED
  BY <1>1, <1>2, <1>3

LEMMA SetCvarMinStep ==
  ASSUME IInv, NEW c \in Managed, NEW info, NEW fs, Legit(c, info, fs), Near(c, info),
         info.cached, DetourStays, ~endless, NEW b \in Bounds \cup {None},
         SetCvarMin(c, info, b, fs)
  PROVE  IInv' /\ BoundStep
<1> DEFINE new == [info EXCEPT !.min = b]
<1>1. info \in Info /\ info.value \in Values \cup {None} /\ cvar \in [Cvars -> Info]
      /\ c \in Cvars /\ fs \in Seq(Frame)
  BY DEF Legit, Info, IInv, TypeOK
<1>2. /\ new \in Info /\ new.min = b /\ new.max = info.max
      /\ new.cached = info.cached /\ new.value = info.value
  BY <1>1, WithMin
<1>N. IF b = None \/ info.value >= b THEN Keep(c, new, fs) ELSE Assign(c, new, Printed[b], fs)
  BY DEF SetCvarMin
<1> HIDE DEF new
<1>3. Legit(c, new, fs)
  BY <1>2 DEF Legit
<1>4. CASE b = None \/ info.value >= b
  <2>1. Keep(c, new, fs)
    BY <1>4, <1>N
  <2>2. IInv'
    BY <1>1, <1>3, <2>1, KeepStep
  <2>3. ~TooLow(new, new.value)
    <3>1. info.value \in Int /\ b \in Int
      BY <1>1, NumbersAreInts
    <3>2. \A i, j \in Int : i >= j => ~(i < j)
      OBVIOUS
    <3>3. b # None => ~(info.value < b)
      BY <1>4, <3>1, <3>2
    <3> QED
      BY <3>3, <1>2 DEF TooLow
  <2>4. new.value # cvar[c].value => Fits(new, new.value)
    BY <2>3, <1>2 DEF Near, Fits, TooHigh, Unbounded
  <2>5. new.max # cvar[c].max => ~TooHigh(new, new.value)
    BY <1>2 DEF Near, TooHigh
  <2>6. Settled(cvar[c], new)
    BY <2>3, <2>4, <2>5 DEF Settled
  <2>7. cvar' = [cvar EXCEPT ![c] = new] /\ ~endless'
    BY <2>1 DEF Keep
  <2> QED
    BY <2>2, <2>6, <2>7, <1>1, Untouched DEF BoundStep
<1>5. CASE ~(b = None \/ info.value >= b)
  <2>1. Assign(c, new, Printed[b], fs) /\ Printed[b] \in Values /\ b \in Nat
    BY <1>5, <1>N
  <2>2. /\ IInv'
        /\ endless' => ~Sound(new)
        /\ \E w \in Values \cup {None} : Landed(c, new, Printed[b], w)
    BY <1>1, <1>3, <2>1, AssignStep
  <2>3. PICK w \in Values \cup {None} : Landed(c, new, Printed[b], w)
    BY <2>2
  <2> DEFINE last == [new EXCEPT !.value = w]
  <2>4. /\ cvar' = [cvar EXCEPT ![c] = last]
        /\ last.value = w /\ last.min = b /\ last.max = info.max
    BY <2>3, <1>2, WithValue DEF Landed
  <2> HIDE DEF last
  <2>5. Sound(last) = Sound(new) /\ Fits(last, w) = Fits(new, w)
    BY <2>4, <1>2, SoundAgain
  <2>6. ASSUME Sound(new) PROVE Fits(new, Printed[b])
    <3>1. Printed[b] = b
      BY <2>6, <1>2, <1>5 DEF Sound
    <3>2. new.max # None => new.max \in Nat /\ b <= new.max
      BY <2>6, <1>2, <1>5 DEF Sound, None
    <3> QED
      BY <3>1, <3>2, <2>1, <1>2 DEF Fits, TooLow, TooHigh
  <2>7. detour' /\ Sound(new) => Fits(last, last.value)
    BY <2>3, <2>4, <2>5, <2>6 DEF Landed
  <2>8. Settled(cvar[c], last)
    BY <2>5, <2>7 DEF Settled, Fits
  <2>9. cvar'[c] = last
    BY <2>4, <1>1
  <2> QED
    BY <2>2, <2>4, <2>5, <2>8, <2>9, <1>1, Untouched DEF BoundStep
<1> QED
  BY <1>4, <1>5

LEMMA SetCvarMaxStep ==
  ASSUME IInv, NEW c \in Managed, NEW info, NEW fs, Legit(c, info, fs), Near(c, info),
         info.cached, DetourStays, ~endless, NEW b \in Bounds \cup {None},
         SetCvarMax(c, info, b, fs)
  PROVE  IInv' /\ BoundStep
<1> DEFINE new == [info EXCEPT !.max = b]
<1>1. info \in Info /\ info.value \in Values \cup {None} /\ cvar \in [Cvars -> Info]
      /\ c \in Cvars /\ fs \in Seq(Frame)
  BY DEF Legit, Info, IInv, TypeOK
<1>2. /\ new \in Info /\ new.max = b /\ new.min = info.min
      /\ new.cached = info.cached /\ new.value = info.value
  BY <1>1, WithMax
<1>N. IF b = None \/ info.value <= b THEN Keep(c, new, fs) ELSE Assign(c, new, Printed[b], fs)
  BY DEF SetCvarMax
<1> HIDE DEF new
<1>3. Legit(c, new, fs)
  BY <1>2 DEF Legit
<1>4. CASE b = None \/ info.value <= b
  <2>1. Keep(c, new, fs)
    BY <1>4, <1>N
  <2>2. IInv'
    BY <1>1, <1>3, <2>1, KeepStep
  <2>3. ~TooHigh(new, new.value)
    <3>1. info.value \in Int /\ b \in Int
      BY <1>1, NumbersAreInts
    <3>2. \A i, j \in Int : i <= j => ~(i > j)
      OBVIOUS
    <3>3. b # None => ~(info.value > b)
      BY <1>4, <3>1, <3>2
    <3> QED
      BY <3>3, <1>2 DEF TooHigh
  <2>4. new.value # cvar[c].value => Fits(new, new.value)
    BY <2>3, <1>2 DEF Near, Fits, TooLow, Unbounded
  <2>5. new.min # cvar[c].min => ~TooLow(new, new.value)
    BY <1>2 DEF Near, TooLow
  <2>6. Settled(cvar[c], new)
    BY <2>3, <2>4, <2>5 DEF Settled
  <2>7. cvar' = [cvar EXCEPT ![c] = new] /\ ~endless'
    BY <2>1 DEF Keep
  <2> QED
    BY <2>2, <2>6, <2>7, <1>1, Untouched DEF BoundStep
<1>5. CASE ~(b = None \/ info.value <= b)
  <2>1. Assign(c, new, Printed[b], fs) /\ Printed[b] \in Values /\ b \in Nat
    BY <1>5, <1>N
  <2>2. /\ IInv'
        /\ endless' => ~Sound(new)
        /\ \E w \in Values \cup {None} : Landed(c, new, Printed[b], w)
    BY <1>1, <1>3, <2>1, AssignStep
  <2>3. PICK w \in Values \cup {None} : Landed(c, new, Printed[b], w)
    BY <2>2
  <2> DEFINE last == [new EXCEPT !.value = w]
  <2>4. /\ cvar' = [cvar EXCEPT ![c] = last]
        /\ last.value = w /\ last.max = b /\ last.min = info.min
    BY <2>3, <1>2, WithValue DEF Landed
  <2> HIDE DEF last
  <2>5. Sound(last) = Sound(new) /\ Fits(last, w) = Fits(new, w)
    BY <2>4, <1>2, SoundAgain
  <2>6. ASSUME Sound(new) PROVE Fits(new, Printed[b])
    <3>1. Printed[b] = b
      BY <2>6, <1>2, <1>5 DEF Sound
    <3>2. new.min # None => new.min \in Nat /\ new.min <= b
      BY <2>6, <1>2, <1>5 DEF Sound, None
    <3> QED
      BY <3>1, <3>2, <2>1, <1>2 DEF Fits, TooLow, TooHigh
  <2>7. detour' /\ Sound(new) => Fits(last, last.value)
    BY <2>3, <2>4, <2>5, <2>6 DEF Landed
  <2>8. Settled(cvar[c], last)
    BY <2>5, <2>7 DEF Settled, Fits
  <2>9. cvar'[c] = last
    BY <2>4, <1>1
  <2> QED
    BY <2>2, <2>4, <2>5, <2>8, <2>9, <1>1, Untouched DEF BoundStep
<1> QED
  BY <1>4, <1>5

-----------------------------------------------------------------------------
(* The natives *)

\* A cvar that is looked up, by a native that does nothing else before.
LEMMA FoundIsLegit ==
  ASSUME IInv, NEW c \in Cvars, NEW cached \in BOOLEAN
  PROVE  LET info == [cvar[c] EXCEPT !.cached = @ \/ cached]
         IN  /\ Legit(c, info, frames) /\ Near(c, info)
             /\ info.cached = (cvar[c].cached \/ cached)
             /\ info.value = cvar[c].value /\ info.min = cvar[c].min /\ info.max = cvar[c].max
<1> DEFINE info == [cvar[c] EXCEPT !.cached = @ \/ cached]
<1>1. cvar[c] \in Info /\ frames \in Seq(Frame)
  BY DEF IInv, TypeOK
<1>2. /\ info \in Info /\ info.cached = (cvar[c].cached \/ cached)
      /\ info.value = cvar[c].value /\ info.min = cvar[c].min /\ info.max = cvar[c].max
  BY <1>1 DEF Info
<1> HIDE DEF info
<1>3. ~info.cached \/ c \notin Managed => Unbounded(info)
  BY <1>2 DEF IInv, BoundsAreManaged, Unbounded
<1>4. Legit(c, info, frames)
  <2>1. \A k \in 1 .. Len(frames) : frames[k].op = "create" =>
          frames[k].c \in Managed /\ cvar[frames[k].c].cached
    BY DEF IInv, CreatingIsManaged
  <2>2. cvar[c].cached => info.cached
    BY <1>2
  <2> QED
    BY <2>1, <2>2, <1>1, <1>2, <1>3 DEF Legit
<1>5. Near(c, info)
  BY <1>2 DEF Near
<1> QED
  BY <1>2, <1>4, <1>5 DEF info

LEMMA SetCvarStep ==
  ASSUME IInv, NEW c \in Cvars, NEW v \in Values, NEW byName \in BOOLEAN, SetCvar(c, v, byName)
  PROVE  IInv' /\ BoundStep
<1> DEFINE info == [cvar[c] EXCEPT !.cached = @ \/ byName]
<1>1. /\ Legit(c, info, frames)
      /\ info.value = cvar[c].value /\ info.min = cvar[c].min /\ info.max = cvar[c].max
  BY FoundIsLegit
<1>2. DetourStays /\ Assign(c, info, v, frames)
  BY DEF SetCvar, DetourStays, IInv, TypeOK
<1>3. info \in Info /\ cvar \in [Cvars -> Info]
  BY <1>1 DEF Legit, IInv, TypeOK
<1> HIDE DEF info
<1>4. /\ IInv'
      /\ endless' => c \in Managed /\ ~Sound(info)
      /\ \E w \in Values \cup {None} : Landed(c, info, v, w)
  BY <1>1, <1>2, AssignStep
<1>5. PICK w \in Values \cup {None} : Landed(c, info, v, w)
  BY <1>4
<1> DEFINE last == [info EXCEPT !.value = w]
<1>6. /\ cvar' = [cvar EXCEPT ![c] = last]
      /\ last.value = w /\ last.min = info.min /\ last.max = info.max
  BY <1>3, <1>5, WithValue DEF Landed
<1> HIDE DEF last
<1>7. Sound(last) = Sound(info) /\ Fits(last, w) = Fits(info, w)
  BY <1>6, SoundAgain
<1>8. Settled(cvar[c], last)
  BY <1>1, <1>5, <1>6, <1>7 DEF Settled, Landed
<1>9. cvar'[c] = last
  BY <1>3, <1>6
<1> QED
  BY <1>3, <1>4, <1>6, <1>7, <1>8, <1>9, Untouched DEF BoundStep

LEMMA FindCvarStep ==
  ASSUME IInv, NEW c \in Cvars, FindCvar(c)
  PROVE  IInv' /\ BoundStep
<1> DEFINE info == [cvar[c] EXCEPT !.cached = @ \/ TRUE]
<1>1. /\ Legit(c, info, frames)
      /\ info.value = cvar[c].value /\ info.min = cvar[c].min /\ info.max = cvar[c].max
  BY FoundIsLegit
<1>2. cvar \in [Cvars -> Info]
  BY DEF IInv, TypeOK
<1>3. cvar' = [cvar EXCEPT ![c] = info]
  <2>1. info = [cvar[c] EXCEPT !.cached = TRUE]
    OBVIOUS
  <2> QED
    BY <2>1 DEF FindCvar
<1> HIDE DEF info
<1>4. Keep(c, info, frames) /\ DetourStays /\ ~endless'
  BY <1>3 DEF FindCvar, Keep, DetourStays, Idle, IInv, TypeOK
<1>5. Settled(cvar[c], info)
  BY <1>1 DEF Settled
<1> QED
  BY <1>1, <1>2, <1>3, <1>4, <1>5, KeepStep, Untouched DEF BoundStep

LEMMA SetMinStep ==
  ASSUME IInv, NEW c \in Managed, NEW b \in Bounds \cup {None}, SetMin(c, b)
  PROVE  IInv' /\ BoundStep
<1> DEFINE info == [cvar[c] EXCEPT !.cached = @ \/ TRUE]
<1>1. Legit(c, info, frames) /\ Near(c, info) /\ info.cached
  BY FoundIsLegit
<1>2. SetCvarMin(c, info, b, frames) /\ DetourStays /\ ~endless
  BY DEF SetMin, DetourStays, Idle, IInv, TypeOK
<1> QED
  BY <1>1, <1>2, SetCvarMinStep

LEMMA SetMaxStep ==
  ASSUME IInv, NEW c \in Managed, NEW b \in Bounds \cup {None}, SetMax(c, b)
  PROVE  IInv' /\ BoundStep
<1> DEFINE info == [cvar[c] EXCEPT !.cached = @ \/ TRUE]
<1>1. Legit(c, info, frames) /\ Near(c, info) /\ info.cached
  BY FoundIsLegit
<1>2. SetCvarMax(c, info, b, frames) /\ DetourStays /\ ~endless
  BY DEF SetMax, DetourStays, Idle, IInv, TypeOK
<1> QED
  BY <1>1, <1>2, SetCvarMaxStep

LEMMA CreatedIsLegit ==
  ASSUME IInv, NEW c \in Managed
  PROVE  /\ Legit(c, Created(c), frames) /\ Near(c, Created(c)) /\ Created(c).cached
         /\ Settled(cvar[c], Created(c))
<1> DEFINE info == cvar[c]
           new == Created(c)
<1>1. info \in Info /\ frames \in Seq(Frame) /\ info.cached \in BOOLEAN /\ info.owned \in BOOLEAN
  BY DEF IInv, TypeOK, Info
<1>2. CASE ~info.cached
  <2>1. new = [NoCvar EXCEPT !.exists = TRUE, !.cached = TRUE, !.owned = TRUE,
                             !.amxmodx = ~info.exists, !.value = Default]
    BY <1>2 DEF Created
  <2>2. /\ new \in Info /\ new.cached /\ Unbounded(new)
    BY <2>1, <1>1 DEF NoCvar, Info, Unbounded
  <2> HIDE DEF new
  <2>3. Legit(c, new, frames)
    BY <1>1, <1>2, <2>2 DEF Legit, IInv, CreatingIsManaged
  <2>4. Near(c, new)
    BY <2>2 DEF Near, Unbounded
  <2>5. Settled(info, new)
    BY <2>2 DEF Settled, Unbounded, Fits, TooLow, TooHigh
  <2> QED
    BY <2>2, <2>3, <2>4, <2>5 DEF new
<1>3. CASE info.cached /\ ~info.owned
  <2>1. new = [info EXCEPT !.owned = TRUE, !.min = None, !.max = None]
    BY <1>3 DEF Created
  <2>2. /\ new \in Info /\ new.cached /\ Unbounded(new) /\ new.value = info.value
    BY <2>1, <1>1, <1>3 DEF Info, Unbounded
  <2> HIDE DEF new
  <2>3. Legit(c, new, frames)
    BY <1>1, <1>3, <2>2 DEF Legit, IInv, CreatingIsManaged
  <2>4. Near(c, new)
    BY <2>2 DEF Near, Unbounded
  <2>5. Settled(info, new)
    BY <2>2 DEF Settled, Unbounded, Fits, TooLow, TooHigh
  <2> QED
    BY <2>2, <2>3, <2>4, <2>5 DEF new
<1>4. CASE info.cached /\ info.owned
  <2>1. new = info
    BY <1>4 DEF Created
  <2> HIDE DEF new
  <2>2. Legit(c, info, frames)
    BY <1>1, <1>4 DEF Legit, IInv, BoundsAreManaged, CreatingIsManaged
  <2>3. Near(c, info) /\ Settled(info, info)
    BY DEF Near, Settled
  <2> QED
    BY <2>1, <2>2, <2>3, <1>4 DEF new
<1> QED
  BY <1>1, <1>2, <1>3, <1>4

LEMMA RegisterCvarStep ==
  ASSUME IInv, NEW c \in Managed, RegisterCvar(c)
  PROVE  IInv' /\ BoundStep
<1> DEFINE info == Created(c)
<1>1. /\ Legit(c, info, frames) /\ Near(c, info) /\ info.cached /\ Settled(cvar[c], info)
  BY CreatedIsLegit
<1>2. cvar \in [Cvars -> Info] /\ c \in Cvars
  BY DEF IInv, TypeOK
<1>3. /\ Keep(c, info, frames) /\ ~endless /\ UNCHANGED <<hooks, binds>>
      /\ detour' = (detour \/ info.min # None \/ info.max # None)
  BY DEF RegisterCvar, Idle
<1> HIDE DEF info
<1>4. DetourStays
  BY <1>3 DEF DetourStays, IInv, TypeOK
<1>5. cvar' = [cvar EXCEPT ![c] = info] /\ ~endless'
  BY <1>3 DEF Keep
<1> QED
  BY <1>1, <1>2, <1>3, <1>4, <1>5, KeepStep, Untouched DEF BoundStep

LEMMA CreateCvarStep ==
  ASSUME IInv, NEW c \in Managed, NEW min \in Bounds \cup {None}, NEW max \in Bounds \cup {None},
         CreateCvar(c, min, max)
  PROVE  IInv' /\ BoundStep
<1> DEFINE info == Created(c)
           f == [op |-> "create", c |-> c, at |-> 0, max |-> max]
           fs == Append(frames, f)
<1>1. /\ Legit(c, info, frames) /\ Near(c, info) /\ info.cached
  BY CreatedIsLegit
<1>2. c \in Cvars /\ frames \in Seq(Frame)
  BY DEF IInv, TypeOK
<1>3. /\ SetCvarMin(c, info, min, fs) /\ ~endless /\ UNCHANGED <<hooks, binds>>
      /\ detour' = (detour \/ info.min # None \/ info.max # None \/ min # None)
  BY DEF CreateCvar, Idle
<1>4. f \in Frame /\ f.op = "create" /\ f.c = c
  BY <1>2 DEF Frame
<1> HIDE DEF info, f
<1>5. DetourStays
  BY <1>3 DEF DetourStays, IInv, TypeOK
<1>6. /\ fs \in Seq(Frame) /\ Len(fs) = Len(frames) + 1 /\ Len(frames) \in Nat
      /\ \A k \in 1 .. Len(frames) : fs[k] = frames[k]
      /\ fs[Len(frames) + 1] = f
  BY <1>2, <1>4
<1>7. \A d, i : Owed(frames, d, i) => Owed(fs, d, i)
  BY <1>2, <1>4, OwedAppend
<1> HIDE DEF fs
<1>8. \A k \in 1 .. Len(fs) : fs[k].op = "create" =>
        fs[k].c \in Managed /\ (cvar[fs[k].c].cached \/ (fs[k].c = c /\ info.cached))
  <2> SUFFICES ASSUME NEW k \in 1 .. Len(fs), fs[k].op = "create"
               PROVE  fs[k].c \in Managed /\ (cvar[fs[k].c].cached \/ (fs[k].c = c /\ info.cached))
    OBVIOUS
  <2>1. CASE k \in 1 .. Len(frames)
    <3>1. fs[k] = frames[k]
      BY <2>1, <1>6
    <3>2. frames[k].op = "create" => frames[k].c \in Managed /\ cvar[frames[k].c].cached
      BY <2>1 DEF IInv, CreatingIsManaged
    <3> QED
      BY <3>1, <3>2
  <2>2. CASE k = Len(frames) + 1
    BY <2>2, <1>1, <1>4, <1>6
  <2> QED
    BY <2>1, <2>2, <1>6
<1>9. Legit(c, info, fs)
  BY <1>1, <1>6, <1>7, <1>8 DEF Legit
<1> QED
  BY <1>1, <1>3, <1>5, <1>9, SetCvarMinStep

LEMMA FinishCreatingStep ==
  ASSUME IInv, FinishCreating
  PROVE  IInv' /\ BoundStep
<1> DEFINE c == Top.c
           b == Top.max
<1>1. /\ frames \in Seq(Frame) /\ frames # <<>> /\ Top.op = "create" /\ ~endless
      /\ SetCvarMax(c, cvar[c], b, Below)
  BY DEF FinishCreating, IInv, TypeOK
<1>2. /\ Len(frames) \in Nat \ {0} /\ Top \in Frame
      /\ Below \in Seq(Frame) /\ Len(Below) = Len(frames) - 1
      /\ \A k \in 1 .. Len(Below) : Below[k] = frames[k]
  BY <1>1, PopFrame
<1>3. c \in Managed /\ cvar[c].cached /\ b \in Bounds \cup {None} /\ c \in Cvars
  BY <1>1, <1>2 DEF Top, Frame, IInv, CreatingIsManaged
<1>4. DetourStays
  BY DEF FinishCreating, DetourStays, IInv, TypeOK
<1>5. \A d, i : Owed(frames, d, i) => Owed(Below, d, i)
  <2> SUFFICES ASSUME NEW d, NEW i, Owed(frames, d, i) PROVE Owed(Below, d, i)
    OBVIOUS
  <2>1. PICK k \in 1 .. Len(frames) : frames[k].op = "walk" /\ frames[k].c = d /\ frames[k].at < i
    BY DEF Owed
  <2>2. k # Len(frames)
    BY <2>1, <1>1 DEF Top
  <2>3. k \in 1 .. Len(Below) /\ Below[k] = frames[k]
    BY <2>2, <1>2
  <2> QED
    BY <2>1, <2>3 DEF Owed
<1>6. Legit(c, cvar[c], Below) /\ Near(c, cvar[c])
  <2>1. cvar[c] \in Info
    BY <1>3 DEF IInv, TypeOK
  <2>2. \A k \in 1 .. Len(Below) : Below[k].op = "create" =>
          Below[k].c \in Managed /\ cvar[Below[k].c].cached
    BY <1>2 DEF IInv, CreatingIsManaged
  <2> QED
    BY <2>1, <2>2, <1>2, <1>3, <1>5 DEF Legit, Near
<1> HIDE DEF c, b
<1> QED
  BY <1>1, <1>3, <1>4, <1>6, SetCvarMaxStep

LEMMA Unchanging ==
  ASSUME UNCHANGED <<cvar, endless>>, ~endless
  PROVE  BoundStep
BY DEF BoundStep, Settled

LEMMA ReturnStep ==
  ASSUME IInv, Return
  PROVE  IInv' /\ BoundStep
<1> DEFINE c == Top.c
           from == Top.at + 1
           value == cvar[Top.c].value
<1>1. /\ frames \in Seq(Frame) /\ frames # <<>> /\ Top.op = "walk" /\ ~endless
      /\ Walk(c, from, value, Below)
      /\ UNCHANGED <<detour, cvar, hooks, binds, var, endless>>
  BY DEF Return, IInv, TypeOK
<1>2. /\ Len(frames) \in Nat \ {0} /\ Top \in Frame
      /\ Below \in Seq(Frame) /\ Len(Below) = Len(frames) - 1
      /\ \A k \in 1 .. Len(Below) : Below[k] = frames[k]
  BY <1>1, PopFrame
<1>3. /\ c \in Cvars /\ Top.at \in Nat /\ from \in Nat /\ from # 0
  BY <1>2 DEF Frame
<1>4. TypeOK /\ value \in Values \cup {None}
  BY <1>3 DEF IInv, TypeOK, Info
<1> HIDE DEF c, from, value
<1>W. /\ frames' \in Seq(Frame)
      /\ heard' \in [Cvars -> Seq(Values \cup {None})]
      /\ \A d \in Cvars : Len(heard'[d]) = Len(heard[d])
      /\ \A d \in Cvars : d # c => heard'[d] = heard[d]
      /\ \A i \in 1 .. Len(hooks[c]) : heard'[c][i] \in {heard[c][i], value}
      /\ \A d, i : Owed(Below, d, i) => Owed(frames', d, i)
      /\ \A i \in from .. Len(hooks[c]) :
           hooks[c][i] => heard'[c][i] = value \/ Owed(frames', c, i)
      /\ \A k \in 1 .. Len(frames') : frames'[k].op = "create" =>
           k \in 1 .. Len(Below) /\ frames'[k] = Below[k]
  BY <1>1, <1>2, <1>3, <1>4, WalkStep
<1>5. TypeOK'
  BY <1>1, <1>4, <1>W DEF TypeOK
<1>6. DetourServes' /\ BoundsAreManaged' /\ Mirrors'
  BY <1>1 DEF IInv, DetourServes, BoundsAreManaged, Mirrors
<1>7. CreatingIsManaged'
  <2> SUFFICES ASSUME NEW k \in 1 .. Len(frames'), frames'[k].op = "create"
               PROVE  frames'[k].c \in Managed /\ cvar[frames'[k].c].cached
    BY <1>1 DEF CreatingIsManaged
  <2>1. k \in 1 .. Len(frames) /\ frames'[k] = frames[k]
    BY <1>W, <1>2
  <2> QED
    BY <2>1 DEF IInv, CreatingIsManaged
<1>8. Hears'
  <2> SUFFICES ASSUME NEW d \in Cvars, NEW i \in 1 .. Len(hooks[d]), hooks[d][i]
               PROVE  heard'[d][i] = cvar[d].value \/ Owed(frames', d, i)
    BY <1>1 DEF Hears, Owed
  <2>1. heard[d][i] = cvar[d].value \/ Owed(frames, d, i)
    BY DEF IInv, Hears
  <2>2. Owed(frames, d, i) => Owed(Below, d, i) \/ (d = c /\ Top.at < i)
    <3> SUFFICES ASSUME Owed(frames, d, i), ~(d = c /\ Top.at < i)
                 PROVE  Owed(Below, d, i)
      OBVIOUS
    <3>1. PICK k \in 1 .. Len(frames) : frames[k].op = "walk" /\ frames[k].c = d /\ frames[k].at < i
      BY DEF Owed
    <3>2. k # Len(frames)
      BY <3>1 DEF Top, c
    <3>3. k \in 1 .. Len(Below) /\ Below[k] = frames[k]
      BY <3>2, <1>2
    <3> QED
      BY <3>1, <3>3 DEF Owed
  <2>3. d = c => value = cvar[d].value
    BY DEF c, value
  <2>4. d = c /\ Top.at < i => i \in from .. Len(hooks[c])
    <3>1. Len(hooks[d]) \in Nat
      BY DEF IInv, TypeOK
    <3>2. \A a, j \in Int : a < j => a + 1 <= j
      OBVIOUS
    <3> QED
      BY <3>1, <3>2, <1>3 DEF from
  <2>5. d = c => heard'[d][i] \in {heard[d][i], value}
    BY <1>W
  <2>6. d # c => heard'[d] = heard[d]
    BY <1>W
  <2>7. d = c /\ i \in from .. Len(hooks[c]) => heard'[c][i] = value \/ Owed(frames', c, i)
    BY <1>W
  <2>8. Owed(Below, d, i) => Owed(frames', d, i)
    BY <1>W
  <2> QED
    BY <2>1, <2>2, <2>3, <2>4, <2>5, <2>6, <2>7, <2>8
<1> QED
  BY <1>1, <1>5, <1>6, <1>7, <1>8, Unchanging DEF IInv

\* A cvar is looked up and nothing else of it changes.
LEMMA Cached ==
  ASSUME IInv, NEW c \in Cvars, cvar' = [cvar EXCEPT ![c].cached = TRUE]
  PROVE  /\ cvar' \in [Cvars -> Info]
         /\ \A d \in Cvars : /\ cvar'[d].value = cvar[d].value
                             /\ cvar'[d].min = cvar[d].min /\ cvar'[d].max = cvar[d].max
                             /\ cvar[d].cached => cvar'[d].cached
         /\ cvar'[c].cached
         /\ BoundsAreManaged'
         /\ \A d \in Cvars : Settled(cvar[d], cvar'[d])
<1> DEFINE new == [cvar[c] EXCEPT !.cached = TRUE]
<1>1. cvar \in [Cvars -> Info]
  BY DEF IInv, TypeOK
<1>2. /\ new \in Info /\ new.cached /\ new.value = cvar[c].value
      /\ new.min = cvar[c].min /\ new.max = cvar[c].max
  BY <1>1 DEF Info
<1>3. cvar' = [cvar EXCEPT ![c] = new]
  OBVIOUS
<1> HIDE DEF new
<1>4. cvar'[c] = new /\ \A d \in Cvars : d # c => cvar'[d] = cvar[d]
  BY <1>1, <1>3
<1>5. cvar' \in [Cvars -> Info]
  BY <1>1, <1>2, <1>3
<1>6. \A d \in Cvars : /\ cvar'[d].value = cvar[d].value
                       /\ cvar'[d].min = cvar[d].min /\ cvar'[d].max = cvar[d].max
                       /\ cvar[d].cached => cvar'[d].cached
  BY <1>2, <1>4
<1>7. BoundsAreManaged'
  BY <1>6 DEF IInv, BoundsAreManaged, Unbounded
<1>8. \A d \in Cvars : Settled(cvar[d], cvar'[d])
  BY <1>6 DEF Settled
<1> QED
  BY <1>2, <1>4, <1>5, <1>6, <1>7, <1>8

LEMMA HookCvarChangeStep ==
  ASSUME IInv, NEW c \in Cvars, HookCvarChange(c)
  PROVE  IInv' /\ BoundStep
<1>1. /\ detour' = TRUE /\ cvar' = [cvar EXCEPT ![c].cached = TRUE] /\ ~endless
      /\ hooks' = [hooks EXCEPT ![c] = Append(@, TRUE)]
      /\ heard' = [heard EXCEPT ![c] = Append(@, cvar[c].value)]
      /\ UNCHANGED <<binds, var, frames, endless>>
  BY DEF HookCvarChange, Idle
<1>2. /\ cvar' \in [Cvars -> Info] /\ cvar'[c].cached /\ BoundsAreManaged'
      /\ \A d \in Cvars : cvar'[d].value = cvar[d].value /\ (cvar[d].cached => cvar'[d].cached)
      /\ \A d \in Cvars : Settled(cvar[d], cvar'[d])
  BY <1>1, Cached
<1>3. /\ hooks[c] \in Seq(BOOLEAN) /\ heard[c] \in Seq(Values \cup {None})
      /\ Len(heard[c]) = Len(hooks[c]) /\ cvar[c].value \in Values \cup {None}
      /\ hooks \in [Cvars -> Seq(BOOLEAN)] /\ heard \in [Cvars -> Seq(Values \cup {None})]
  BY DEF IInv, TypeOK, Info
<1> DEFINE h == Append(hooks[c], TRUE)
           t == Append(heard[c], cvar[c].value)
<1>4. /\ h \in Seq(BOOLEAN) /\ t \in Seq(Values \cup {None}) /\ Len(t) = Len(h)
      /\ Len(h) = Len(hooks[c]) + 1 /\ Len(hooks[c]) \in Nat
      /\ \A i \in 1 .. Len(hooks[c]) : h[i] = hooks[c][i] /\ t[i] = heard[c][i]
      /\ t[Len(h)] = cvar[c].value
  BY <1>3
<1>5. hooks' = [hooks EXCEPT ![c] = h] /\ heard' = [heard EXCEPT ![c] = t]
  BY <1>1
<1> HIDE DEF h, t
<1>6. /\ hooks'[c] = h /\ heard'[c] = t
      /\ \A d \in Cvars : d # c => hooks'[d] = hooks[d] /\ heard'[d] = heard[d]
  BY <1>3, <1>5
<1>7. TypeOK'
  <2>1. hooks' \in [Cvars -> Seq(BOOLEAN)] /\ heard' \in [Cvars -> Seq(Values \cup {None})]
    BY <1>3, <1>4, <1>5
  <2>2. \A d \in Cvars : Len(heard'[d]) = Len(hooks'[d])
    BY <1>4, <1>6 DEF IInv, TypeOK
  <2> QED
    BY <2>1, <2>2, <1>1, <1>2 DEF IInv, TypeOK
<1>8. DetourServes'
  <2>1. \A d \in Cvars : d # c => (hooks[d] # <<>> \/ binds[d] # {} => cvar[d].cached)
    BY DEF IInv, DetourServes
  <2> QED
    BY <2>1, <1>1, <1>2, <1>6 DEF DetourServes
<1>9. CreatingIsManaged'
  <2>1. \A k \in 1 .. Len(frames) : frames[k].op = "create" =>
          frames[k].c \in Managed /\ cvar[frames[k].c].cached
    BY DEF IInv, CreatingIsManaged
  <2> QED
    BY <2>1, <1>1, <1>2 DEF CreatingIsManaged
<1>10. Hears'
  <2> SUFFICES ASSUME NEW d \in Cvars, NEW i \in 1 .. Len(hooks'[d]), hooks'[d][i]
               PROVE  heard'[d][i] = cvar[d].value \/ Owed(frames, d, i)
    BY <1>1, <1>2 DEF Hears, Owed
  <2>1. \A j \in 1 .. Len(hooks[d]) : hooks[d][j] => heard[d][j] = cvar[d].value \/ Owed(frames, d, j)
    BY DEF IInv, Hears
  <2>2. CASE d # c
    BY <2>1, <2>2, <1>6
  <2>3. CASE d = c /\ i = Len(h)
    BY <2>3, <1>4, <1>6
  <2>4. CASE d = c /\ i # Len(h)
    <3>1. i \in 1 .. Len(hooks[c])
      BY <2>4, <1>4, <1>6
    <3> QED
      BY <3>1, <2>1, <2>4, <1>4, <1>6
  <2> QED
    BY <2>2, <2>3, <2>4
<1>11. Mirrors'
  BY <1>1, <1>2 DEF IInv, Mirrors
<1> QED
  BY <1>1, <1>2, <1>7, <1>8, <1>9, <1>10, <1>11 DEF IInv, BoundStep

LEMMA EnableCvarHookStep ==
  ASSUME IInv, NEW c \in Cvars, NEW i \in 1 .. Len(hooks[c]), EnableCvarHook(c, i)
  PROVE  IInv' /\ BoundStep
<1> DEFINE h == [hooks[c] EXCEPT ![i] = TRUE]
           t == [heard[c] EXCEPT ![i] = cvar[c].value]
<1>1. /\ ~endless /\ UNCHANGED <<detour, cvar, binds, var, frames, endless>>
      /\ hooks' = [hooks EXCEPT ![c] = h] /\ heard' = [heard EXCEPT ![c] = t]
  BY DEF EnableCvarHook, Idle
<1>2. /\ hooks[c] \in Seq(BOOLEAN) /\ heard[c] \in Seq(Values \cup {None})
      /\ Len(heard[c]) = Len(hooks[c]) /\ cvar[c].value \in Values \cup {None}
      /\ hooks \in [Cvars -> Seq(BOOLEAN)] /\ heard \in [Cvars -> Seq(Values \cup {None})]
  BY DEF IInv, TypeOK, Info
<1>3. /\ h \in Seq(BOOLEAN) /\ t \in Seq(Values \cup {None})
      /\ Len(h) = Len(hooks[c]) /\ Len(t) = Len(h)
      /\ h[i] = TRUE /\ t[i] = cvar[c].value
      /\ \A j \in 1 .. Len(hooks[c]) : j # i => h[j] = hooks[c][j] /\ t[j] = heard[c][j]
      /\ hooks[c] # <<>>
  BY <1>2
<1> HIDE DEF h, t
<1>4. /\ hooks'[c] = h /\ heard'[c] = t
      /\ \A d \in Cvars : d # c => hooks'[d] = hooks[d] /\ heard'[d] = heard[d]
  BY <1>1, <1>2
<1>5. TypeOK'
  <2>1. hooks' \in [Cvars -> Seq(BOOLEAN)] /\ heard' \in [Cvars -> Seq(Values \cup {None})]
    BY <1>1, <1>2, <1>3
  <2>2. \A d \in Cvars : Len(heard'[d]) = Len(hooks'[d])
    BY <1>3, <1>4 DEF IInv, TypeOK
  <2> QED
    BY <2>1, <2>2, <1>1 DEF IInv, TypeOK
<1>6. DetourServes'
  <2>1. \A d \in Cvars : hooks[d] # <<>> \/ binds[d] # {} => detour /\ cvar[d].cached
    BY DEF IInv, DetourServes
  <2> QED
    BY <2>1, <1>1, <1>3, <1>4 DEF DetourServes
<1>7. BoundsAreManaged' /\ CreatingIsManaged' /\ Mirrors'
  BY <1>1 DEF IInv, BoundsAreManaged, CreatingIsManaged, Mirrors
<1>8. Hears'
  <2> SUFFICES ASSUME NEW d \in Cvars, NEW j \in 1 .. Len(hooks'[d]), hooks'[d][j]
               PROVE  heard'[d][j] = cvar[d].value \/ Owed(frames, d, j)
    BY <1>1 DEF Hears, Owed
  <2>1. \A k \in 1 .. Len(hooks[d]) : hooks[d][k] => heard[d][k] = cvar[d].value \/ Owed(frames, d, k)
    BY DEF IInv, Hears
  <2>2. CASE d # c
    BY <2>1, <2>2, <1>4
  <2>3. CASE d = c /\ j = i
    BY <2>3, <1>3, <1>4
  <2>4. CASE d = c /\ j # i
    BY <2>1, <2>4, <1>3, <1>4
  <2> QED
    BY <2>2, <2>3, <2>4
<1> QED
  BY <1>1, <1>5, <1>6, <1>7, <1>8, Unchanging DEF IInv

LEMMA DisableCvarHookStep ==
  ASSUME IInv, NEW c \in Cvars, NEW i \in 1 .. Len(hooks[c]), DisableCvarHook(c, i)
  PROVE  IInv' /\ BoundStep
<1> DEFINE h == [hooks[c] EXCEPT ![i] = FALSE]
           t == [heard[c] EXCEPT ![i] = None]
<1>1. /\ ~endless /\ UNCHANGED <<detour, cvar, binds, var, frames, endless>>
      /\ hooks' = [hooks EXCEPT ![c] = h] /\ heard' = [heard EXCEPT ![c] = t]
  BY DEF DisableCvarHook, Idle
<1>2. /\ hooks[c] \in Seq(BOOLEAN) /\ heard[c] \in Seq(Values \cup {None})
      /\ Len(heard[c]) = Len(hooks[c]) /\ cvar[c].value \in Values \cup {None}
      /\ hooks \in [Cvars -> Seq(BOOLEAN)] /\ heard \in [Cvars -> Seq(Values \cup {None})]
  BY DEF IInv, TypeOK, Info
<1>3. /\ h \in Seq(BOOLEAN) /\ t \in Seq(Values \cup {None})
      /\ Len(h) = Len(hooks[c]) /\ Len(t) = Len(h)
      /\ h[i] = FALSE /\ t[i] = None
      /\ \A j \in 1 .. Len(hooks[c]) : j # i => h[j] = hooks[c][j] /\ t[j] = heard[c][j]
      /\ hooks[c] # <<>>
  BY <1>2
<1> HIDE DEF h, t
<1>4. /\ hooks'[c] = h /\ heard'[c] = t
      /\ \A d \in Cvars : d # c => hooks'[d] = hooks[d] /\ heard'[d] = heard[d]
  BY <1>1, <1>2
<1>5. TypeOK'
  <2>1. hooks' \in [Cvars -> Seq(BOOLEAN)] /\ heard' \in [Cvars -> Seq(Values \cup {None})]
    BY <1>1, <1>2, <1>3
  <2>2. \A d \in Cvars : Len(heard'[d]) = Len(hooks'[d])
    BY <1>3, <1>4 DEF IInv, TypeOK
  <2> QED
    BY <2>1, <2>2, <1>1 DEF IInv, TypeOK
<1>6. DetourServes'
  <2>1. \A d \in Cvars : hooks[d] # <<>> \/ binds[d] # {} => detour /\ cvar[d].cached
    BY DEF IInv, DetourServes
  <2> QED
    BY <2>1, <1>1, <1>3, <1>4 DEF DetourServes
<1>7. BoundsAreManaged' /\ CreatingIsManaged' /\ Mirrors'
  BY <1>1 DEF IInv, BoundsAreManaged, CreatingIsManaged, Mirrors
<1>8. Hears'
  <2> SUFFICES ASSUME NEW d \in Cvars, NEW j \in 1 .. Len(hooks'[d]), hooks'[d][j]
               PROVE  heard'[d][j] = cvar[d].value \/ Owed(frames, d, j)
    BY <1>1 DEF Hears, Owed
  <2>1. \A k \in 1 .. Len(hooks[d]) : hooks[d][k] => heard[d][k] = cvar[d].value \/ Owed(frames, d, k)
    BY DEF IInv, Hears
  <2>2. CASE d # c
    BY <2>1, <2>2, <1>4
  <2>3. CASE d = c /\ j = i
    BY <2>3, <1>3, <1>4
  <2>4. CASE d = c /\ j # i
    BY <2>1, <2>4, <1>3, <1>4
  <2> QED
    BY <2>2, <2>3, <2>4
<1> QED
  BY <1>1, <1>5, <1>6, <1>7, <1>8, Unchanging DEF IInv

LEMMA BindCvarStep ==
  ASSUME IInv, NEW c \in Cvars, NEW x \in Variables, BindCvar(c, x)
  PROVE  IInv' /\ BoundStep
<1>1. /\ detour' = TRUE /\ cvar' = [cvar EXCEPT ![c].cached = TRUE] /\ ~endless
      /\ binds' = [binds EXCEPT ![c] = @ \cup {x}]
      /\ var' = [var EXCEPT ![x] = cvar[c].value]
      /\ UNCHANGED <<hooks, frames, heard, endless>>
  BY DEF BindCvar, Idle
<1>2. /\ cvar' \in [Cvars -> Info] /\ cvar'[c].cached /\ BoundsAreManaged'
      /\ \A d \in Cvars : cvar'[d].value = cvar[d].value /\ (cvar[d].cached => cvar'[d].cached)
      /\ \A d \in Cvars : Settled(cvar[d], cvar'[d])
  BY <1>1, Cached
<1>3. /\ binds \in [Cvars -> SUBSET Variables] /\ var \in [Variables -> Values \cup {None}]
      /\ cvar[c].value \in Values \cup {None}
  BY DEF IInv, TypeOK, Info
<1>4. /\ binds' \in [Cvars -> SUBSET Variables] /\ var' \in [Variables -> Values \cup {None}]
      /\ binds'[c] = binds[c] \cup {x} /\ \A d \in Cvars : d # c => binds'[d] = binds[d]
      /\ var'[x] = cvar[c].value /\ \A y \in Variables : y # x => var'[y] = var[y]
  BY <1>1, <1>3
<1>5. TypeOK'
  BY <1>1, <1>2, <1>4 DEF IInv, TypeOK
<1>6. DetourServes'
  <2>1. \A d \in Cvars : hooks[d] # <<>> \/ binds[d] # {} => cvar[d].cached
    BY DEF IInv, DetourServes
  <2> QED
    BY <2>1, <1>1, <1>2, <1>4 DEF DetourServes
<1>7. CreatingIsManaged'
  <2>1. \A k \in 1 .. Len(frames) : frames[k].op = "create" =>
          frames[k].c \in Managed /\ cvar[frames[k].c].cached
    BY DEF IInv, CreatingIsManaged
  <2> QED
    BY <2>1, <1>1, <1>2 DEF CreatingIsManaged
<1>8. Hears'
  BY <1>1, <1>2 DEF IInv, Hears, Owed
<1>9. Mirrors'
  <2> SUFFICES ASSUME NEW y \in Variables, NEW b \in Cvars, y \in binds'[b]
               PROVE  \E d \in Cvars : y \in binds'[d] /\ var'[y] = cvar[d].value
    BY <1>2 DEF Mirrors
  <2>1. CASE y = x
    BY <2>1, <1>4
  <2>2. CASE y # x
    <3>1. y \in binds[b]
      BY <2>2, <1>4
    <3>2. PICK d \in Cvars : y \in binds[d] /\ var[y] = cvar[d].value
      BY <3>1 DEF IInv, Mirrors
    <3> QED
      BY <3>2, <2>2, <1>4
  <2> QED
    BY <2>1, <2>2
<1> QED
  BY <1>1, <1>2, <1>5, <1>6, <1>7, <1>8, <1>9 DEF IInv, BoundStep

LEMMA OnPluginUnloadedStep ==
  ASSUME IInv, OnPluginUnloaded
  PROVE  IInv' /\ BoundStep
<1>1. /\ detour' = FALSE /\ frames = <<>> /\ ~endless /\ UNCHANGED <<frames, endless>>
      /\ cvar' = [c \in Cvars |-> [cvar[c] EXCEPT !.owned = @ /\ ~cvar[c].amxmodx]]
      /\ hooks' = [c \in Cvars |-> <<>>] /\ heard' = [c \in Cvars |-> <<>>]
      /\ binds' = [c \in Cvars |-> {}]
      /\ var' = [x \in Variables |-> None]
  BY DEF OnPluginUnloaded
<1>2. \A r \in Info : LET q == [r EXCEPT !.owned = @ /\ ~r.amxmodx]
                      IN  /\ q \in Info /\ q.value = r.value /\ q.cached = r.cached
                          /\ q.min = r.min /\ q.max = r.max
  BY DEF Info
<1>3. cvar \in [Cvars -> Info] /\ frames \in Seq(Frame)
  BY DEF IInv, TypeOK
<1>4. /\ cvar' \in [Cvars -> Info]
      /\ \A d \in Cvars : /\ cvar'[d].value = cvar[d].value /\ cvar'[d].cached = cvar[d].cached
                          /\ cvar'[d].min = cvar[d].min /\ cvar'[d].max = cvar[d].max
  BY <1>1, <1>2, <1>3
<1>5. TypeOK'
  <2>1. <<>> \in Seq(BOOLEAN) /\ <<>> \in Seq(Values \cup {None}) /\ Len(<<>>) = 0
    OBVIOUS
  <2> QED
    BY <2>1, <1>1, <1>3, <1>4 DEF IInv, TypeOK
<1>6. DetourServes' /\ Mirrors'
  BY <1>1 DEF DetourServes, Mirrors
<1>7. BoundsAreManaged'
  BY <1>4 DEF IInv, BoundsAreManaged, Unbounded
<1>8. CreatingIsManaged' /\ Hears'
  <2>1. Len(frames') = 0 /\ \A c \in Cvars : Len(hooks'[c]) = 0
    BY <1>1
  <2> QED
    BY <2>1 DEF CreatingIsManaged, Hears
<1>9. BoundStep
  BY <1>1 DEF BoundStep, Settled
<1> QED
  BY <1>5, <1>6, <1>7, <1>8, <1>9 DEF IInv

-----------------------------------------------------------------------------
(* The theorems *)

LEMMA InitIInv == Init => IInv
<1> SUFFICES ASSUME Init PROVE IInv
  OBVIOUS
<1>1. PICK game \in SUBSET Cvars, v \in Values :
        cvar = [c \in Cvars |-> IF c \in game THEN [NoCvar EXCEPT !.exists = TRUE, !.value = v]
                                              ELSE NoCvar]
  BY DEF Init
<1>2. /\ NoCvar \in Info /\ NoCvar.min = None /\ NoCvar.max = None
      /\ [NoCvar EXCEPT !.exists = TRUE, !.value = v] \in Info
      /\ [NoCvar EXCEPT !.exists = TRUE, !.value = v].min = None
      /\ [NoCvar EXCEPT !.exists = TRUE, !.value = v].max = None
  BY DEF NoCvar, Info
<1>3. cvar \in [Cvars -> Info] /\ \A c \in Cvars : Unbounded(cvar[c])
  BY <1>1, <1>2 DEF Unbounded
<1>4. <<>> \in Seq(BOOLEAN) /\ <<>> \in Seq(Values \cup {None}) /\ <<>> \in Seq(Frame) /\ Len(<<>>) = 0
  OBVIOUS
<1>5. TypeOK
  BY <1>3, <1>4 DEF Init, TypeOK
<1>6. DetourServes /\ Mirrors /\ BoundsAreManaged
  BY <1>3 DEF Init, DetourServes, Mirrors, BoundsAreManaged
<1>7. CreatingIsManaged /\ Hears
  <2>1. Len(frames) = 0 /\ \A c \in Cvars : Len(hooks[c]) = 0
    BY DEF Init
  <2> QED
    BY <2>1 DEF CreatingIsManaged, Hears
<1> QED
  BY <1>5, <1>6, <1>7 DEF IInv

LEMMA NextStep == IInv /\ Next => IInv' /\ BoundStep
<1> SUFFICES ASSUME IInv, Next PROVE IInv' /\ BoundStep
  OBVIOUS
<1>1. CASE Return \/ FinishCreating \/ OnPluginUnloaded
  BY <1>1, ReturnStep, FinishCreatingStep, OnPluginUnloadedStep
<1>2. ASSUME NEW c \in Cvars, FindCvar(c) \/ HookCvarChange(c) PROVE IInv' /\ BoundStep
  BY <1>2, FindCvarStep, HookCvarChangeStep
<1>3. ASSUME NEW c \in Cvars, NEW v \in Values, NEW byName \in BOOLEAN, SetCvar(c, v, byName)
      PROVE  IInv' /\ BoundStep
  BY <1>3, SetCvarStep
<1>4. ASSUME NEW c \in Cvars, NEW i \in DOMAIN hooks[c],
             EnableCvarHook(c, i) \/ DisableCvarHook(c, i)
      PROVE  IInv' /\ BoundStep
  <2>1. i \in 1 .. Len(hooks[c])
    BY DEF IInv, TypeOK
  <2> QED
    BY <2>1, <1>4, EnableCvarHookStep, DisableCvarHookStep
<1>5. ASSUME NEW c \in Cvars, NEW x \in Variables, BindCvar(c, x) PROVE IInv' /\ BoundStep
  BY <1>5, BindCvarStep
<1>6. ASSUME NEW c \in Managed, RegisterCvar(c) PROVE IInv' /\ BoundStep
  BY <1>6, RegisterCvarStep
<1>7. ASSUME NEW c \in Managed, NEW b \in Bounds \cup {None}, SetMin(c, b) \/ SetMax(c, b)
      PROVE  IInv' /\ BoundStep
  BY <1>7, SetMinStep, SetMaxStep
<1>8. ASSUME NEW c \in Managed, NEW min \in Bounds \cup {None}, NEW max \in Bounds \cup {None},
             CreateCvar(c, min, max)
      PROVE  IInv' /\ BoundStep
  BY <1>8, CreateCvarStep
<1> QED
  BY <1>1, <1>2, <1>3, <1>4, <1>5, <1>6, <1>7, <1>8 DEF Next

LEMMA NextIInv == IInv /\ [Next]_vars => IInv'
<1>1. IInv /\ Next => IInv'
  BY NextStep
<1>2. IInv /\ UNCHANGED vars => IInv'
  BY DEF vars, IInv, TypeOK, DetourServes, BoundsAreManaged, CreatingIsManaged, Hears, Mirrors, Owed
<1> QED
  BY <1>1, <1>2

\* The invariant holds of every behaviour of the detour, its natives and hooks.
THEOREM Invariance == Spec => []IInv
<1>1. Init => IInv
  BY InitIInv
<1>2. IInv /\ [Next]_vars => IInv'
  BY NextIInv
<1> QED
  BY <1>1, <1>2, PTL DEF Spec

\* The variables of the cvar manager have their types.
THEOREM TypeCorrect == Spec => []TypeOK
<1>1. IInv => TypeOK
  BY DEF IInv
<1> QED
  BY <1>1, Invariance, PTL

\* However deep hooks nest and whatever they set, register, enable and disable:
\* when Cvar_DirectSet_Custom is off the stack, the last value that each enabled
\* hook was told is the value of its cvar.
THEOREM HooksHearLatestAlways == Spec => []HooksHearLatest
<1>1. IInv => HooksHearLatest
  <2> SUFFICES ASSUME IInv, frames = <<>>, NEW c \in Cvars, NEW i \in DOMAIN hooks[c], hooks[c][i]
               PROVE  heard[c][i] = cvar[c].value
    BY DEF HooksHearLatest
  <2>1. i \in 1 .. Len(hooks[c])
    BY DEF IInv, TypeOK
  <2>2. heard[c][i] = cvar[c].value \/ Owed(frames, c, i)
    BY <2>1 DEF IInv, Hears
  <2>3. ~Owed(frames, c, i)
    <3>1. Len(frames) = 0
      OBVIOUS
    <3> QED
      BY <3>1 DEF Owed
  <2> QED
    BY <2>2, <2>3
<1> QED
  BY <1>1, Invariance, PTL

\* Whenever plugin code runs, in a hook of the very change included, a variable
\* bound with bind_pcvar_num or its kin has the value of a cvar it is bound to.
THEOREM VariablesMirrorAlways == Spec => []VariablesMirror
<1>1. IInv => VariablesMirror
  BY DEF IInv, Mirrors, VariablesMirror
<1> QED
  BY <1>1, Invariance, PTL

\* Bounds that are in order and that the engine does not round are kept by every
\* set, and by every change of a bound, and one clamping always suffices.
THEOREM BoundsHoldAlways == Spec => BoundsHold
<1>1. IInv /\ [Next]_vars => [BoundStep]_vars
  BY NextStep
<1>2. [BoundStep]_vars =>
        [/\ endless' => \E c \in Managed : ~Sound(cvar'[c])
         /\ \A c \in Cvars : LET old == cvar[c] new == cvar'[c] IN
              detour' /\ Sound(old) /\ Sound(new) =>
                /\ old.value # new.value => Fits(new, new.value)
                /\ old.min # new.min => ~TooLow(new, new.value)
                /\ old.max # new.max => ~TooHigh(new, new.value)]_vars
  BY DEF BoundStep, Settled
<1> QED
  BY <1>1, <1>2, Invariance, PTL DEF BoundsHold, Spec

=============================================================================
