-------------------------- MODULE RadioCallProofs --------------------------
(***************************************************************************)
(* The calls of the driver, step by step, for every value of the constants: *)
(* whatever came before, the chip is started as it was configured.         *)
(*                                                                         *)
(* The proof rests on what the steps that are left of a call will do before *)
(* one of them needs it: before the chip is started it has been put into   *)
(* standby, has been given its packet type, and so on; or that is so       *)
(* already and none of the steps in between undoes it.                     *)
(***************************************************************************)
EXTENDS RadioProofs

-----------------------------------------------------------------------------
(* Sequences of steps *)

\* No step is among those of a set.
Free(s, bad) == \A i \in DOMAIN s : s[i] \notin bad

\* A good step, with no bad one after it before position i.
GoodBefore(s, i, good, bad) ==
    \E j \in 1 .. i - 1 : s[j] \in good /\ \A k \in j + 1 .. i - 1 : s[k] \notin bad

\* After the steps what the good ones establish holds.
Ends(s, good, bad) == GoodBefore(s, Len(s) + 1, good, bad)

\* Every step of need finds what the good steps establish and the bad ones undo:
\* because of the steps before it, or also because it held to begin with.
Provided(s, need, good, bad) ==
    \A i \in DOMAIN s : s[i] \in need => GoodBefore(s, i, good, bad)
Safe(s, need, good, bad) ==
    \A i \in DOMAIN s : s[i] \in need =>
        GoodBefore(s, i, good, bad) \/ \A j \in 1 .. i - 1 : s[j] \notin bad

Ready(s, need, good, bad, met) ==
    Provided(s, need, good, bad) \/ (met /\ Safe(s, need, good, bad))

\* Where the steps of two sequences, one after the other, are found.
LEMMA ConcatIndex ==
    ASSUME NEW s \in Seq(Steps), NEW t \in Seq(Steps)
    PROVE  /\ s \o t \in Seq(Steps)
           /\ Len(s \o t) = Len(s) + Len(t) /\ Len(s) \in Nat /\ Len(t) \in Nat
           /\ DOMAIN s = 1 .. Len(s) /\ DOMAIN t = 1 .. Len(t)
           /\ DOMAIN (s \o t) = 1 .. Len(s) + Len(t)
           /\ \A i \in 1 .. Len(s) : (s \o t)[i] = s[i]
           /\ \A i \in 1 .. Len(t) : (s \o t)[Len(s) + i] = t[i]
           /\ \A i \in Len(s) + 1 .. Len(s) + Len(t) :
                 i - Len(s) \in 1 .. Len(t) /\ (s \o t)[i] = t[i - Len(s)]
  OBVIOUS

\* Two sequences that avoid the bad steps avoid them together.
LEMMA FreeConcat ==
    ASSUME NEW s \in Seq(Steps), NEW t \in Seq(Steps), NEW bad,
           Free(s, bad), Free(t, bad)
    PROVE  Free(s \o t, bad)
  BY ConcatIndex DEF Free

\* What precedes position i of the first part, or of the second.
LEMMA GoodBeforeConcat ==
    ASSUME NEW s \in Seq(Steps), NEW t \in Seq(Steps), NEW good, NEW bad
    PROVE  /\ \A i \in 1 .. Len(s) + 1 :
                 GoodBefore(s, i, good, bad) => GoodBefore(s \o t, i, good, bad)
           /\ \A i \in 1 .. Len(t) + 1 :
                 GoodBefore(t, i, good, bad) => GoodBefore(s \o t, Len(s) + i, good, bad)
           /\ \A i \in 1 .. Len(t) + 1 :
                 Ends(s, good, bad) /\ (\A j \in 1 .. i - 1 : t[j] \notin bad)
                     => GoodBefore(s \o t, Len(s) + i, good, bad)
  <1> DEFINE st == s \o t
  <1>1. /\ Len(s) \in Nat /\ Len(t) \in Nat
        /\ \A i \in 1 .. Len(s) : st[i] = s[i]
        /\ \A i \in 1 .. Len(t) : st[Len(s) + i] = t[i]
        /\ \A i \in Len(s) + 1 .. Len(s) + Len(t) :
              i - Len(s) \in 1 .. Len(t) /\ st[i] = t[i - Len(s)]
    BY ConcatIndex
  <1> HIDE DEF st
  <1>2. ASSUME NEW i \in 1 .. Len(s) + 1, GoodBefore(s, i, good, bad)
        PROVE  GoodBefore(st, i, good, bad)
    <2>1. PICK j \in 1 .. i - 1 : s[j] \in good /\ \A k \in j + 1 .. i - 1 : s[k] \notin bad
      BY <1>2 DEF GoodBefore
    <2>2. \A k \in 1 .. i - 1 : k \in 1 .. Len(s) /\ st[k] = s[k]
      BY <1>1
    <2>3. \A k \in j + 1 .. i - 1 : k \in 1 .. i - 1
      BY <1>1
    <2> QED BY <2>1, <2>2, <2>3 DEF GoodBefore
  <1>3. ASSUME NEW i \in 1 .. Len(t) + 1, GoodBefore(t, i, good, bad)
        PROVE  GoodBefore(st, Len(s) + i, good, bad)
    <2>1. PICK j \in 1 .. i - 1 : t[j] \in good /\ \A k \in j + 1 .. i - 1 : t[k] \notin bad
      BY <1>3 DEF GoodBefore
    <2>2. Len(s) + j \in 1 .. Len(s) + i - 1 /\ st[Len(s) + j] \in good
      BY <1>1, <2>1, SMTT(30)
    <2>3. ASSUME NEW k \in Len(s) + j + 1 .. Len(s) + i - 1 PROVE st[k] \notin bad
      <3>1. k - Len(s) \in j + 1 .. i - 1 /\ k \in Len(s) + 1 .. Len(s) + Len(t)
        BY <1>1
      <3> QED BY <1>1, <2>1, <3>1
    <2> QED BY <2>2, <2>3 DEF GoodBefore
  <1>4. ASSUME NEW i \in 1 .. Len(t) + 1, Ends(s, good, bad),
               \A j \in 1 .. i - 1 : t[j] \notin bad
        PROVE  GoodBefore(st, Len(s) + i, good, bad)
    <2>1. PICK j \in 1 .. Len(s) : s[j] \in good /\ \A k \in j + 1 .. Len(s) : s[k] \notin bad
      BY <1>1, <1>4 DEF Ends, GoodBefore
    <2>2. j \in 1 .. Len(s) + i - 1 /\ st[j] \in good
      BY <1>1, <2>1
    <2>3. ASSUME NEW k \in j + 1 .. Len(s) + i - 1 PROVE st[k] \notin bad
      <3>1. CASE k <= Len(s)
        BY <1>1, <2>1, <3>1
      <3>2. CASE k > Len(s)
        <4>1. k - Len(s) \in 1 .. i - 1 /\ k \in Len(s) + 1 .. Len(s) + Len(t)
          BY <1>1, <3>2
        <4> QED BY <1>1, <1>4, <4>1
      <3> QED BY <1>1, <3>1, <3>2
    <2> QED BY <2>2, <2>3 DEF GoodBefore
  <1> QED BY <1>2, <1>3, <1>4 DEF st

\* A good step that nothing bad follows, in either part.
LEMMA EndsConcat ==
    ASSUME NEW s \in Seq(Steps), NEW t \in Seq(Steps), NEW good, NEW bad,
           Ends(t, good, bad) \/ (Ends(s, good, bad) /\ Free(t, bad))
    PROVE  Ends(s \o t, good, bad)
  <1>1. /\ Len(s) \in Nat /\ Len(t) \in Nat /\ DOMAIN t = 1 .. Len(t)
        /\ Len(s \o t) + 1 = Len(s) + (Len(t) + 1)
    BY ConcatIndex
  <1>2. Len(t) + 1 \in 1 .. Len(t) + 1 /\ Len(t) + 1 - 1 = Len(t)
    BY <1>1
  <1>3. CASE GoodBefore(t, Len(t) + 1, good, bad)
    BY <1>1, <1>2, <1>3, GoodBeforeConcat DEF Ends
  <1>4. CASE Ends(s, good, bad) /\ \A j \in 1 .. Len(t) + 1 - 1 : t[j] \notin bad
    BY <1>1, <1>2, <1>4, GoodBeforeConcat DEF Ends
  <1> QED BY <1>1, <1>2, <1>3, <1>4 DEF Ends, Free

\* What a sequence needs stays provided when another follows.
LEMMA ProvidedConcat ==
    ASSUME NEW s \in Seq(Steps), NEW t \in Seq(Steps), NEW need, NEW good, NEW bad,
           Provided(s, need, good, bad),
           \/ Provided(t, need, good, bad)
           \/ Ends(s, good, bad) /\ Safe(t, need, good, bad)
    PROVE  Provided(s \o t, need, good, bad)
  <1> SUFFICES ASSUME NEW i \in DOMAIN (s \o t), (s \o t)[i] \in need
               PROVE  GoodBefore(s \o t, i, good, bad)
    BY DEF Provided
  <1>1. CASE i \in 1 .. Len(s)
    <2>1. s[i] \in need /\ i \in DOMAIN s /\ i \in 1 .. Len(s) + 1
      BY <1>1, ConcatIndex
    <2> QED BY <2>1, GoodBeforeConcat DEF Provided
  <1>2. CASE i \in Len(s) + 1 .. Len(s) + Len(t)
    <2> DEFINE k == i - Len(s)
    <2>1. /\ k \in 1 .. Len(t) + 1 /\ k \in DOMAIN t /\ t[k] \in need
          /\ i = Len(s) + k
      BY <1>2, ConcatIndex
    <2> HIDE DEF k
    <2> QED BY <2>1, GoodBeforeConcat DEF Provided, Safe
  <1> QED BY <1>1, <1>2, ConcatIndex

\* A sequence that keeps what it needs, with another that does.
LEMMA SafeConcat ==
    ASSUME NEW s \in Seq(Steps), NEW t \in Seq(Steps), NEW need, NEW good, NEW bad,
           Safe(s, need, good, bad),
           \/ Provided(t, need, good, bad)
           \/ (Ends(s, good, bad) \/ Free(s, bad)) /\ Safe(t, need, good, bad)
    PROVE  Safe(s \o t, need, good, bad)
  <1> SUFFICES ASSUME NEW i \in DOMAIN (s \o t), (s \o t)[i] \in need
               PROVE  \/ GoodBefore(s \o t, i, good, bad)
                      \/ \A j \in 1 .. i - 1 : (s \o t)[j] \notin bad
    BY DEF Safe
  <1>1. CASE i \in 1 .. Len(s)
    <2>1. s[i] \in need /\ i \in DOMAIN s /\ i \in 1 .. Len(s) + 1
      BY <1>1, ConcatIndex
    <2>2. ASSUME \A j \in 1 .. i - 1 : s[j] \notin bad
          PROVE  \A j \in 1 .. i - 1 : (s \o t)[j] \notin bad
      BY <1>1, <2>2, ConcatIndex
    <2> QED BY <2>1, <2>2, GoodBeforeConcat DEF Safe
  <1>2. CASE i \in Len(s) + 1 .. Len(s) + Len(t)
    <2> DEFINE k == i - Len(s)
    <2>1. /\ k \in 1 .. Len(t) + 1 /\ k \in DOMAIN t /\ t[k] \in need
          /\ i = Len(s) + k
      BY <1>2, ConcatIndex
    <2>2. ASSUME Free(s, bad), \A j \in 1 .. k - 1 : t[j] \notin bad
          PROVE  \A j \in 1 .. i - 1 : (s \o t)[j] \notin bad
      <3> SUFFICES ASSUME NEW j \in 1 .. i - 1 PROVE (s \o t)[j] \notin bad
        OBVIOUS
      <3>1. CASE j <= Len(s)
        BY <2>2, <3>1, ConcatIndex DEF Free
      <3>2. CASE j > Len(s)
        <4>1. j - Len(s) \in 1 .. k - 1 /\ j \in Len(s) + 1 .. Len(s) + Len(t)
          BY <1>2, <3>2, ConcatIndex
        <4> QED BY <2>2, <4>1, ConcatIndex
      <3> QED BY <3>1, <3>2, ConcatIndex
    <2> HIDE DEF k
    <2> QED BY <2>1, <2>2, GoodBeforeConcat DEF Provided, Safe
  <1> QED BY <1>1, <1>2, ConcatIndex

\* Sequences without a step that needs anything, or without a bad one.
LEMMA FreeReady ==
    ASSUME NEW s, NEW need, NEW good, NEW bad
    PROVE  /\ Free(s, need) => Provided(s, need, good, bad)
           /\ Provided(s, need, good, bad) => Safe(s, need, good, bad)
  BY DEF Free, Provided, Safe

\* What avoids the bad steps keeps what was provided before it.
LEMMA FreeSafe ==
    ASSUME NEW s \in Seq(Steps), NEW need, NEW good, NEW bad, Free(s, bad)
    PROVE  Safe(s, need, good, bad)
  <1>1. \A i \in DOMAIN s : \A j \in 1 .. i - 1 : j \in DOMAIN s
    OBVIOUS
  <1> QED BY <1>1 DEF Free, Safe

\* Sequences are built from the empty one, single steps and concatenation.
LEMMA SequencesClosed ==
    ASSUME NEW S
    PROVE  /\ <<>> \in Seq(S)
           /\ \A x \in S : <<x>> \in Seq(S)
           /\ \A v, w \in Seq(S) : v \o w \in Seq(S)
  OBVIOUS

\* A single step.
LEMMA SingleStep ==
    ASSUME NEW x \in Steps
    PROVE  /\ <<x>> \in Seq(Steps)
           /\ \A bad : Free(<<x>>, bad) <=> x \notin bad
           /\ \A need, good, bad : Safe(<<x>>, need, good, bad)
           /\ \A good, bad : x \in good => Ends(<<x>>, good, bad)
  <1>1. <<x>> \in Seq(Steps) /\ DOMAIN <<x>> = {1} /\ <<x>>[1] = x /\ Len(<<x>>) = 1
    OBVIOUS
  <1> HIDE DEF Steps
  <1>2. \A bad : Free(<<x>>, bad) <=> x \notin bad
    BY <1>1 DEF Free
  <1>3. \A need, good, bad : Safe(<<x>>, need, good, bad)
    BY <1>1 DEF Safe
  <1>4. \A good, bad : x \in good => Ends(<<x>>, good, bad)
    BY <1>1 DEF Ends, GoodBefore
  <1> QED BY <1>1, <1>2, <1>3, <1>4

\* The step appended is the last.
LEMMA LastStep ==
    ASSUME NEW s \in Seq(Steps), NEW x \in Steps
    PROVE  /\ s \o <<x>> \in Seq(Steps) /\ s \o <<x>> # <<>>
           /\ Len(s \o <<x>>) = Len(s) + 1 /\ (s \o <<x>>)[Len(s \o <<x>>)] = x
  <1> HIDE DEF Steps
  <1> QED OBVIOUS

\* The first step is taken.
LEMMA FreeTail ==
    ASSUME NEW s \in Seq(Steps), s # <<>>, NEW bad, Free(s, bad)
    PROVE  Head(s) \notin bad /\ Free(Tail(s), bad)
  <1>1. /\ 1 \in DOMAIN s /\ Head(s) = s[1]
        /\ \A i \in DOMAIN Tail(s) : i + 1 \in DOMAIN s /\ Tail(s)[i] = s[i + 1]
    OBVIOUS
  <1> QED BY <1>1 DEF Free

\* What is provided, or kept, after the first step has been carried out.
LEMMA Advance ==
    ASSUME NEW s \in Seq(Steps), s # <<>>, NEW need, NEW good, NEW bad
    PROVE  /\ Provided(s, need, good, bad) => Head(s) \notin need
           /\ Provided(s, need, good, bad) /\ Head(s) \notin good
                  => Provided(Tail(s), need, good, bad)
           /\ Provided(s, need, good, bad) => Safe(Tail(s), need, good, bad)
           /\ Safe(s, need, good, bad) => Safe(Tail(s), need, good, bad)
           /\ Safe(s, need, good, bad) /\ Head(s) \notin good /\ Head(s) \in bad
                  => Provided(Tail(s), need, good, bad)
  <1> DEFINE t == Tail(s)
  <1>1. /\ 1 \in DOMAIN s /\ Head(s) = s[1] /\ Len(s) \in Nat /\ Len(t) = Len(s) - 1
        /\ DOMAIN t = 1 .. Len(t)
        /\ DOMAIN s = 1 .. Len(s)
        /\ \A i \in DOMAIN t : i + 1 \in DOMAIN s /\ t[i] = s[i + 1]
    OBVIOUS
  <1> HIDE DEF t
  <1>2. ASSUME NEW i \in DOMAIN t, GoodBefore(s, i + 1, good, bad)
        PROVE  \/ GoodBefore(t, i, good, bad)
               \/ s[1] \in good /\ \A j \in 1 .. i - 1 : t[j] \notin bad
    <2>1. PICK j \in 1 .. i : s[j] \in good /\ \A k \in j + 1 .. i : s[k] \notin bad
      BY <1>1, <1>2 DEF GoodBefore
    <2>2. \A k \in j .. i - 1 : k \in DOMAIN t /\ k + 1 \in j + 1 .. i
      BY <1>1
    <2>3. \A k \in j .. i - 1 : t[k] \notin bad
      BY <1>1, <2>1, <2>2
    <2>4. CASE j = 1
      BY <2>1, <2>3, <2>4
    <2>5. CASE j > 1
      <3>1. j - 1 \in 1 .. i - 1 /\ t[j - 1] = s[j]
        BY <1>1, <2>5
      <3> QED BY <2>1, <2>3, <3>1 DEF GoodBefore
    <2> QED BY <2>4, <2>5
  <1>3. ASSUME NEW i \in DOMAIN t, \A j \in 1 .. i : s[j] \notin bad
        PROVE  s[1] \notin bad /\ \A j \in 1 .. i - 1 : t[j] \notin bad
    <2>1. \A j \in 1 .. i - 1 : j \in DOMAIN t /\ j + 1 \in 1 .. i
      BY <1>1
    <2> QED BY <1>1, <1>3, <2>1
  <1>4. Provided(s, need, good, bad) => s[1] \notin need
    <2>1. ~GoodBefore(s, 1, good, bad)
      BY DEF GoodBefore
    <2> QED BY <1>1, <2>1 DEF Provided
  <1>5. \A i \in DOMAIN t : i + 1 - 1 = i
    BY <1>1
  <1>6. ASSUME Provided(s, need, good, bad)
        PROVE  /\ Safe(t, need, good, bad)
               /\ s[1] \notin good => Provided(t, need, good, bad)
    <2>1. ASSUME NEW i \in DOMAIN t, t[i] \in need
          PROVE  \/ GoodBefore(t, i, good, bad)
                 \/ s[1] \in good /\ \A j \in 1 .. i - 1 : t[j] \notin bad
      BY <1>1, <1>2, <1>6, <2>1 DEF Provided
    <2>2. Safe(t, need, good, bad)
      BY <2>1 DEF Safe
    <2>3. s[1] \notin good => Provided(t, need, good, bad)
      BY <2>1 DEF Provided
    <2> QED BY <2>2, <2>3
  <1>7. ASSUME Safe(s, need, good, bad)
        PROVE  /\ Safe(t, need, good, bad)
               /\ s[1] \notin good /\ s[1] \in bad => Provided(t, need, good, bad)
    <2>1. ASSUME NEW i \in DOMAIN t, t[i] \in need
          PROVE  \/ GoodBefore(t, i, good, bad)
                 \/ /\ s[1] \in good \/ s[1] \notin bad
                    /\ \A j \in 1 .. i - 1 : t[j] \notin bad
      <3>1. \/ GoodBefore(s, i + 1, good, bad)
            \/ \A j \in 1 .. i : s[j] \notin bad
        BY <1>1, <1>5, <1>7, <2>1 DEF Safe
      <3> QED BY <1>2, <1>3, <3>1
    <2>2. Safe(t, need, good, bad)
      BY <2>1 DEF Safe
    <2>3. ~(s[1] \in good \/ s[1] \notin bad) => Provided(t, need, good, bad)
      BY <2>1 DEF Provided
    <2> QED BY <2>2, <2>3
  <1> QED BY <1>1, <1>4, <1>6, <1>7 DEF t

\* Steps that establish something for all that follows, and for need.
Gives(s, need, good, bad) == Provided(s, need, good, bad) /\ Ends(s, good, bad)

\* What the first part gives, the second does not undo.
LEMMA GivesLeft ==
    ASSUME NEW s \in Seq(Steps), NEW t \in Seq(Steps), NEW need, NEW good, NEW bad,
           Gives(s, need, good, bad), Free(t, bad)
    PROVE  Gives(s \o t, need, good, bad)
  BY ProvidedConcat, EndsConcat, FreeSafe DEF Gives

\* What the second part gives, when the first needs nothing of it.
LEMMA GivesRight ==
    ASSUME NEW s \in Seq(Steps), NEW t \in Seq(Steps), NEW need, NEW good, NEW bad,
           Free(s, need), Gives(t, need, good, bad)
    PROVE  Gives(s \o t, need, good, bad)
  BY ProvidedConcat, EndsConcat, FreeReady DEF Gives

\* A good step alone gives what it is good for.
LEMMA GivesSingle ==
    ASSUME NEW x \in Steps, NEW need, NEW good, NEW bad, x \in good, x \notin need
    PROVE  Gives(<<x>>, need, good, bad)
  BY SingleStep, FreeReady DEF Gives

\* No steps avoid every step.
LEMMA FreeEmpty == <<>> \in Seq(Steps) /\ \A bad : Free(<<>>, bad)
  BY DEF Free

-----------------------------------------------------------------------------
(* What the steps of a call need, establish and undo *)

Doing(names) == {x \in Steps : x.does \in names}
With(name, args) == {x \in Steps : x.does = name /\ x.with \in args}

Starts == Doing({"TX", "RX"})
Asleep == Doing({"SLEEP"})
Standing == Doing({"STANDBY"})
Noting(modes) == With("operation_mode", modes)
Typing(modems) == With("PACKETTYPE", modems)
Masking(masks) == With("DIOIRQ", masks)
Calming == Starts \union Noting({"STDBY_RC"}) \union Doing({"PACKETTYPE", "DIOIRQ"})

\* The steps that come before a call starts anything.
Preparing(modem) ==
    Doing({"CALIBRATEIMAGE", "RFFREQUENCY", "SELECT", "REGULATORMODE", "RFSWITCHMODE",
           "SYNCWORD", "STANDBY", "FSK_SYNCWORD"})
        \union Noting({"STDBY_RC"}) \union Typing({modem})

\* A command, and an assignment, as one step.
LEMMA CommandStep ==
    /\ \A name \in Plain :
          LET x == [does |-> name, with |-> ""] IN x \in Steps /\ Command(name, "") = <<x>>
    /\ \A m \in DriverModes :
          LET x == [does |-> "operation_mode", with |-> m] IN x \in Steps /\ Assign(m) = <<x>>
    /\ \A m \in Modems :
          LET x == [does |-> "PACKETTYPE", with |-> m] IN
          x \in Steps /\ Command("PACKETTYPE", m) = <<x>>
    /\ \A mask \in {RxMask, TxMask} :
          LET x == [does |-> "DIOIRQ", with |-> mask] IN
          x \in Steps /\ Command("DIOIRQ", mask) = <<x>>
    /\ \A kind \in {"rx", "rx_continuous"} :
          LET x == [does |-> "RX", with |-> kind] IN x \in Steps /\ Command("RX", kind) = <<x>>
    /\ LET x == [does |-> "SYNCWORD", with |-> Network] IN
       x \in Steps /\ set_public_network = <<x>>
  <1>1. Network \in {"public", "private"}
    BY RadioDriverAssumption DEF RadioDriverAssumption
  <1> QED BY <1>1 DEF Steps, Commands, Command, Assign, set_public_network

\* Steps that only prepare neither start, nor mask, nor sleep, nor have anything
\* else noted than STDBY_RC.
LEMMA PreparingFree ==
    ASSUME NEW modem \in Modems, NEW s \in Seq(Preparing(modem))
    PROVE  /\ s \in Seq(Steps)
           /\ Free(s, Starts) /\ Free(s, Doing({"TX"})) /\ Free(s, Doing({"RX"}))
           /\ Free(s, Asleep) /\ Free(s, Noting({"SLEEP", "TX", "RX"}))
           /\ Free(s, Noting({"TX"})) /\ Free(s, Noting({"RX"})) /\ Free(s, Noting({"SLEEP"}))
           /\ Free(s, Doing({"DIOIRQ"}))
           /\ Free(s, Asleep \union Typing(Modems \ {modem}))
  <1>1. \A x \in Preparing(modem) :
           /\ x \in Steps
           /\ x.does \notin {"TX", "RX", "SLEEP", "DIOIRQ"}
           /\ x.does = "operation_mode" => x.with = "STDBY_RC"
           /\ x.does = "PACKETTYPE" => x.with = modem
    BY DEF Preparing, Doing, Noting, Typing, With
  <1>2. \A i \in DOMAIN s : s[i] \in Preparing(modem)
    OBVIOUS
  <1>3. s \in Seq(Steps)
    <2>1. Preparing(modem) \subseteq Steps
      BY <1>1
    <2> QED BY <2>1
  <1> HIDE DEF Preparing
  <1> QED BY <1>1, <1>2, <1>3 DEF Free, Starts, Doing, Asleep, Noting, With, Typing

\* set_channel() and standby() with _operation_mode m.
LEMMA ChannelSteps ==
    ASSUME NEW modem \in Modems
    PROVE  /\ set_channel \in Seq(Preparing(modem))
           /\ Gives(set_channel, Starts, Doing({"RFFREQUENCY"}), Asleep)
  <1> DEFINE image == [does |-> "CALIBRATEIMAGE", with |-> ""]
             frequency == [does |-> "RFFREQUENCY", with |-> ""]
  <1>1. /\ image \in Steps /\ frequency \in Steps
        /\ set_channel = <<image>> \o <<frequency>>
    BY CommandStep DEF Plain, Settings, set_channel
  <1>2. image \in Preparing(modem) /\ frequency \in Preparing(modem)
    BY <1>1 DEF Preparing, Doing
  <1>3. Free(<<image>>, Starts)
    BY <1>1, SingleStep DEF Starts, Doing
  <1>4. Gives(<<frequency>>, Starts, Doing({"RFFREQUENCY"}), Asleep)
    BY <1>1, GivesSingle DEF Starts, Doing
  <1>5. <<image>> \in Seq(Steps) /\ <<frequency>> \in Seq(Steps)
    BY <1>1, SingleStep
  <1>6. Gives(set_channel, Starts, Doing({"RFFREQUENCY"}), Asleep)
    BY <1>1, <1>3, <1>4, <1>5, GivesRight
  <1> HIDE DEF image, frequency, Preparing
  <1>7. <<image>> \o <<frequency>> \in Seq(Preparing(modem))
    BY <1>2
  <1> QED BY <1>1, <1>6, <1>7

\* The settings that are lost in a cold sleep and set when the chip wakes up.
Waking == {"REGULATORMODE", "RFSWITCHMODE"}
Awakened == Noting({"STDBY_RC", "TX", "RX"})
Stirring == Noting({"SLEEP", "TX", "RX"})

\* standby() before another mode: it brings the chip to rest and wakes it.
LEMMA StandbySteps ==
    ASSUME NEW m \in DriverModes, NEW modem \in Modems
    PROVE  LET s == standby(m, modem) IN
           /\ s \in Seq(Preparing(modem))
           /\ m = "STDBY_RC" => s = <<>>
           /\ m # "STDBY_RC" => /\ s # <<>> /\ s[Len(s)].does = "operation_mode"
                                /\ Ends(s, Noting({"STDBY_RC"}), Stirring)
           /\ m \in {"TX", "RX"} => Gives(s, Calming, Standing, Starts)
           /\ \A x \in Waking : m = "SLEEP" => Gives(s, Awakened, Doing({x}), Asleep)
  <1> DEFINE Step(name) == [does |-> name, with |-> ""]
             note == [does |-> "operation_mode", with |-> "STDBY_RC"]
             type == [does |-> "PACKETTYPE", with |-> modem]
             word == [does |-> "SYNCWORD", with |-> Network]
             sync == IF modem = "LORA" THEN set_public_network ELSE <<>>
             end == <<Step("STANDBY")>> \o <<note>>
             wake == <<Step("REGULATORMODE")>> \o <<Step("RFSWITCHMODE")>>
             Prep == Preparing(modem)
  <1>1. /\ \A name \in {"SELECT", "REGULATORMODE", "RFSWITCHMODE", "STANDBY"} :
              Step(name) \in Steps /\ Command(name, "") = <<Step(name)>>
        /\ note \in Steps /\ Assign("STDBY_RC") = <<note>>
        /\ type \in Steps /\ Command("PACKETTYPE", modem) = <<type>>
        /\ word \in Steps /\ set_public_network = <<word>>
    BY CommandStep DEF Plain, Settings, DriverModes
  <1>2. /\ \A name \in {"SELECT", "REGULATORMODE", "RFSWITCHMODE", "STANDBY"} : Step(name) \in Prep
        /\ note \in Prep /\ type \in Prep /\ word \in Prep
    BY <1>1 DEF Preparing, Doing, Noting, Typing, With
  <1>3. /\ Step("STANDBY") \in Standing /\ Step("STANDBY") \notin Calming
        /\ note \notin Starts /\ note \in Noting({"STDBY_RC"})
        /\ note \notin Asleep /\ note \in Calming
        /\ \A x \in Waking : Step(x) \in Doing({x}) /\ Step(x) \notin Awakened /\ Step(x) \notin Asleep
        /\ Step("SELECT") \notin Awakened
    BY <1>1 DEF Standing, Calming, Starts, Asleep, Noting, Doing, With, Waking, Awakened
  <1> DEFINE start == IF m = "SLEEP" THEN wakeup(modem) ELSE <<>>
  <1>4. /\ standby(m, modem) = IF m = "STDBY_RC" THEN <<>>
                               ELSE (start \o <<Step("STANDBY")>>) \o <<note>>
        /\ wakeup(modem) = <<Step("SELECT")>> \o (((wake \o <<note>>) \o <<type>>) \o sync)
    BY <1>1 DEF standby, wakeup, cold_start_wakeup
  <1>5. \A x \in Prep : <<x>> \in Seq(Prep)
    OBVIOUS
  <1>6. \A s, t \in Seq(Prep) : s \o t \in Seq(Prep)
    OBVIOUS
  <1>7. <<>> \in Seq(Prep)
    OBVIOUS
  <1> HIDE DEF Step, note, type, word, Prep
  <1>8. sync \in Seq(Prep)
    BY <1>1, <1>2, <1>5, <1>7
  <1> HIDE DEF sync
  <1>9. wake \in Seq(Prep) /\ ((wake \o <<note>>) \o <<type>>) \o sync \in Seq(Prep)
    BY <1>2, <1>5, <1>6, <1>8, Zenon
  <1>10. wakeup(modem) \in Seq(Prep)
    BY <1>2, <1>4, <1>5, <1>6, <1>9, ZenonT(60)
  <1>11. start \in Seq(Prep)
    BY <1>7, <1>10
  <1>12. start \o <<Step("STANDBY")>> \in Seq(Prep) /\ <<note>> \in Seq(Prep)
    BY <1>2, <1>5, <1>6, <1>11, Zenon
  <1>13. standby(m, modem) \in Seq(Prep)
    BY <1>4, <1>6, <1>7, <1>12
  <1>14. \A s \in Seq(Prep) : /\ s \in Seq(Steps)
                              /\ Free(s, Starts) /\ Free(s, Asleep) /\ Free(s, Stirring)
    BY PreparingFree DEF Prep, Stirring
  <1>15. m # "STDBY_RC" => /\ standby(m, modem) # <<>>
                           /\ standby(m, modem)[Len(standby(m, modem))].does = "operation_mode"
    <2>1. start \o <<Step("STANDBY")>> \in Seq(Steps)
      BY <1>12, <1>14
    <2> DEFINE before == start \o <<Step("STANDBY")>>
    <2> HIDE DEF before
    <2>2. /\ before \o <<note>> # <<>>
          /\ (before \o <<note>>)[Len(before \o <<note>>)] = note
      BY <1>1, <2>1, LastStep DEF before
    <2> QED BY <1>4, <2>2 DEF before, note
  <1>16. m # "STDBY_RC" => Ends(standby(m, modem), Noting({"STDBY_RC"}), Stirring)
    <2>1. Ends(<<note>>, Noting({"STDBY_RC"}), Stirring)
      BY <1>1, <1>3, SingleStep
    <2> QED BY <1>4, <1>12, <1>14, <2>1, EndsConcat
  <1>17. m \in {"TX", "RX"} => Gives(standby(m, modem), Calming, Standing, Starts)
    <2>1. Gives(<<Step("STANDBY")>>, Calming, Standing, Starts)
      BY <1>1, <1>3, GivesSingle
    <2>2. Free(<<>>, Calming) /\ <<>> \in Seq(Steps) /\ <<Step("STANDBY")>> \in Seq(Steps)
      BY <1>1, FreeEmpty, SingleStep
    <2>3. Gives(<<>> \o <<Step("STANDBY")>>, Calming, Standing, Starts)
      BY <2>1, <2>2, GivesRight
    <2>4. Provided(<<>> \o <<Step("STANDBY")>>, Calming, Standing, Starts)
          /\ Ends(<<>> \o <<Step("STANDBY")>>, Standing, Starts)
      BY <2>3 DEF Gives
    <2>5. Gives((<<>> \o <<Step("STANDBY")>>) \o <<note>>, Calming, Standing, Starts)
      <3>1. Free(<<note>>, Starts) /\ <<note>> \in Seq(Steps)
        BY <1>12, <1>14
      <3>2. <<>> \o <<Step("STANDBY")>> \in Seq(Steps)
        BY <2>2
      <3> QED BY <2>3, <3>1, <3>2, GivesLeft
    <2> QED BY <1>4, <2>5
  <1>18. ASSUME NEW x \in Waking, m = "SLEEP"
         PROVE  Gives(standby(m, modem), Awakened, Doing({x}), Asleep)
    <2> DEFINE Given(s) == Gives(s, Awakened, Doing({x}), Asleep)
    <2>1. \A y \in Waking : <<Step(y)>> \in Seq(Steps) /\ Free(<<Step(y)>>, Awakened)
                            /\ Free(<<Step(y)>>, Asleep)
      BY <1>1, <1>3, SingleStep DEF Waking
    <2>2. Given(<<Step(x)>>)
      BY <1>1, <1>3, GivesSingle DEF Waking
    <2>3. Given(wake)
      BY <2>1, <2>2, GivesLeft, GivesRight DEF Waking
    <2>4. \A s, t \in Seq(Prep) : Given(s) => Given(s \o t)
      BY <1>14, GivesLeft
    <2>5. \A s, t \in Seq(Prep) : Free(s, Awakened) /\ Given(t) => Given(s \o t)
      BY <1>14, GivesRight
    <2> HIDE DEF Given, wake
    <2>6. wake \o <<note>> \in Seq(Prep) /\ <<type>> \in Seq(Prep) /\ <<Step("SELECT")>> \in Seq(Prep)
          /\ (wake \o <<note>>) \o <<type>> \in Seq(Prep)
      BY <1>2, <1>5, <1>6, <1>9, <1>12, Zenon
    <2>7. Given(((wake \o <<note>>) \o <<type>>) \o sync)
      BY <1>8, <1>9, <1>12, <2>3, <2>4, <2>6, Zenon
    <2>8. Free(<<Step("SELECT")>>, Awakened)
      BY <1>1, <1>3, SingleStep
    <2>9. Given(wakeup(modem))
      BY <1>4, <1>9, <2>5, <2>6, <2>7, <2>8, Zenon
    <2>10. <<Step("STANDBY")>> \in Seq(Prep)
      BY <1>2, <1>5
    <2>11. Given((wakeup(modem) \o <<Step("STANDBY")>>) \o <<note>>)
      BY <1>6, <1>10, <1>12, <2>4, <2>9, <2>10, Zenon
    <2> QED BY <1>4, <1>18, <2>11 DEF Given
  <1> QED BY <1>4, <1>13, <1>15, <1>16, <1>17, <1>18 DEF Prep

\* set_channel() and set_config() with _operation_mode m.
LEMMA PreambleSteps ==
    ASSUME NEW m \in DriverModes, NEW modem \in Modems
    PROVE  LET s == set_channel \o set_config(m, modem)
               u == set_modem(m, modem)
           IN
           /\ s \in Seq(Preparing(modem)) /\ u \in Seq(Preparing(modem))
           /\ m # "STDBY_RC" => /\ Ends(s, Noting({"STDBY_RC"}), Stirring)
                                /\ Ends(u, Noting({"STDBY_RC"}), Stirring)
           /\ m \in {"TX", "RX"} => Ends(s, Standing, Starts) /\ Provided(s, Calming, Standing, Starts)
           /\ \A x \in Waking : m = "SLEEP" => /\ Gives(s, Awakened, Doing({x}), Asleep)
                                               /\ Gives(u, Awakened, Doing({x}), Asleep)
           /\ Gives(s, Starts, Typing({modem}), Asleep \union Typing(Modems \ {modem}))
           /\ Gives(s, Starts, Doing({"RFFREQUENCY"}), Asleep)
           /\ modem = "FSK" => Gives(s, Starts, Doing({"FSK_SYNCWORD"}), Asleep)
  <1> DEFINE type == [does |-> "PACKETTYPE", with |-> modem]
             word == [does |-> "FSK_SYNCWORD", with |-> ""]
             b == standby(m, modem)
             k == IF modem = "FSK" THEN Command("FSK_SYNCWORD", "") ELSE <<>>
             Prep == Preparing(modem)
             u == b \o <<type>>
             s == set_channel \o (u \o k)
  <1>1. /\ type \in Steps /\ word \in Steps
        /\ Command("FSK_SYNCWORD", "") = <<word>> /\ Command("PACKETTYPE", modem) = <<type>>
    BY CommandStep DEF Plain, Settings
  <1>2. set_modem(m, modem) = u /\ set_channel \o set_config(m, modem) = s
    BY <1>1 DEF set_modem, set_config
  <1>3. type \in Prep /\ word \in Prep
    BY <1>1 DEF Preparing, Doing, Typing, With
  <1>4. /\ type \in Typing({modem}) /\ type \notin Starts /\ type \notin Standing
        /\ word \in Doing({"FSK_SYNCWORD"}) /\ word \notin Starts
    BY <1>1 DEF Typing, Starts, Doing, With, Standing
  <1> HIDE DEF type, word, Prep, u, s, b
  <1>5. <<type>> \in Seq(Prep) /\ k \in Seq(Prep) /\ set_channel \in Seq(Prep) /\ b \in Seq(Prep)
    <2>1. \A x \in Prep : <<x>> \in Seq(Prep)
      OBVIOUS
    <2>2. <<>> \in Seq(Prep)
      OBVIOUS
    <2>3. set_channel \in Seq(Prep)
      BY ChannelSteps DEF Prep
    <2>4. b \in Seq(Prep)
      BY StandbySteps DEF Prep, b
    <2> QED BY <1>1, <1>3, <2>1, <2>2, <2>3, <2>4
  <1> HIDE DEF k
  <1>6. \A v, w \in Seq(Prep) : v \o w \in Seq(Prep)
    OBVIOUS
  <1>7. u \in Seq(Prep) /\ u \o k \in Seq(Prep)
    BY <1>5, <1>6, Zenon DEF u
  <1>8. s \in Seq(Prep)
    BY <1>5, <1>6, <1>7, Zenon DEF s
  <1>9. \A v \in Seq(Prep) :
           /\ v \in Seq(Steps)
           /\ Free(v, Starts) /\ Free(v, Asleep) /\ Free(v, Stirring)
           /\ Free(v, Asleep \union Typing(Modems \ {modem}))
    BY PreparingFree DEF Prep, Stirring
  <1>10. ASSUME NEW need, NEW good, NEW bad, \A v \in Seq(Prep) : Free(v, bad)
         PROVE  /\ Gives(b, need, good, bad) => Gives(u, need, good, bad)
                /\ Gives(u, need, good, bad) => Gives(u \o k, need, good, bad)
    BY <1>5, <1>7, <1>9, <1>10, GivesLeft DEF u
  <1>11. ASSUME NEW need, NEW good, NEW bad, Free(set_channel, need), Gives(u \o k, need, good, bad)
         PROVE  Gives(s, need, good, bad)
    BY <1>5, <1>7, <1>9, <1>11, GivesRight DEF s
  <1>12. ASSUME NEW good, NEW bad, \A v \in Seq(Prep) : Free(v, bad), Ends(b, good, bad)
         PROVE  Ends(u, good, bad) /\ Ends(s, good, bad)
    <2>1. Ends(u, good, bad)
      BY <1>5, <1>9, <1>12, EndsConcat DEF u
    <2>2. Ends(u \o k, good, bad)
      BY <1>5, <1>7, <1>9, <1>12, <2>1, EndsConcat
    <2> QED BY <1>5, <1>7, <1>9, <2>1, <2>2, EndsConcat DEF s
  <1>13. m # "STDBY_RC" => /\ Ends(s, Noting({"STDBY_RC"}), Stirring)
                           /\ Ends(u, Noting({"STDBY_RC"}), Stirring)
    BY <1>9, <1>12, StandbySteps DEF b
  <1>14. Free(set_channel, Awakened) /\ Free(set_channel, Calming)
    <2> DEFINE image == [does |-> "CALIBRATEIMAGE", with |-> ""]
               frequency == [does |-> "RFFREQUENCY", with |-> ""]
    <2>1. image \in Steps /\ frequency \in Steps /\ set_channel = <<image>> \o <<frequency>>
      BY CommandStep DEF Plain, Settings, set_channel
    <2>2. /\ image \notin Awakened /\ frequency \notin Awakened
          /\ image \notin Calming /\ frequency \notin Calming
      BY <2>1 DEF Awakened, Calming, Starts, Doing, Noting, With
    <2> HIDE DEF image, frequency
    <2> QED BY <2>1, <2>2, SingleStep, FreeConcat
  <1>15. m \in {"TX", "RX"} => Ends(s, Standing, Starts) /\ Provided(s, Calming, Standing, Starts)
    <2> SUFFICES ASSUME m \in {"TX", "RX"} PROVE Gives(s, Calming, Standing, Starts)
      BY DEF Gives
    <2> QED BY <1>9, <1>10, <1>11, <1>14, StandbySteps DEF b
  <1>16. ASSUME NEW x \in Waking, m = "SLEEP"
         PROVE  Gives(s, Awakened, Doing({x}), Asleep) /\ Gives(u, Awakened, Doing({x}), Asleep)
    BY <1>9, <1>10, <1>11, <1>14, <1>16, StandbySteps DEF b
  <1>17. Gives(s, Starts, Typing({modem}), Asleep \union Typing(Modems \ {modem}))
    <2>1. Gives(<<type>>, Starts, Typing({modem}), Asleep \union Typing(Modems \ {modem}))
      BY <1>1, <1>4, GivesSingle
    <2>2. Gives(u, Starts, Typing({modem}), Asleep \union Typing(Modems \ {modem}))
      BY <1>5, <1>9, <2>1, GivesRight DEF u
    <2> QED BY <1>5, <1>9, <1>10, <1>11, <2>2
  <1>18. Gives(s, Starts, Doing({"RFFREQUENCY"}), Asleep)
    BY <1>5, <1>7, <1>9, ChannelSteps, GivesLeft DEF s
  <1>19. modem = "FSK" => Gives(s, Starts, Doing({"FSK_SYNCWORD"}), Asleep)
    <2> SUFFICES ASSUME modem = "FSK" PROVE Gives(s, Starts, Doing({"FSK_SYNCWORD"}), Asleep)
      OBVIOUS
    <2>1. k = <<word>>
      BY <1>1 DEF k
    <2>2. Gives(<<word>>, Starts, Doing({"FSK_SYNCWORD"}), Asleep)
      BY <1>1, <1>4, GivesSingle
    <2>3. Gives(u \o k, Starts, Doing({"FSK_SYNCWORD"}), Asleep)
      BY <1>5, <1>7, <1>9, <2>1, <2>2, GivesRight
    <2> QED BY <1>5, <1>9, <1>11, <2>3
  <1> QED BY <1>2, <1>7, <1>8, <1>13, <1>15, <1>16, <1>17, <1>18, <1>19 DEF Prep

-----------------------------------------------------------------------------
(* Calls *)

\* What every call but sleep() sees to before the steps that rely on it: the chip is
\* in standby when it is started, configured or noted to be so; the mode noted is
\* that of the chip; and what a cold sleep has lost is set again.
Readied(s, c, m) ==
    /\ Free(s, Asleep) /\ Free(s, Noting({"SLEEP"}))
    /\ Ready(s, Calming, Standing, Starts, c.mode \in {"sleep", "standby"})
    /\ Ready(s, Noting({"TX"}), Standing, Doing({"RX"}), c.mode \notin {"rx", "rx_continuous"})
    /\ Ready(s, Noting({"RX"}), Standing, Doing({"TX"}), c.mode # "tx")
    /\ Ready(s, Starts, Noting({"STDBY_RC"}), Stirring, m = "STDBY_RC")
    /\ \A x \in Waking : Ready(s, Awakened, Doing({x}), Asleep, x \in c.settings)

\* What send() and receive() also see to: the configuration of the modem.
Params == {"MODULATIONPARAMS", "PACKETPARAMS"}
Required(modem) == {"RFFREQUENCY"} \union (IF modem = "FSK" THEN {"FSK_SYNCWORD"} ELSE {})
Configuring(s, modem, mask, c) ==
    /\ Ready(s, Starts, Typing({modem}), Asleep \union Typing(Modems \ {modem}),
             c.type = modem)
    /\ \A x \in Required(modem) : Ready(s, Starts, Doing({x}), Asleep, x \in c.settings)
    /\ \A x \in Params :
          Ready(s, Starts, Doing({x}), Asleep \union Doing({"PACKETTYPE"}), x \in c.settings)
    /\ Ready(s, Starts, Masking({mask}), Asleep \union Masking({TxMask, RxMask} \ {mask}),
             c.mask = mask)

\* The chip is started by the last step but one, which the last one notes.
Launching(s, x, y) ==
    /\ s # <<>> /\ s[Len(s)] = y
    /\ \A i \in DOMAIN s : s[i] \in Starts => i = Len(s) - 1 /\ s[i] = x

\* A call that prepares, configures, starts the chip once and notes that.
LEMMA LaunchingConcat ==
    ASSUME NEW p \in Seq(Steps), NEW c \in Seq(Steps), NEW x \in Steps, NEW y \in Steps,
           Free(p, Starts), Free(c, Starts), y \notin Starts
    PROVE  Launching(p \o ((c \o <<x>>) \o <<y>>), x, y)
  <1> DEFINE l == (c \o <<x>>) \o <<y>>
             s == p \o l
             n == Len(p)
             k == Len(c)
  <1> HIDE DEF Steps
  <1>1. /\ l \in Seq(Steps) /\ Len(l) = Len(c) + 2
        /\ \A i \in 1 .. Len(c) : l[i] = c[i]
        /\ l[Len(c) + 1] = x /\ l[Len(c) + 2] = y
    OBVIOUS
  <1> HIDE DEF l
  <1>2. /\ Len(s) = Len(p) + Len(l) /\ DOMAIN s = 1 .. Len(p) + Len(l)
        /\ \A i \in 1 .. Len(p) : s[i] = p[i]
        /\ \A i \in 1 .. Len(l) : s[Len(p) + i] = l[i]
    BY <1>1, ConcatIndex
  <1> HIDE DEF s
  <1>3. n \in Nat /\ k \in Nat /\ DOMAIN p = 1 .. n /\ DOMAIN c = 1 .. k
    OBVIOUS
  <1>4. /\ Len(s) = n + (k + 2) /\ DOMAIN s = 1 .. n + (k + 2)
        /\ \A i \in 1 .. n : s[i] = p[i]
        /\ \A i \in 1 .. k + 2 : s[n + i] = l[i]
        /\ \A i \in 1 .. k : l[i] = c[i]
        /\ l[k + 1] = x /\ l[k + 2] = y
    BY <1>1, <1>2
  <1>5. s # <<>>
    <2>1. Len(s) # 0
      BY <1>3, <1>4
    <2> QED BY <2>1
  <1> HIDE DEF n, k
  <1>6. k + 1 \in 1 .. k + 2 /\ k + 2 \in 1 .. k + 2 /\ \A i \in 1 .. k : i \in 1 .. k + 2
    BY <1>3
  <1>7. s[n + (k + 1)] = x /\ s[n + (k + 2)] = y /\ \A i \in 1 .. k : s[n + i] = c[i]
    BY <1>4, <1>6
  <1>8. ASSUME NEW i \in 1 .. n + (k + 2), s[i] \in Starts PROVE i = n + (k + 1)
    <2>1. i \notin 1 .. n
      BY <1>3, <1>4, <1>8 DEF Free
    <2>2. PICK j \in 1 .. k + 2 : i = n + j
      <3>1. i - n \in 1 .. k + 2 /\ i = n + (i - n)
        BY <1>3, <2>1
      <3> QED BY <3>1
    <2>3. j \notin 1 .. k
      BY <1>3, <1>7, <1>8, <2>2 DEF Free
    <2>4. j # k + 2
      BY <1>7, <1>8, <2>2
    <2>5. j = k + 1
      BY <1>3, <2>3, <2>4
    <2> QED BY <2>2, <2>5
  <1>9. n + (k + 2) - 1 = n + (k + 1)
    BY <1>3
  <1>10. Launching(s, x, y)
    <2>1. s[Len(s)] = y
      BY <1>4, <1>7
    <2>2. ASSUME NEW i \in DOMAIN s, s[i] \in Starts PROVE i = Len(s) - 1 /\ s[i] = x
      <3>1. i = n + (k + 1)
        BY <1>4, <1>8, <2>2
      <3> QED BY <1>3, <1>4, <1>7, <1>9, <3>1
    <2> QED BY <1>5, <2>1, <2>2 DEF Launching
  <1> QED BY <1>10 DEF s, l

\* Fewer bad steps, the same good end.
LEMMA EndsWeaker ==
    ASSUME NEW s, NEW good, NEW bad, NEW less, less \subseteq bad, Ends(s, good, bad)
    PROVE  Ends(s, good, less)
  BY DEF Ends, GoodBefore

\* send() and receive() up to the command that starts the chip.
Core(mask) == Command("DIOIRQ", mask) \o set_params
Coring(mask) == Doing({"MODULATIONPARAMS", "PACKETPARAMS", "WRITE_BUFFER"}) \union Masking({mask})

\* What configuring a transfer does not do: start, sleep, note a mode, change the modem.
LEMMA CoringFree ==
    ASSUME NEW mask, NEW v \in Seq(Coring(mask))
    PROVE  /\ v \in Seq(Steps)
           /\ Free(v, Starts) /\ Free(v, Asleep) /\ Free(v, Noting(DriverModes))
           /\ Free(v, Doing({"PACKETTYPE"}))
           /\ Free(v, Asleep \union Doing({"PACKETTYPE"}))
           /\ Free(v, Asleep \union Masking({TxMask, RxMask} \ {mask}))
  <1>1. \A x \in Coring(mask) :
           /\ x \in Steps /\ x \notin Starts /\ x \notin Asleep /\ x \notin Noting(DriverModes)
           /\ x \notin Doing({"PACKETTYPE"})
           /\ x \notin Masking({TxMask, RxMask} \ {mask})
    BY DEF Coring, Doing, Masking, With, Starts, Asleep, Noting
  <1> HIDE DEF Coring
  <1>2. \A i \in DOMAIN v : v[i] \in Coring(mask)
    OBVIOUS
  <1>3. v \in Seq(Steps)
    <2>1. Coring(mask) \subseteq Steps
      BY <1>1
    <2> QED BY <2>1
  <1> QED BY <1>1, <1>2, <1>3 DEF Free

\* send() and receive() write every parameter and their own mask before the start.
LEMMA CoreSteps ==
    ASSUME NEW mask \in {TxMask, RxMask}, NEW s,
           s = Core(mask) \/ s = Core(mask) \o Command("WRITE_BUFFER", "")
    PROVE  /\ s \in Seq(Steps)
           /\ Free(s, Starts) /\ Free(s, Asleep) /\ Free(s, Noting(DriverModes))
           /\ Free(s, Doing({"PACKETTYPE"}))
           /\ \A x \in Params : Gives(s, Starts, Doing({x}), Asleep \union Doing({"PACKETTYPE"}))
           /\ Gives(s, Starts, Masking({mask}), Asleep \union Masking({TxMask, RxMask} \ {mask}))
  <1> DEFINE dio == [does |-> "DIOIRQ", with |-> mask]
             mod == [does |-> "MODULATIONPARAMS", with |-> ""]
             pkt == [does |-> "PACKETPARAMS", with |-> ""]
             write == [does |-> "WRITE_BUFFER", with |-> ""]
             Cs == Coring(mask)
             core == <<dio>> \o (<<mod>> \o <<pkt>>)
  <1>1. /\ dio \in Steps /\ mod \in Steps /\ pkt \in Steps /\ write \in Steps
        /\ Core(mask) = core /\ Command("WRITE_BUFFER", "") = <<write>>
    BY CommandStep DEF Plain, Settings, Core, set_params
  <1>2. dio \in Cs /\ mod \in Cs /\ pkt \in Cs /\ write \in Cs
    BY <1>1 DEF Coring, Doing, Masking, With
  <1>3. /\ dio \notin Starts /\ mod \notin Starts /\ pkt \notin Starts
        /\ dio \in Masking({mask}) /\ mod \in Doing({"MODULATIONPARAMS"})
        /\ pkt \in Doing({"PACKETPARAMS"})
    BY <1>1 DEF Doing, Masking, With, Starts
  <1> HIDE DEF dio, mod, pkt, write, Cs
  <1>4. \A v \in Seq(Cs) :
           /\ v \in Seq(Steps)
           /\ Free(v, Starts) /\ Free(v, Asleep) /\ Free(v, Noting(DriverModes))
           /\ Free(v, Doing({"PACKETTYPE"}))
           /\ Free(v, Asleep \union Doing({"PACKETTYPE"}))
           /\ Free(v, Asleep \union Masking({TxMask, RxMask} \ {mask}))
    BY CoringFree DEF Cs
  <1>6. \A x \in Cs : <<x>> \in Seq(Cs)
    BY SequencesClosed
  <1>7. \A v, w \in Seq(Cs) : v \o w \in Seq(Cs)
    BY SequencesClosed
  <1>8. /\ <<dio>> \in Seq(Cs) /\ <<mod>> \in Seq(Cs) /\ <<pkt>> \in Seq(Cs) /\ <<write>> \in Seq(Cs)
        /\ <<mod>> \o <<pkt>> \in Seq(Cs)
    BY <1>2, <1>6, <1>7, Zenon
  <1>9. core \in Seq(Cs) /\ core \o <<write>> \in Seq(Cs)
    BY <1>7, <1>8, Zenon
  <1> HIDE DEF core
  <1>10. s \in Seq(Cs)
    BY <1>1, <1>9
  <1>11. ASSUME NEW good, NEW bad, \A v \in Seq(Cs) : Free(v, bad), Gives(core, Starts, good, bad)
         PROVE  Gives(s, Starts, good, bad)
    <2>1. Gives(core \o <<write>>, Starts, good, bad)
      BY <1>4, <1>8, <1>9, <1>11, GivesLeft
    <2> QED BY <1>1, <1>11, <2>1
  <1>12. ASSUME NEW x \in Params
         PROVE  Gives(s, Starts, Doing({x}), Asleep \union Doing({"PACKETTYPE"}))
    <2> DEFINE Given(v) == Gives(v, Starts, Doing({x}), Asleep \union Doing({"PACKETTYPE"}))
    <2>1. CASE x = "MODULATIONPARAMS"
      <3>1. Given(<<mod>>)
        BY <1>1, <1>3, <2>1, GivesSingle
      <3>2. Given(<<mod>> \o <<pkt>>)
        BY <1>4, <1>8, <3>1, GivesLeft
      <3>3. Given(core)
        BY <1>4, <1>8, <3>2, GivesRight DEF core
      <3> QED BY <1>4, <1>11, <3>3
    <2>2. CASE x = "PACKETPARAMS"
      <3>1. Given(<<pkt>>)
        BY <1>1, <1>3, <2>2, GivesSingle
      <3>2. Given(<<mod>> \o <<pkt>>)
        BY <1>4, <1>8, <3>1, GivesRight
      <3>3. Given(core)
        BY <1>4, <1>8, <3>2, GivesRight DEF core
      <3> QED BY <1>4, <1>11, <3>3
    <2> QED BY <2>1, <2>2 DEF Params
  <1>13. Gives(s, Starts, Masking({mask}), Asleep \union Masking({TxMask, RxMask} \ {mask}))
    <2> DEFINE bad == Asleep \union Masking({TxMask, RxMask} \ {mask})
    <2>1. Gives(<<dio>>, Starts, Masking({mask}), bad)
      BY <1>1, <1>3, GivesSingle
    <2>2. Gives(core, Starts, Masking({mask}), bad)
      BY <1>4, <1>8, <2>1, GivesLeft DEF core
    <2> QED BY <1>4, <1>11, <2>2
  <1> QED BY <1>4, <1>10, <1>12, <1>13

\* A call that transmits or receives.
LEMMA LaunchSteps ==
    ASSUME NEW m \in DriverModes, NEW modem \in Modems, NEW mask \in {TxMask, RxMask},
           NEW x \in Starts, NEW y \in Noting({"TX", "RX"}), x.does = y.with,
           NEW c, c = Core(mask) \/ c = Core(mask) \o Command("WRITE_BUFFER", ""),
           mode = m,
           m \in {"SLEEP", "STDBY_RC"} => chip.mode \in {"sleep", "standby"},
           m # "SLEEP" => Waking \subseteq chip.settings
    PROVE  LET s == (set_channel \o set_config(m, modem)) \o ((c \o <<x>>) \o <<y>>) IN
           /\ s \in Seq(Steps)
           /\ Readied(s, chip, mode) /\ Configuring(s, modem, mask, chip) /\ Launching(s, x, y)
  <1> DEFINE p == set_channel \o set_config(m, modem)
             cx == c \o <<x>>
             l == cx \o <<y>>
             s == p \o l
  <1>1. /\ p \in Seq(Preparing(modem)) /\ p \in Seq(Steps) /\ c \in Seq(Steps)
        /\ x \in Steps /\ y \in Steps
    BY PreambleSteps, PreparingFree, CoreSteps DEF Starts, Doing, Noting, With
  <1>2. /\ x.does \in {"TX", "RX"} /\ y.does = "operation_mode" /\ y.with \in {"TX", "RX"}
    BY DEF Starts, Doing, Noting, With
  <1>3. /\ x \notin Asleep /\ y \notin Asleep /\ y \notin Starts
        /\ x \notin Noting(DriverModes) /\ y \notin Noting({"SLEEP"}) /\ y \notin Noting({"STDBY_RC"})
        /\ x \notin Doing({"PACKETTYPE"}) /\ y \notin Doing({"PACKETTYPE"})
        /\ x \notin Doing({"DIOIRQ"}) /\ y \notin Doing({"DIOIRQ"})
        /\ y \notin Calming /\ y \notin Doing({"TX"}) /\ y \notin Doing({"RX"})
    BY <1>2 DEF Asleep, Starts, Doing, Noting, With, Calming
  <1> HIDE DEF p, cx, l, s
  <1>4. cx \in Seq(Steps) /\ <<x>> \in Seq(Steps) /\ <<y>> \in Seq(Steps)
    BY <1>1, SingleStep, ConcatIndex DEF cx
  <1>5. l \in Seq(Steps)
    BY <1>4, ConcatIndex DEF l
  <1>6. s \in Seq(Steps)
    BY <1>1, <1>5, ConcatIndex DEF s
  <1>7. ASSUME NEW bad, x \notin bad, y \notin bad, Free(c, bad)
        PROVE  Free(l, bad) /\ (Free(p, bad) => Free(s, bad))
    <2>1. Free(<<x>>, bad) /\ Free(<<y>>, bad)
      BY <1>1, <1>7, SingleStep
    <2>2. Free(cx, bad)
      BY <1>1, <1>4, <1>7, <2>1, FreeConcat DEF cx
    <2>3. Free(l, bad)
      BY <1>4, <2>1, <2>2, FreeConcat DEF l
    <2> QED BY <1>1, <1>5, <2>3, FreeConcat DEF s
  <1>8. /\ Free(p, Starts) /\ Free(p, Doing({"TX"})) /\ Free(p, Doing({"RX"})) /\ Free(p, Asleep)
        /\ Free(p, Stirring) /\ Free(p, Noting({"TX"})) /\ Free(p, Noting({"RX"}))
        /\ Free(p, Noting({"SLEEP"}))
    BY <1>1, PreparingFree DEF Stirring
  <1>9. /\ Free(c, Starts) /\ Free(c, Asleep) /\ Free(c, Noting(DriverModes))
        /\ Free(c, Doing({"PACKETTYPE"}))
    BY CoreSteps
  <1>10. ASSUME NEW modes \in SUBSET DriverModes
         PROVE  Free(c, Noting(modes)) /\ x \notin Noting(modes)
    <2>1. Noting(modes) \subseteq Noting(DriverModes)
      BY DEF Noting, With
    <2> QED BY <1>3, <1>9, <2>1 DEF Free
  <1>11. Free(s, Asleep) /\ Free(s, Noting({"SLEEP"})) /\ Free(l, Asleep)
    BY <1>3, <1>7, <1>8, <1>9, <1>10 DEF DriverModes
  \* What y does not need, and what only x and y undo.
  <1>12. ASSUME NEW need, NEW good, NEW bad, Free(c, bad), y \notin need
         PROVE  Safe(l, need, good, bad)
    <2>1. Safe(c, need, good, bad) /\ Safe(<<x>>, need, good, bad)
      BY <1>1, <1>12, FreeSafe, SingleStep
    <2>2. Safe(cx, need, good, bad)
      BY <1>1, <1>4, <1>12, <2>1, SafeConcat DEF cx
    <2>3. Provided(<<y>>, need, good, bad)
      BY <1>1, <1>12, SingleStep, FreeReady
    <2> QED BY <1>4, <2>2, <2>3, SafeConcat DEF l
  <1>13. ASSUME NEW need, NEW good, NEW bad, Free(p, bad), Safe(l, need, good, bad)
         PROVE  Safe(s, need, good, bad)
    BY <1>1, <1>5, <1>13, FreeSafe, SafeConcat DEF s
  <1>14. ASSUME NEW need, NEW good, NEW bad, Provided(p, need, good, bad), Ends(p, good, bad),
                Safe(l, need, good, bad)
         PROVE  Provided(s, need, good, bad)
    BY <1>1, <1>5, <1>14, ProvidedConcat DEF s
  <1>15. Ready(s, Calming, Standing, Starts, chip.mode \in {"sleep", "standby"})
    <2>1. Safe(l, Calming, Standing, Starts)
      BY <1>3, <1>9, <1>12
    <2>2. CASE m \in {"TX", "RX"}
      BY <1>14, <2>1, <2>2, PreambleSteps DEF Ready, p
    <2>3. CASE m \in {"SLEEP", "STDBY_RC"}
      BY <1>8, <1>13, <2>1, <2>3 DEF Ready
    <2> QED BY <2>2, <2>3 DEF DriverModes
  <1>16. Ready(s, Starts, Noting({"STDBY_RC"}), Stirring, mode = "STDBY_RC")
    <2>1. Safe(l, Starts, Noting({"STDBY_RC"}), Stirring)
      BY <1>3, <1>10, <1>12 DEF Stirring, DriverModes
    <2>2. CASE m = "STDBY_RC"
      BY <1>8, <1>13, <2>1, <2>2 DEF Ready
    <2>3. CASE m # "STDBY_RC"
      BY <1>8, <1>14, <2>1, <2>3, PreambleSteps, FreeReady DEF Ready, p
    <2> QED BY <2>2, <2>3
  <1>17. ASSUME NEW w \in Waking PROVE Ready(s, Awakened, Doing({w}), Asleep, w \in chip.settings)
    <2>1. CASE m = "SLEEP"
      BY <1>1, <1>5, <1>11, <2>1, PreambleSteps, GivesLeft DEF Ready, Gives, p, s
    <2>2. CASE m # "SLEEP"
      BY <1>6, <1>11, <2>2, FreeSafe DEF Ready
    <2> QED BY <2>1, <2>2
  <1>18. /\ Ready(s, Noting({"TX"}), Standing, Doing({"RX"}), chip.mode \notin {"rx", "rx_continuous"})
         /\ Ready(s, Noting({"RX"}), Standing, Doing({"TX"}), chip.mode # "tx")
    <2>1. ASSUME NEW noted \in {"TX", "RX"}, NEW other \in {"TX", "RX"}, noted # other
          PROVE  \/ Provided(s, Noting({noted}), Standing, Doing({other}))
                 \/ /\ chip.mode \in {"sleep", "standby"}
                    /\ Safe(s, Noting({noted}), Standing, Doing({other}))
      <3>1. CASE y.with # noted
        <4>1. y \notin Noting({noted})
          BY <3>1 DEF Noting, With
        <4>2. Free(s, Noting({noted}))
          BY <1>7, <1>8, <1>10, <4>1 DEF DriverModes
        <4> QED BY <4>2, FreeReady
      <3>2. CASE y.with = noted
        <4>1. x \notin Doing({other}) /\ y \notin Doing({other}) /\ Doing({other}) \subseteq Starts
          BY <1>2, <2>1, <3>2 DEF Doing, Starts
        <4>2. Free(c, Doing({other}))
          BY <1>9, <4>1 DEF Free
        <4>3. Free(l, Doing({other})) /\ Free(p, Doing({other})) /\ Free(s, Doing({other}))
          BY <1>7, <1>8, <4>1, <4>2
        <4>4. CASE m \in {"TX", "RX"}
          <5>1. Ends(p, Standing, Doing({other}))
            BY <4>1, <4>4, PreambleSteps, EndsWeaker DEF p
          <5>2. Provided(p, Noting({noted}), Standing, Doing({other}))
            BY <1>8, FreeReady
          <5>3. Safe(l, Noting({noted}), Standing, Doing({other}))
            BY <1>5, <4>3, FreeSafe
          <5> QED BY <1>14, <5>1, <5>2, <5>3
        <4>5. CASE m \in {"SLEEP", "STDBY_RC"}
          BY <1>6, <4>3, <4>5, FreeSafe
        <4> QED BY <4>4, <4>5 DEF DriverModes
      <3> QED BY <3>1, <3>2
    <2>2. chip.mode \in {"sleep", "standby"} => chip.mode \notin {"rx", "rx_continuous"} /\ chip.mode # "tx"
      OBVIOUS
    <2> QED BY <2>1, <2>2 DEF Ready
  <1>19. Configuring(s, modem, mask, chip)
    <2>1. Provided(s, Starts, Typing({modem}), Asleep \union Typing(Modems \ {modem}))
      <3>1. /\ x \notin Asleep \union Typing(Modems \ {modem})
            /\ y \notin Asleep \union Typing(Modems \ {modem})
        BY <1>2, <1>3 DEF Typing, With
      <3>2. Free(c, Asleep \union Typing(Modems \ {modem}))
        <4>1. Typing(Modems \ {modem}) \subseteq Doing({"PACKETTYPE"})
          BY DEF Typing, With, Doing
        <4> QED BY <1>9, <4>1 DEF Free
      <3> QED BY <1>1, <1>5, <1>7, <3>1, <3>2, PreambleSteps, GivesLeft DEF Gives, p, s
    <2>2. ASSUME NEW w \in Required(modem) PROVE Provided(s, Starts, Doing({w}), Asleep)
      BY <1>1, <1>5, <1>11, PreambleSteps, GivesLeft DEF Gives, Required, p, s
    <2>3. ASSUME NEW w \in Params
          PROVE  Provided(s, Starts, Doing({w}), Asleep \union Doing({"PACKETTYPE"}))
      <3> DEFINE bad == Asleep \union Doing({"PACKETTYPE"})
      <3>1. Gives(c, Starts, Doing({w}), bad)
        BY CoreSteps
      <3>2. Free(<<x>>, bad) /\ Free(<<y>>, bad)
        BY <1>1, <1>3, SingleStep
      <3>3. Gives(cx, Starts, Doing({w}), bad)
        BY <1>1, <1>4, <3>1, <3>2, GivesLeft DEF cx
      <3>4. Gives(l, Starts, Doing({w}), bad)
        BY <1>4, <3>2, <3>3, GivesLeft DEF l
      <3> QED BY <1>1, <1>5, <1>8, <3>4, GivesRight DEF Gives, s
    <2>4. Provided(s, Starts, Masking({mask}), Asleep \union Masking({TxMask, RxMask} \ {mask}))
      <3> DEFINE bad == Asleep \union Masking({TxMask, RxMask} \ {mask})
      <3>1. Gives(c, Starts, Masking({mask}), bad)
        BY CoreSteps
      <3>2. Free(<<x>>, bad) /\ Free(<<y>>, bad)
        <4>1. x \notin bad /\ y \notin bad
          BY <1>2, <1>3 DEF Masking, With
        <4> QED BY <1>1, <4>1, SingleStep
      <3>3. Gives(cx, Starts, Masking({mask}), bad)
        BY <1>1, <1>4, <3>1, <3>2, GivesLeft DEF cx
      <3>4. Gives(l, Starts, Masking({mask}), bad)
        BY <1>4, <3>2, <3>3, GivesLeft DEF l
      <3> QED BY <1>1, <1>5, <1>8, <3>4, GivesRight DEF Gives, s
    <2> QED BY <2>1, <2>2, <2>3, <2>4 DEF Configuring, Ready
  <1>20. Launching(s, x, y)
    BY <1>1, <1>3, <1>8, <1>9, LaunchingConcat DEF s, l, cx
  <1> QED BY <1>6, <1>11, <1>15, <1>16, <1>17, <1>18, <1>19, <1>20 DEF Readied, s, l, cx, p

\* put_radio_to_standby(), which neither starts nor masks anything.
LEMMA StandbyCall ==
    ASSUME NEW m \in DriverModes \ {"STDBY_RC"}, NEW modem \in Modems, mode = m,
           m = "SLEEP" => chip.mode \in {"sleep", "standby"},
           m # "SLEEP" => Waking \subseteq chip.settings
    PROVE  LET s == standby(m, modem) IN
           /\ s \in Seq(Steps) /\ s # <<>> /\ s[Len(s)].does = "operation_mode"
           /\ Readied(s, chip, mode) /\ Free(s, Starts)
  <1> DEFINE s == standby(m, modem)
  <1>1. /\ s \in Seq(Preparing(modem)) /\ s # <<>> /\ s[Len(s)].does = "operation_mode"
        /\ m \in {"TX", "RX"} => Gives(s, Calming, Standing, Starts)
        /\ \A x \in Waking : m = "SLEEP" => Gives(s, Awakened, Doing({x}), Asleep)
    BY StandbySteps
  <1> HIDE DEF s
  <1>2. /\ s \in Seq(Steps) /\ Free(s, Starts) /\ Free(s, Asleep) /\ Free(s, Noting({"SLEEP"}))
        /\ Free(s, Noting({"TX"})) /\ Free(s, Noting({"RX"}))
    BY <1>1, PreparingFree
  <1>3. Ready(s, Calming, Standing, Starts, chip.mode \in {"sleep", "standby"})
    <2>1. CASE m \in {"TX", "RX"}
      BY <1>1, <2>1 DEF Ready, Gives
    <2>2. CASE m = "SLEEP"
      BY <1>2, <2>2, FreeSafe DEF Ready
    <2> QED BY <2>1, <2>2 DEF DriverModes
  <1>4. /\ Ready(s, Noting({"TX"}), Standing, Doing({"RX"}), chip.mode \notin {"rx", "rx_continuous"})
        /\ Ready(s, Noting({"RX"}), Standing, Doing({"TX"}), chip.mode # "tx")
        /\ Ready(s, Starts, Noting({"STDBY_RC"}), Stirring, mode = "STDBY_RC")
    BY <1>2, FreeReady DEF Ready
  <1>5. ASSUME NEW x \in Waking PROVE Ready(s, Awakened, Doing({x}), Asleep, x \in chip.settings)
    <2>1. CASE m = "SLEEP"
      BY <1>1, <2>1 DEF Ready, Gives
    <2>2. CASE m # "SLEEP"
      BY <1>2, <2>2, FreeSafe DEF Ready
    <2> QED BY <2>1, <2>2
  <1> QED BY <1>1, <1>2, <1>3, <1>4, <1>5 DEF Readied, s

\* get_radio_rng(), from sleep.
LEMMA RandomCall ==
    ASSUME mode = "SLEEP", chip.mode \in {"sleep", "standby"}
    PROVE  LET s == random("SLEEP") IN
           /\ s \in Seq(Steps) /\ s # <<>>
           /\ s[Len(s)].does = "operation_mode" /\ s[Len(s)].with = "STDBY_RC"
           /\ Readied(s, chip, mode) /\ Free(s, Doing({"DIOIRQ"}))
  <1> DEFINE receive_ == [does |-> "RX", with |-> "rx_continuous"]
             note_rx == [does |-> "operation_mode", with |-> "RX"]
             read == [does |-> "READ_REGISTER", with |-> ""]
             stand == [does |-> "STANDBY", with |-> ""]
             note == [does |-> "operation_mode", with |-> "STDBY_RC"]
             u == set_modem("SLEEP", "LORA")
             u1 == u \o <<receive_>>
             u2 == u1 \o <<note_rx>>
             u3 == u2 \o <<read>>
             u4 == u3 \o <<stand>>
             s == u4 \o <<note>>
  <1>1. /\ receive_ \in Steps /\ note_rx \in Steps /\ read \in Steps /\ stand \in Steps
        /\ note \in Steps
        /\ random("SLEEP") = s
    BY CommandStep DEF Plain, DriverModes, random
  <1>2. /\ u \in Seq(Preparing("LORA")) /\ Ends(u, Noting({"STDBY_RC"}), Stirring)
        /\ \A x \in Waking : Gives(u, Awakened, Doing({x}), Asleep)
    BY PreambleSteps DEF Modems, DriverModes
  <1>3. /\ u \in Seq(Steps) /\ Free(u, Starts) /\ Free(u, Asleep) /\ Free(u, Noting({"SLEEP"}))
        /\ Free(u, Noting({"TX"})) /\ Free(u, Doing({"TX"})) /\ Free(u, Doing({"DIOIRQ"}))
    BY <1>2, PreparingFree DEF Modems
  <1>4. /\ \A x \in {receive_, note_rx, read, stand, note} :
              /\ x \notin Asleep /\ x \notin Noting({"SLEEP"}) /\ x \notin Noting({"TX"})
              /\ x \notin Doing({"TX"}) /\ x \notin Doing({"DIOIRQ"})
        /\ note_rx \notin Starts /\ read \notin Starts /\ stand \notin Starts /\ note \notin Starts
        /\ note_rx \notin Calming /\ read \notin Calming /\ stand \notin Calming
        /\ stand \in Standing
    <2>1. /\ receive_.does = "RX" /\ note_rx.does = "operation_mode" /\ note_rx.with = "RX"
          /\ read.does = "READ_REGISTER" /\ stand.does = "STANDBY"
          /\ note.does = "operation_mode" /\ note.with = "STDBY_RC"
      OBVIOUS
    <2>2. stand \in Standing
      BY <1>1 DEF Standing, Doing
    <2> HIDE DEF receive_, note_rx, read, stand, note
    <2>3. \A x \in {receive_, note_rx, read, stand, note} :
             /\ x.does \notin {"SLEEP", "TX", "DIOIRQ"}
             /\ x.does = "operation_mode" => x.with \in {"RX", "STDBY_RC"}
      BY <2>1
    <2> QED BY <2>1, <2>2, <2>3 DEF Asleep, Noting, Doing, With, Starts, Calming
  <1>5. note.does = "operation_mode" /\ note.with = "STDBY_RC"
    OBVIOUS
  <1> HIDE DEF receive_, note_rx, read, stand, note, u, u1, u2, u3, u4, s
  <1>6. /\ <<receive_>> \in Seq(Steps) /\ <<note_rx>> \in Seq(Steps) /\ <<read>> \in Seq(Steps)
        /\ <<stand>> \in Seq(Steps) /\ <<note>> \in Seq(Steps)
    BY <1>1, SingleStep
  <1>7. u1 \in Seq(Steps) /\ u2 \in Seq(Steps)
    BY <1>3, <1>6, ConcatIndex DEF u1, u2
  <1>8. u3 \in Seq(Steps) /\ u4 \in Seq(Steps)
    BY <1>6, <1>7, ConcatIndex DEF u3, u4
  <1>9. s \in Seq(Steps) /\ s # <<>> /\ s[Len(s)] = note
    BY <1>1, <1>8, LastStep DEF s
  <1>10. ASSUME NEW bad, Free(u, bad), \A x \in {receive_, note_rx, read, stand, note} : x \notin bad
         PROVE  Free(s, bad)
    <2>1. \A x \in {receive_, note_rx, read, stand, note} : Free(<<x>>, bad)
      BY <1>1, <1>10, SingleStep
    <2>2. Free(u1, bad)
      BY <1>3, <1>6, <1>10, <2>1, FreeConcat DEF u1
    <2>3. Free(u2, bad)
      BY <1>6, <1>7, <2>1, <2>2, FreeConcat DEF u2
    <2>4. Free(u3, bad)
      BY <1>6, <1>7, <2>1, <2>3, FreeConcat DEF u3
    <2>5. Free(u4, bad)
      BY <1>6, <1>8, <2>1, <2>4, FreeConcat DEF u4
    <2> QED BY <1>6, <1>8, <2>1, <2>5, FreeConcat DEF s
  <1>11. /\ Free(s, Asleep) /\ Free(s, Noting({"SLEEP"})) /\ Free(s, Noting({"TX"}))
         /\ Free(s, Doing({"TX"})) /\ Free(s, Doing({"DIOIRQ"}))
    BY <1>3, <1>4, <1>10
  <1>12. Ready(s, Calming, Standing, Starts, chip.mode \in {"sleep", "standby"})
    <2> DEFINE Kept(v) == Safe(v, Calming, Standing, Starts)
    <2>1. Kept(u1)
      BY <1>1, <1>3, <1>6, FreeSafe, SingleStep, SafeConcat DEF u1
    <2>2. /\ Provided(<<note_rx>>, Calming, Standing, Starts)
          /\ Provided(<<read>>, Calming, Standing, Starts)
          /\ Provided(<<stand>>, Calming, Standing, Starts)
      BY <1>1, <1>4, SingleStep, FreeReady
    <2>3. Kept(u2)
      BY <1>6, <1>7, <2>1, <2>2, SafeConcat DEF u2
    <2>4. Kept(u3)
      BY <1>6, <1>7, <2>2, <2>3, SafeConcat DEF u3
    <2>5. Kept(u4)
      BY <1>6, <1>8, <2>2, <2>4, SafeConcat DEF u4
    <2>6. Ends(u4, Standing, Starts)
      BY <1>1, <1>4, <1>6, <1>8, SingleStep, EndsConcat DEF u4
    <2>7. Kept(s)
      BY <1>1, <1>6, <1>8, <2>5, <2>6, SingleStep, SafeConcat DEF s
    <2> QED BY <2>7 DEF Ready
  <1>13. Ready(s, Starts, Noting({"STDBY_RC"}), Stirring, mode = "STDBY_RC")
    <2> DEFINE Given(v) == Provided(v, Starts, Noting({"STDBY_RC"}), Stirring)
    <2>1. Given(u1)
      BY <1>1, <1>2, <1>3, <1>6, FreeReady, SingleStep, ProvidedConcat DEF u1
    <2>2. Given(<<note_rx>>) /\ Given(<<read>>) /\ Given(<<stand>>) /\ Given(<<note>>)
      BY <1>1, <1>4, SingleStep, FreeReady
    <2>3. Given(u2)
      BY <1>6, <1>7, <2>1, <2>2, ProvidedConcat DEF u2
    <2>4. Given(u3)
      BY <1>6, <1>7, <2>2, <2>3, ProvidedConcat DEF u3
    <2>5. Given(u4)
      BY <1>6, <1>8, <2>2, <2>4, ProvidedConcat DEF u4
    <2>6. Given(s)
      BY <1>6, <1>8, <2>2, <2>5, ProvidedConcat DEF s
    <2> QED BY <2>6 DEF Ready
  <1>14. ASSUME NEW x \in Waking PROVE Ready(s, Awakened, Doing({x}), Asleep, x \in chip.settings)
    <2> DEFINE Given(v) == Gives(v, Awakened, Doing({x}), Asleep)
    <2>1. \A y \in {receive_, note_rx, read, stand, note} : Free(<<y>>, Asleep)
      BY <1>1, <1>4, SingleStep
    <2>2. Given(u1)
      BY <1>2, <1>3, <1>6, <2>1, GivesLeft DEF u1
    <2>3. Given(u2)
      BY <1>6, <1>7, <2>1, <2>2, GivesLeft DEF u2
    <2>4. Given(u3)
      BY <1>6, <1>7, <2>1, <2>3, GivesLeft DEF u3
    <2>5. Given(u4)
      BY <1>6, <1>8, <2>1, <2>4, GivesLeft DEF u4
    <2>6. Given(s)
      BY <1>6, <1>8, <2>1, <2>5, GivesLeft DEF s
    <2> QED BY <2>6 DEF Ready, Gives
  <1>15. /\ Ready(s, Noting({"TX"}), Standing, Doing({"RX"}), chip.mode \notin {"rx", "rx_continuous"})
         /\ Ready(s, Noting({"RX"}), Standing, Doing({"TX"}), chip.mode # "tx")
    BY <1>9, <1>11, FreeReady, FreeSafe DEF Ready
  <1> QED BY <1>1, <1>5, <1>9, <1>11, <1>12, <1>13, <1>14, <1>15 DEF Readied

-----------------------------------------------------------------------------
(* What a step does *)

Calm(c) == c.mode \in {"sleep", "standby"}

\* A step h of a call takes chip and _operation_mode from c and m to after and noted.
Takes(h, c, m, after, noted) ==
    /\ h.does = "operation_mode" => after = c /\ noted = h.with
    /\ h.does # "operation_mode" => after = Execute(c, h) /\ noted = m

\* The fields of the chip after a command.
LEMMA ExecuteEffects ==
    ASSUME NEW c \in Chips, NEW h \in Steps
    PROVE  LET after == Execute(c, h) IN
           /\ h.does = "SLEEP" => after = Cold("sleep")
           /\ h.does \in {"STANDBY", "SLEEP"} => Calm(after)
           /\ h.does = "TX" => after.mode = "tx"
           /\ h.does = "RX" => after.mode = h.with
           /\ h.does \notin {"TX", "RX"} => after.mode = c.mode \/ Calm(after)
           /\ h.does = "PACKETTYPE" =>
                 after.type \in {c.type, h.with} /\ (Calm(c) => after.type = h.with)
           /\ h.does \notin {"SLEEP", "PACKETTYPE"} =>
                 after.type = c.type /\ c.settings \subseteq after.settings
           /\ h.does # "SLEEP" => c.settings \ Params \subseteq after.settings
           /\ h.does \in Settings => h.does \in after.settings
           /\ h.does = "DIOIRQ" => after.mask = h.with
           /\ h.does \notin {"SLEEP", "DIOIRQ"} => after.mask = c.mask
           /\ h.does = "SYNCWORD" => after.syncword = Network
           /\ h.does \notin {"SLEEP", "SYNCWORD"} => after.syncword = c.syncword
           /\ h.does # "SLEEP" => after.irq = c.irq /\ after.ended = c.ended
  <1> DEFINE a == Awake(c)
             after == Execute(c, h)
             settled == [a EXCEPT !.mode = "standby"]
             typed == IF a.mode = "standby"
                      THEN [a EXCEPT !.type = h.with,
                                     !.settings = @ \ {"MODULATIONPARAMS", "PACKETPARAMS"}]
                      ELSE a
             synced == [a EXCEPT !.syncword = h.with]
             masked == [a EXCEPT !.mask = h.with]
             emptied == [a EXCEPT !.fifo = 0]
             sending == [a EXCEPT !.mode = "tx"]
             receiving == [a EXCEPT !.mode = h.with]
             set == [a EXCEPT !.settings = @ \union {h.does}]
  <1>1. /\ a \in Chips
        /\ a.type = c.type /\ a.syncword = c.syncword /\ a.settings = c.settings
        /\ a.mask = c.mask /\ a.irq = c.irq /\ a.ended = c.ended
        /\ a.mode = c.mode \/ a.mode = "standby"
        /\ Calm(c) => a.mode = "standby"
    BY AwakeTyped DEF Awake, Chips, Calm
  <1>2. after =
            CASE h.does = "SLEEP" -> Cold("sleep")
              [] h.does = "STANDBY" -> settled
              [] h.does = "PACKETTYPE" -> typed
              [] h.does = "SYNCWORD" -> synced
              [] h.does = "DIOIRQ" -> masked
              [] h.does = "WRITE_BUFFER" -> emptied
              [] h.does = "TX" -> sending
              [] h.does = "RX" -> receiving
              [] h.does \in Settings -> set
              [] OTHER -> a
    BY DEF Execute, Awake
  <1> HIDE DEF a, after, settled, typed, synced, masked, emptied, sending, receiving, set
  <1>3. h.does \in Settings => h.does \notin {"SLEEP", "STANDBY", "PACKETTYPE", "SYNCWORD",
                                              "DIOIRQ", "WRITE_BUFFER", "TX", "RX"}
    BY DEF Settings
  <1> SUFFICES /\ h.does = "SLEEP" => after = Cold("sleep")
               /\ h.does \in {"STANDBY", "SLEEP"} => Calm(after)
               /\ h.does = "TX" => after.mode = "tx"
               /\ h.does = "RX" => after.mode = h.with
               /\ h.does \notin {"TX", "RX"} => after.mode = c.mode \/ Calm(after)
               /\ h.does = "PACKETTYPE" =>
                     after.type \in {c.type, h.with} /\ (Calm(c) => after.type = h.with)
               /\ h.does \notin {"SLEEP", "PACKETTYPE"} =>
                     after.type = c.type /\ c.settings \subseteq after.settings
               /\ h.does # "SLEEP" => c.settings \ Params \subseteq after.settings
               /\ h.does \in Settings => h.does \in after.settings
               /\ h.does = "DIOIRQ" => after.mask = h.with
               /\ h.does \notin {"SLEEP", "DIOIRQ"} => after.mask = c.mask
               /\ h.does = "SYNCWORD" => after.syncword = Network
               /\ h.does \notin {"SLEEP", "SYNCWORD"} => after.syncword = c.syncword
               /\ h.does # "SLEEP" => after.irq = c.irq /\ after.ended = c.ended
    BY DEF after
  <1>4. CASE h.does = "SLEEP"
    BY <1>2, <1>3, <1>4 DEF Cold, Calm
  <1>5. CASE h.does = "STANDBY"
    <2>1. after = settled
      BY <1>2, <1>3, <1>5
    <2> QED BY <1>1, <1>3, <1>5, <2>1 DEF Chips, settled, Calm
  <1>6. CASE h.does = "PACKETTYPE"
    <2>1. after = typed
      BY <1>2, <1>3, <1>6
    <2> QED BY <1>1, <1>3, <1>6, <2>1 DEF Chips, typed, Calm, Params
  <1>7. CASE h.does = "SYNCWORD"
    <2>1. after = synced
      BY <1>2, <1>3, <1>7
    <2> QED BY <1>1, <1>3, <1>7, <2>1, StepCases DEF Chips, synced, Calm
  <1>8. CASE h.does = "DIOIRQ"
    <2>1. after = masked
      BY <1>2, <1>3, <1>8
    <2> QED BY <1>1, <1>3, <1>8, <2>1 DEF Chips, masked, Calm
  <1>9. CASE h.does = "WRITE_BUFFER"
    <2>1. after = emptied
      BY <1>2, <1>3, <1>9
    <2> QED BY <1>1, <1>3, <1>9, <2>1 DEF Chips, emptied, Calm
  <1>10. CASE h.does = "TX"
    <2>1. after = sending
      BY <1>2, <1>3, <1>10
    <2> QED BY <1>1, <1>3, <1>10, <2>1 DEF Chips, sending, Calm
  <1>11. CASE h.does = "RX"
    <2>1. after = receiving
      BY <1>2, <1>3, <1>11
    <2> QED BY <1>1, <1>3, <1>11, <2>1 DEF Chips, receiving, Calm
  <1>12. CASE h.does \in Settings
    <2>1. after = set
      BY <1>2, <1>3, <1>12
    <2> QED BY <1>1, <1>3, <1>12, <2>1 DEF Chips, set, Calm
  <1>13. CASE h.does \notin Settings \union {"SLEEP", "STANDBY", "PACKETTYPE", "SYNCWORD",
                                     "DIOIRQ", "WRITE_BUFFER", "TX", "RX"}
    <2>1. after = a
      BY <1>2, <1>13
    <2> QED BY <1>1, <1>13, <2>1 DEF Calm
  <1> QED BY <1>4, <1>5, <1>6, <1>7, <1>8, <1>9, <1>10, <1>11, <1>12, <1>13

\* The same, with the sets of steps that matter.
LEMMA TakesEffects ==
    ASSUME NEW c \in Chips, NEW m \in DriverModes, NEW h \in Steps, NEW after, NEW noted,
           Takes(h, c, m, after, noted)
    PROVE  /\ after \in Chips /\ noted \in DriverModes
           /\ h \in Standing \union Asleep => Calm(after)
           /\ h \notin Starts => after.mode = c.mode \/ Calm(after)
           /\ h \in Doing({"TX"}) => after.mode = "tx"
           /\ h \in Doing({"RX"}) => after.mode \in {"rx", "rx_continuous"} /\ after.mode = h.with
           /\ \A modes : h \in Noting(modes) => noted \in modes /\ after = c
           /\ h.does # "operation_mode" => noted = m
           /\ \A modems : h \in Typing(modems) =>
                 after.type \in modems \union {c.type} /\ (Calm(c) => after.type \in modems)
           /\ h \notin Asleep \union Doing({"PACKETTYPE"}) =>
                 after.type = c.type /\ c.settings \subseteq after.settings
           /\ h \notin Asleep => c.settings \ Params \subseteq after.settings
           /\ \A x \in Settings : h \in Doing({x}) => x \in after.settings
           /\ \A masks : h \in Masking(masks) => after.mask \in masks
           /\ h \notin Asleep \union Doing({"DIOIRQ"}) => after.mask = c.mask
           /\ h \notin Asleep /\ c.syncword = Network => after.syncword = Network
           /\ h \notin Asleep => after.irq = c.irq /\ after.ended = c.ended
  <1>1. /\ h \in Standing <=> h.does = "STANDBY"
        /\ h \in Asleep <=> h.does = "SLEEP"
        /\ h \in Starts <=> h.does \in {"TX", "RX"}
        /\ h \in Doing({"TX"}) <=> h.does = "TX"
        /\ h \in Doing({"RX"}) <=> h.does = "RX"
        /\ h \in Doing({"PACKETTYPE"}) <=> h.does = "PACKETTYPE"
        /\ h \in Doing({"DIOIRQ"}) <=> h.does = "DIOIRQ"
    BY DEF Standing, Asleep, Starts, Doing
  <1>2. /\ \A modes : h \in Noting(modes) <=> h.does = "operation_mode" /\ h.with \in modes
        /\ \A modems : h \in Typing(modems) <=> h.does = "PACKETTYPE" /\ h.with \in modems
        /\ \A masks : h \in Masking(masks) <=> h.does = "DIOIRQ" /\ h.with \in masks
        /\ \A x : h \in Doing({x}) <=> h.does = x
    BY DEF Noting, Typing, Masking, With, Doing
  <1>3. CASE h.does = "operation_mode"
    <2>1. after = c /\ noted = h.with /\ noted \in DriverModes
      BY <1>3, StepCases DEF Takes
    <2>2. "operation_mode" \notin Settings
      BY DEF Settings
    <2> HIDE DEF Steps
    <2> QED BY <1>1, <1>2, <1>3, <2>1, <2>2
  <1>4. CASE h.does # "operation_mode"
    <2>1. after = Execute(c, h) /\ noted = m
      BY <1>4 DEF Takes
    <2>2. after \in Chips
      BY <2>1, ExecuteTyped
    <2>3. /\ h.does \in {"STANDBY", "SLEEP"} => Calm(after)
          /\ h.does = "TX" => after.mode = "tx"
          /\ h.does = "RX" => after.mode = h.with
          /\ h.does \notin {"TX", "RX"} => after.mode = c.mode \/ Calm(after)
          /\ h.does = "PACKETTYPE" =>
                after.type \in {c.type, h.with} /\ (Calm(c) => after.type = h.with)
          /\ h.does \notin {"SLEEP", "PACKETTYPE"} =>
                after.type = c.type /\ c.settings \subseteq after.settings
          /\ h.does # "SLEEP" => c.settings \ Params \subseteq after.settings
          /\ h.does \in Settings => h.does \in after.settings
          /\ h.does = "DIOIRQ" => after.mask = h.with
          /\ h.does \notin {"SLEEP", "DIOIRQ"} => after.mask = c.mask
          /\ h.does = "SYNCWORD" => after.syncword = Network
          /\ h.does \notin {"SLEEP", "SYNCWORD"} => after.syncword = c.syncword
          /\ h.does # "SLEEP" => after.irq = c.irq /\ after.ended = c.ended
      BY <2>1, ExecuteEffects
    <2>4. h.does = "RX" => h.with \in {"rx", "rx_continuous"}
      BY StepCases
    <2> HIDE DEF Steps
    <2> QED BY <1>1, <1>2, <1>4, <2>1, <2>2, <2>3, <2>4
  <1> QED BY <1>3, <1>4

\* Both conditions are kept by every step, and give what the step relies on.
LEMMA ReadiedStep ==
    ASSUME NEW c \in Chips, NEW m \in DriverModes, NEW s \in Seq(Steps), s # <<>>,
           NEW after, NEW noted, Takes(Head(s), c, m, after, noted), Readied(s, c, m)
    PROVE  /\ Readied(Tail(s), after, noted)
           /\ Head(s) \notin Asleep /\ Head(s) \notin Noting({"SLEEP"})
           /\ Head(s) \in Calming => Calm(c)
           /\ Head(s) \in Noting({"TX"}) => c.mode \notin {"rx", "rx_continuous"}
           /\ Head(s) \in Noting({"RX"}) => c.mode # "tx"
           /\ Head(s) \in Starts => m = "STDBY_RC"
           /\ Head(s) \in Awakened => Waking \subseteq c.settings
  <1> DEFINE h == Head(s)
             t == Tail(s)
  <1>1. h \in Steps /\ t \in Seq(Steps)
    OBVIOUS
  <1>2. \A bad : Free(s, bad) => h \notin bad /\ Free(t, bad)
    BY FreeTail
  <1>3. \A need, good, bad :
           /\ Provided(s, need, good, bad) => h \notin need /\ Safe(t, need, good, bad)
           /\ Provided(s, need, good, bad) /\ h \notin good => Provided(t, need, good, bad)
           /\ Safe(s, need, good, bad) => Safe(t, need, good, bad)
           /\ Safe(s, need, good, bad) /\ h \notin good /\ h \in bad
                  => Provided(t, need, good, bad)
    BY Advance
  <1> HIDE DEF h, t
  <1>4. /\ after \in Chips /\ noted \in DriverModes
        /\ h \in Standing => Calm(after)
        /\ h \notin Starts => after.mode = c.mode \/ Calm(after)
        /\ h \in Doing({"TX"}) => after.mode = "tx"
        /\ h \in Doing({"RX"}) => after.mode \in {"rx", "rx_continuous"}
        /\ \A modes : h \in Noting(modes) => noted \in modes /\ after = c
        /\ h.does # "operation_mode" => noted = m
        /\ h \notin Asleep => c.settings \ Params \subseteq after.settings
        /\ \A x \in Settings : h \in Doing({x}) => x \in after.settings
    BY <1>1, TakesEffects DEF h
  <1>5. /\ Free(s, Asleep) /\ Free(s, Noting({"SLEEP"}))
        /\ Ready(s, Calming, Standing, Starts, c.mode \in {"sleep", "standby"})
        /\ Ready(s, Noting({"TX"}), Standing, Doing({"RX"}), c.mode \notin {"rx", "rx_continuous"})
        /\ Ready(s, Noting({"RX"}), Standing, Doing({"TX"}), c.mode # "tx")
        /\ Ready(s, Starts, Noting({"STDBY_RC"}), Stirring, m = "STDBY_RC")
        /\ \A x \in Waking : Ready(s, Awakened, Doing({x}), Asleep, x \in c.settings)
    BY DEF Readied
  <1>6. h \in Starts <=> h \in Doing({"TX"}) \/ h \in Doing({"RX"})
    BY DEF Starts, Doing
  <1>7. /\ h \in Calming => Calm(c)
        /\ Ready(t, Calming, Standing, Starts, after.mode \in {"sleep", "standby"})
    <2>1. \/ Provided(s, Calming, Standing, Starts)
          \/ Calm(c) /\ Safe(s, Calming, Standing, Starts)
      BY <1>5 DEF Ready, Calm
    <2>2. Calm(c) /\ h \notin Starts => Calm(after)
      BY <1>4 DEF Calm
    <2>3. /\ h \in Calming => Calm(c)
          /\ \/ Provided(t, Calming, Standing, Starts)
             \/ Calm(after) /\ Safe(t, Calming, Standing, Starts)
      BY <1>3, <1>4, <2>1, <2>2, h \in Standing => h \notin Starts DEF Standing, Starts, Doing
    <2> QED BY <2>3 DEF Ready, Calm
  <1>8. /\ h \in Noting({"TX"}) => c.mode \notin {"rx", "rx_continuous"}
        /\ Ready(t, Noting({"TX"}), Standing, Doing({"RX"}), after.mode \notin {"rx", "rx_continuous"})
    <2> DEFINE Met(d) == d.mode \notin {"rx", "rx_continuous"}
    <2>1. \/ Provided(s, Noting({"TX"}), Standing, Doing({"RX"}))
          \/ Met(c) /\ Safe(s, Noting({"TX"}), Standing, Doing({"RX"}))
      BY <1>5 DEF Ready
    <2>2. /\ Met(c) /\ h \notin Doing({"RX"}) => Met(after)
          /\ h \in Standing => Met(after)
      BY <1>4, <1>6 DEF Calm
    <2>3. /\ h \in Noting({"TX"}) => Met(c)
          /\ \/ Provided(t, Noting({"TX"}), Standing, Doing({"RX"}))
             \/ Met(after) /\ Safe(t, Noting({"TX"}), Standing, Doing({"RX"}))
      <3> HIDE DEF Met
      <3> QED BY <1>3, <2>1, <2>2
    <2> QED BY <2>3 DEF Ready
  <1>9. /\ h \in Noting({"RX"}) => c.mode # "tx"
        /\ Ready(t, Noting({"RX"}), Standing, Doing({"TX"}), after.mode # "tx")
    <2> DEFINE Met(d) == d.mode # "tx"
    <2>1. \/ Provided(s, Noting({"RX"}), Standing, Doing({"TX"}))
          \/ Met(c) /\ Safe(s, Noting({"RX"}), Standing, Doing({"TX"}))
      BY <1>5 DEF Ready
    <2>2. /\ Met(c) /\ h \notin Doing({"TX"}) => Met(after)
          /\ h \in Standing => Met(after)
      BY <1>4, <1>6 DEF Calm
    <2>3. /\ h \in Noting({"RX"}) => Met(c)
          /\ \/ Provided(t, Noting({"RX"}), Standing, Doing({"TX"}))
             \/ Met(after) /\ Safe(t, Noting({"RX"}), Standing, Doing({"TX"}))
      <3> HIDE DEF Met
      <3> QED BY <1>3, <2>1, <2>2
    <2> QED BY <2>3 DEF Ready
  <1>10. /\ h \in Starts => m = "STDBY_RC"
         /\ Ready(t, Starts, Noting({"STDBY_RC"}), Stirring, noted = "STDBY_RC")
    <2>1. \/ Provided(s, Starts, Noting({"STDBY_RC"}), Stirring)
          \/ m = "STDBY_RC" /\ Safe(s, Starts, Noting({"STDBY_RC"}), Stirring)
      BY <1>5 DEF Ready
    <2>2. m = "STDBY_RC" /\ h \notin Stirring => noted = "STDBY_RC"
      <3>1. h.does = "operation_mode" => h \in Noting(DriverModes)
        BY <1>1, StepCases DEF Noting, With
      <3>2. h \in Noting(DriverModes) => h \in Stirring \/ h \in Noting({"STDBY_RC"})
        BY DEF Stirring, Noting, With, DriverModes
      <3> QED BY <1>4, <3>1, <3>2
    <2>3. h \in Noting({"STDBY_RC"}) => noted = "STDBY_RC"
      BY <1>4
    <2>4. /\ h \in Starts => m = "STDBY_RC"
          /\ \/ Provided(t, Starts, Noting({"STDBY_RC"}), Stirring)
             \/ noted = "STDBY_RC" /\ Safe(t, Starts, Noting({"STDBY_RC"}), Stirring)
      BY <1>3, <2>1, <2>2, <2>3
    <2> QED BY <2>4 DEF Ready
  <1>11. ASSUME NEW x \in Waking
         PROVE  /\ h \in Awakened => x \in c.settings
                /\ Ready(t, Awakened, Doing({x}), Asleep, x \in after.settings)
    <2>1. \/ Provided(s, Awakened, Doing({x}), Asleep)
          \/ x \in c.settings /\ Safe(s, Awakened, Doing({x}), Asleep)
      BY <1>5 DEF Ready
    <2>2. x \in Settings \ Params
      BY DEF Waking, Settings, Params
    <2>3. /\ x \in c.settings /\ h \notin Asleep => x \in after.settings
          /\ h \in Doing({x}) => x \in after.settings
      BY <1>4, <2>2
    <2>4. /\ h \in Awakened => x \in c.settings
          /\ \/ Provided(t, Awakened, Doing({x}), Asleep)
             \/ x \in after.settings /\ Safe(t, Awakened, Doing({x}), Asleep)
      BY <1>3, <2>1, <2>3
    <2> QED BY <2>4 DEF Ready
  <1> QED BY <1>2, <1>5, <1>7, <1>8, <1>9, <1>10, <1>11 DEF Readied, h, t

\* A step of the chip keeps what the rest of the call relies on, and a start finds all of it.
LEMMA ConfiguringStep ==
    ASSUME NEW c \in Chips, NEW m \in DriverModes, NEW s \in Seq(Steps), s # <<>>,
           NEW after, NEW noted, Takes(Head(s), c, m, after, noted), Readied(s, c, m),
           NEW modem \in Modems, NEW mask \in {TxMask, RxMask},
           Configuring(s, modem, mask, c)
    PROVE  /\ Configuring(Tail(s), modem, mask, after)
           /\ Head(s) \in Starts =>
                 /\ c.type = modem /\ c.mask = mask
                 /\ Required(modem) \union Params \subseteq c.settings
  <1> DEFINE h == Head(s)
             t == Tail(s)
  <1>1. h \in Steps /\ t \in Seq(Steps)
    OBVIOUS
  <1>2. \A need, good, bad :
           /\ Provided(s, need, good, bad) => h \notin need /\ Safe(t, need, good, bad)
           /\ Provided(s, need, good, bad) /\ h \notin good => Provided(t, need, good, bad)
           /\ Safe(s, need, good, bad) => Safe(t, need, good, bad)
           /\ Safe(s, need, good, bad) /\ h \notin good /\ h \in bad
                  => Provided(t, need, good, bad)
    BY Advance
  <1>3. h \notin Asleep /\ (h \in Calming => Calm(c))
    BY ReadiedStep
  <1> HIDE DEF h, t
  <1>4. /\ \A modems : h \in Typing(modems) =>
              after.type \in modems \union {c.type} /\ (Calm(c) => after.type \in modems)
        /\ h \notin Asleep \union Doing({"PACKETTYPE"}) =>
              after.type = c.type /\ c.settings \subseteq after.settings
        /\ h \notin Asleep => c.settings \ Params \subseteq after.settings
        /\ \A x \in Settings : h \in Doing({x}) => x \in after.settings
        /\ \A masks : h \in Masking(masks) => after.mask \in masks
        /\ h \notin Asleep \union Doing({"DIOIRQ"}) => after.mask = c.mask
    BY <1>1, TakesEffects DEF h
  <1>5. /\ h \in Doing({"PACKETTYPE"}) => h \in Typing({modem}) \/ h \in Typing(Modems \ {modem})
        /\ h \in Doing({"DIOIRQ"}) => h \in Masking({mask}) \/ h \in Masking({TxMask, RxMask} \ {mask})
        /\ \A modems : h \in Typing(modems) => h \in Calming
    BY <1>1, StepCases DEF Doing, Typing, Masking, With, Calming
  <1>6. /\ h \in Starts => c.type = modem
        /\ Ready(t, Starts, Typing({modem}), Asleep \union Typing(Modems \ {modem}), after.type = modem)
    <2> DEFINE bad == Asleep \union Typing(Modems \ {modem})
    <2>1. \/ Provided(s, Starts, Typing({modem}), bad)
          \/ c.type = modem /\ Safe(s, Starts, Typing({modem}), bad)
      BY DEF Configuring, Ready
    <2>2. h \in Typing({modem}) => after.type = modem
      BY <1>3, <1>4, <1>5
    <2>3. c.type = modem /\ h \notin bad => after.type = modem
      BY <1>4, <1>5, <2>2
    <2>4. /\ h \in Starts => c.type = modem
          /\ \/ Provided(t, Starts, Typing({modem}), bad)
             \/ after.type = modem /\ Safe(t, Starts, Typing({modem}), bad)
      <3> HIDE DEF bad
      <3> QED BY <1>2, <2>1, <2>2, <2>3
    <2> QED BY <2>4 DEF Ready
  <1>7. ASSUME NEW x \in Required(modem)
        PROVE  /\ h \in Starts => x \in c.settings
               /\ Ready(t, Starts, Doing({x}), Asleep, x \in after.settings)
    <2>1. \/ Provided(s, Starts, Doing({x}), Asleep)
          \/ x \in c.settings /\ Safe(s, Starts, Doing({x}), Asleep)
      BY DEF Configuring, Ready
    <2>2. x \in Settings \ Params
      BY DEF Required, Settings, Params
    <2>3. /\ x \in c.settings /\ h \notin Asleep => x \in after.settings
          /\ h \in Doing({x}) => x \in after.settings
      BY <1>4, <2>2
    <2>4. /\ h \in Starts => x \in c.settings
          /\ \/ Provided(t, Starts, Doing({x}), Asleep)
             \/ x \in after.settings /\ Safe(t, Starts, Doing({x}), Asleep)
      BY <1>2, <2>1, <2>3
    <2> QED BY <2>4 DEF Ready
  <1>8. ASSUME NEW x \in Params
        PROVE  /\ h \in Starts => x \in c.settings
               /\ Ready(t, Starts, Doing({x}), Asleep \union Doing({"PACKETTYPE"}), x \in after.settings)
    <2> DEFINE bad == Asleep \union Doing({"PACKETTYPE"})
    <2>1. \/ Provided(s, Starts, Doing({x}), bad)
          \/ x \in c.settings /\ Safe(s, Starts, Doing({x}), bad)
      BY DEF Configuring, Ready
    <2>2. x \in Settings
      BY DEF Settings, Params
    <2>3. /\ x \in c.settings /\ h \notin bad => x \in after.settings
          /\ h \in Doing({x}) => x \in after.settings
      BY <1>4, <2>2
    <2>4. /\ h \in Starts => x \in c.settings
          /\ \/ Provided(t, Starts, Doing({x}), bad)
             \/ x \in after.settings /\ Safe(t, Starts, Doing({x}), bad)
      <3> HIDE DEF bad
      <3> QED BY <1>2, <2>1, <2>3
    <2> QED BY <2>4 DEF Ready
  <1>9. /\ h \in Starts => c.mask = mask
        /\ Ready(t, Starts, Masking({mask}), Asleep \union Masking({TxMask, RxMask} \ {mask}),
                 after.mask = mask)
    <2> DEFINE bad == Asleep \union Masking({TxMask, RxMask} \ {mask})
    <2>1. \/ Provided(s, Starts, Masking({mask}), bad)
          \/ c.mask = mask /\ Safe(s, Starts, Masking({mask}), bad)
      BY DEF Configuring, Ready
    <2>2. h \in Masking({mask}) => after.mask = mask
      BY <1>4
    <2>3. c.mask = mask /\ h \notin bad => after.mask = mask
      BY <1>4, <1>5, <2>2
    <2>4. /\ h \in Starts => c.mask = mask
          /\ \/ Provided(t, Starts, Masking({mask}), bad)
             \/ after.mask = mask /\ Safe(t, Starts, Masking({mask}), bad)
      <3> HIDE DEF bad
      <3> QED BY <1>2, <2>1, <2>2, <2>3
    <2> QED BY <2>4 DEF Ready
  <1> QED BY <1>6, <1>7, <1>8, <1>9 DEF Configuring, h, t

-----------------------------------------------------------------------------
(* The call in progress *)

\* What a step starts, and what the call is to start: set_rx_config() gives a
\* continuous reception of FSK the timeout of a single one.
Kind(x) == IF x.does = "TX" THEN "tx" ELSE x.with
Starting == IF call.starts = "rx_continuous" /\ call.modem = "FSK" THEN "rx" ELSE call.starts

Named ==
    /\ call.name = "none" <=> call.todo = <<>>
    /\ call.name = "none" => call.starts = "nothing"
    /\ call.name = "send" => call.starts = "tx"
    /\ call.name = "receive" => call.starts \in {"rx", "rx_continuous"}
    /\ call.name \in {"sleep", "standby", "random"} => call.starts = "rest"

\* The steps that are left of a call: the chip is put to sleep by sleep() only, which
\* notes it first; the other calls end with a note; and what they need is provided.
Sequenced ==
    /\ call.name = "sleep" => call.todo = sleep \/ (call.todo = Tail(sleep) /\ mode = "SLEEP")
    /\ call.name \notin {"none", "sleep"} => call.todo[Len(call.todo)].does = "operation_mode"
    /\ call.name # "sleep" => Readied(call.todo, chip, mode)
    /\ call.name = "send" => Configuring(call.todo, call.modem, TxMask, chip)
    /\ call.name = "receive" => Configuring(call.todo, call.modem, RxMask, chip)
    /\ call.name \in {"send", "receive"} =>
          \A i \in DOMAIN call.todo : call.todo[i] \in Starts =>
              i = Len(call.todo) - 1 /\ Kind(call.todo[i]) = Starting
    /\ call.name = "standby" => Free(call.todo, Starts)

\* _operation_mode says what the chip does, but for the steps between a command and
\* the assignment that notes it.
Noted ==
    chip.mode \in Underway =>
        \/ mode = "TX" /\ chip.mode = "tx"
        \/ mode = "RX" /\ chip.mode # "tx"
        \/ mode = "SLEEP" /\ call.name = "sleep"
        \/ mode = "STDBY_RC" /\ call.name \in {"send", "receive", "random"}

CallInv ==
    /\ ~call.garbled
    /\ irq.pc # "pend" \/ sema = 1 => ~call.selected
    /\ call.selected => call.todo # <<>> /\ Head(call.todo).does # "operation_mode"
    /\ mode # "SLEEP" => Waking \subseteq chip.settings
    /\ Named
    /\ Sequenced
    /\ Noted

\* sleep() notes the mode and then sends its command.
LEMMA SleepSteps ==
    /\ sleep \in Seq(Steps) /\ sleep # <<>> /\ Tail(sleep) # <<>> /\ Tail(Tail(sleep)) = <<>>
    /\ Len(sleep) = 2 /\ Len(Tail(sleep)) = 1
    /\ Head(sleep).does = "operation_mode" /\ Head(sleep).with = "SLEEP"
    /\ Head(Tail(sleep)).does = "SLEEP"
  <1> DEFINE note == [does |-> "operation_mode", with |-> "SLEEP"]
             command == [does |-> "SLEEP", with |-> ""]
  <1>1. /\ sleep = <<note>> \o <<command>> /\ note \in Steps /\ command \in Steps
    BY CommandStep DEF sleep, DriverModes, Plain
  <1>2. note.does = "operation_mode" /\ note.with = "SLEEP" /\ command.does = "SLEEP"
    OBVIOUS
  <1> HIDE DEF note, command, Steps
  <1>3. <<note>> \in Seq(Steps) /\ Len(<<note>>) = 1 /\ <<note>>[1] = note
        /\ <<command>> \in Seq(Steps) /\ Len(<<command>>) = 1 /\ <<command>>[1] = command
    BY <1>1
  <1>4. sleep \in Seq(Steps) /\ Len(sleep) = 2 /\ sleep[1] = note /\ sleep[2] = command
    <2>1. sleep \in Seq(Steps) /\ Len(sleep) = 1 + 1 /\ sleep[1] = note /\ sleep[1 + 1] = command
      BY <1>1, <1>3, ConcatIndex
    <2> QED BY <2>1
  <1> DEFINE t == Tail(sleep)
  <1>5. /\ sleep # <<>> /\ Head(sleep) = note
        /\ t \in Seq(Steps) /\ Len(t) = 1 /\ t[1] = command
    <2>1. sleep # <<>>
      BY <1>4, EmptySeq
    <2>2. \A s \in Seq(Steps) : s # <<>> =>
             /\ Head(s) = s[1] /\ Tail(s) \in Seq(Steps) /\ Len(Tail(s)) = Len(s) - 1
             /\ \A i \in 1 .. Len(s) - 1 : Tail(s)[i] = s[i + 1]
      OBVIOUS
    <2>3. 1 \in 1 .. 2 - 1 /\ 2 - 1 = 1 /\ 1 + 1 = 2
      OBVIOUS
    <2> QED BY <1>4, <2>1, <2>2, <2>3
  <1> HIDE DEF t
  <1>6. t # <<>> /\ Head(t) = command /\ Tail(t) \in Seq(Steps) /\ Len(Tail(t)) = 0
    BY <1>5
  <1>7. Tail(t) = <<>>
    BY <1>6, EmptySeq
  <1> QED BY <1>2, <1>4, <1>5, <1>6, <1>7 DEF t

\* Nothing is under way, as far as _operation_mode tells, between calls.
LEMMA IdleCalm ==
    ASSUME TypeInv, CallInv, call.name = "none", mode \in {"SLEEP", "STDBY_RC"}
    PROVE  Calm(chip)
  BY DEF TypeInv, CallInv, Noted, Chips, ChipModes, Underway, Calm

\* What is left of the call after a step.
LEMMA RestFacts ==
    ASSUME TypeInv, call.todo # <<>>, call' = Rest
    PROVE  /\ call'.todo = Tail(call.todo) /\ call'.modem = call.modem
           /\ ~call'.selected /\ ~call'.garbled
           /\ \/ /\ Len(call.todo) = 1 /\ call'.todo = <<>>
                 /\ call'.name = "none" /\ call'.starts = "nothing"
              \/ /\ Len(call.todo) # 1 /\ call'.todo # <<>>
                 /\ call'.name = call.name /\ call'.starts = call.starts
                 /\ call'.todo[Len(call'.todo)] = call.todo[Len(call.todo)]
           /\ \A i \in DOMAIN call'.todo : /\ i + 1 \in DOMAIN call.todo
                                           /\ call'.todo[i] = call.todo[i + 1]
                                           /\ i + 1 = Len(call.todo) - 1 => i = Len(call'.todo) - 1
  <1> DEFINE s == call.todo
  <1>1. s \in Seq(Steps) /\ call \in CallRecords
    BY DEF TypeInv, CallRecords
  <1>2. /\ Len(s) = 1 => Tail(s) = <<>>
        /\ Len(s) # 1 => Tail(s) # <<>> /\ Tail(s)[Len(Tail(s))] = s[Len(s)]
        /\ \A i \in DOMAIN Tail(s) : /\ i + 1 \in DOMAIN s /\ Tail(s)[i] = s[i + 1]
                                     /\ i + 1 = Len(s) - 1 => i = Len(Tail(s)) - 1
    <2> HIDE DEF s, Steps
    <2>1. /\ Len(s) \in Nat /\ Len(s) # 0 /\ Len(Tail(s)) = Len(s) - 1
          /\ DOMAIN Tail(s) = 1 .. Len(s) - 1 /\ DOMAIN s = 1 .. Len(s)
          /\ \A i \in 1 .. Len(s) - 1 : Tail(s)[i] = s[i + 1]
      BY <1>1 DEF s
    <2>2. Len(s) = 1 => Tail(s) = <<>>
      BY <1>1, <2>1, EmptySeq DEF s
    <2>3. Len(s) # 1 => Tail(s) # <<>>
      <3>1. Len(s) # 1 => Len(Tail(s)) # 0
        BY <2>1
      <3> QED BY <3>1
    <2>4. ASSUME Len(s) # 1 PROVE Tail(s)[Len(Tail(s))] = s[Len(s)]
      <3>1. Len(s) - 1 \in 1 .. Len(s) - 1 /\ Len(s) - 1 + 1 = Len(s)
        BY <2>1, <2>4
      <3> QED BY <2>1, <3>1
    <2> QED BY <2>1, <2>2, <2>3, <2>4
  <1>3. CASE Len(s) = 1
    <2>1. call' = [call EXCEPT !.name = "none", !.starts = "nothing", !.todo = <<>>,
                               !.selected = FALSE, !.garbled = FALSE]
      BY <1>3 DEF Rest
    <2>2. /\ call'.todo = <<>> /\ call'.modem = call.modem /\ call'.selected = FALSE
          /\ call'.garbled = FALSE /\ call'.name = "none" /\ call'.starts = "nothing"
      BY <1>1, <2>1 DEF CallRecords
    <2> QED BY <1>2, <1>3, <2>2
  <1>4. CASE Len(s) # 1
    <2>1. call' = [call EXCEPT !.todo = Tail(@), !.selected = FALSE, !.garbled = FALSE]
      BY <1>4 DEF Rest
    <2>2. /\ call'.todo = Tail(s) /\ call'.modem = call.modem /\ call'.selected = FALSE
          /\ call'.garbled = FALSE /\ call'.name = call.name /\ call'.starts = call.starts
      BY <1>1, <2>1 DEF CallRecords
    <2> QED BY <1>2, <1>4, <2>2
  <1> QED BY <1>3, <1>4

\* Note and Deselect take the next step of the call.
LEMMA TaskStep ==
    ASSUME TypeInv, CallInv, Note \/ Deselect
    PROVE  /\ Scheduled /\ call.todo # <<>> /\ call' = Rest
           /\ Takes(Next_step, chip, mode, chip', mode')
           /\ UNCHANGED <<irq, sema, reports, frames, calls>>
           /\ Deselect <=> Next_step.does # "operation_mode"
  <1>1. CASE Note
    BY <1>1 DEF Note, Takes, CallInv, Deselect, Next_step
  <1>2. CASE Deselect
    <2>1. call.todo # <<>> /\ Next_step.does # "operation_mode"
      BY <1>2 DEF CallInv, Deselect, Next_step
    <2>2. chip' = Execute(chip, Next_step)
      BY <1>2 DEF CallInv, Deselect
    <2> QED BY <1>2, <2>1, <2>2 DEF Deselect, Takes
  <1> QED BY <1>1, <1>2

\* A step of the call under way keeps the invariant.
LEMMA CallInvStep ==
    ASSUME TypeInv, CallInv, Note \/ Deselect
    PROVE  CallInv'
  <1> DEFINE s == call.todo
             h == Head(call.todo)
  <1>1. /\ Scheduled /\ s # <<>> /\ call' = Rest /\ Takes(h, chip, mode, chip', mode')
        /\ UNCHANGED <<irq, sema>>
    BY TaskStep DEF Next_step
  <1>2. /\ chip \in Chips /\ mode \in DriverModes /\ s \in Seq(Steps) /\ h \in Steps
        /\ call \in CallRecords
    BY <1>1 DEF TypeInv, CallRecords
  <1>3. /\ call'.todo = Tail(s) /\ call'.modem = call.modem
        /\ ~call'.selected /\ ~call'.garbled
        /\ \/ /\ Len(s) = 1 /\ call'.todo = <<>>
              /\ call'.name = "none" /\ call'.starts = "nothing"
           \/ /\ Len(s) # 1 /\ call'.todo # <<>>
              /\ call'.name = call.name /\ call'.starts = call.starts
              /\ call'.todo[Len(call'.todo)] = s[Len(s)]
        /\ \A i \in DOMAIN call'.todo : /\ i + 1 \in DOMAIN s /\ call'.todo[i] = s[i + 1]
                                        /\ i + 1 = Len(s) - 1 => i = Len(call'.todo) - 1
    BY <1>1, RestFacts
  <1>4. /\ chip' \in Chips /\ mode' \in DriverModes
        /\ h \in Standing \union Asleep => Calm(chip')
        /\ h \notin Starts => chip'.mode = chip.mode \/ Calm(chip')
        /\ h \in Doing({"TX"}) => chip'.mode = "tx"
        /\ h \in Doing({"RX"}) => chip'.mode \in {"rx", "rx_continuous"}
        /\ \A modes : h \in Noting(modes) => mode' \in modes /\ chip' = chip
        /\ h.does # "operation_mode" => mode' = mode
        /\ h \notin Asleep => chip.settings \ Params \subseteq chip'.settings
    BY <1>1, <1>2, TakesEffects
  <1>5. call.name # "none" /\ Named
    BY <1>1 DEF CallInv, Named
  <1> HIDE DEF s, h
  <1>6. Named'
    BY <1>3, <1>5 DEF Named
  <1>7. /\ h \in Noting({"SLEEP"}) \/ h \in Noting({"STDBY_RC"}) \/ h \in Noting({"TX"})
              \/ h \in Noting({"RX"}) \/ h.does # "operation_mode"
        /\ h \in Starts <=> h \in Doing({"TX"}) \/ h \in Doing({"RX"})
        /\ h.does = "operation_mode" => h \notin Starts
        /\ \A modes : h \in Noting(modes) => h.does = "operation_mode"
        /\ h \in Noting({"STDBY_RC"}) => h \in Calming
        /\ h \in Noting({"STDBY_RC"}) \/ h \in Noting({"TX"}) \/ h \in Noting({"RX"}) => h \in Awakened
    BY <1>2, StepCases DEF Noting, Starts, Doing, With, Calming, Awakened, DriverModes
  <1>8. Calm(chip') => chip'.mode \notin Underway
    BY DEF Calm, Underway
  <1>9. CASE call.name = "sleep"
    <2>1. s = sleep \/ (s = Tail(sleep) /\ mode = "SLEEP")
      BY <1>9 DEF CallInv, Sequenced, s
    <2>2. CASE s = sleep
      <3>1. /\ Len(s) # 1 /\ h.does = "operation_mode" /\ h.with = "SLEEP"
        BY <2>2, SleepSteps DEF h, s
      <3>2. mode' = "SLEEP" /\ chip' = chip
        BY <1>1, <3>1 DEF Takes
      <3>3. call'.name = "sleep" /\ call'.todo = Tail(sleep)
        BY <1>3, <1>9, <2>2, <3>1
      <3>4. Sequenced' /\ Noted'
        BY <3>2, <3>3 DEF Sequenced, Noted
      <3> QED BY <1>1, <1>3, <1>6, <3>2, <3>4 DEF CallInv, Scheduled
    <2>3. CASE s = Tail(sleep) /\ mode = "SLEEP"
      <3>1. Len(s) = 1 /\ h.does = "SLEEP"
        BY <2>3, SleepSteps DEF h, s
      <3>2. call'.name = "none" /\ call'.todo = <<>>
        BY <1>3, <3>1
      <3>3. h \in Asleep /\ mode' = "SLEEP"
        BY <1>2, <1>4, <2>3, <3>1 DEF Asleep, Doing
      <3>4. \A bad : Free(<<>>, bad)
        BY FreeEmpty
      <3>5. Readied(<<>>, chip', mode')
        BY <3>4, FreeReady DEF Readied, Ready
      <3>6. Sequenced'
        BY <3>2, <3>5 DEF Sequenced
      <3>7. Noted'
        BY <1>4, <1>8, <3>3 DEF Noted
      <3> QED BY <1>1, <1>3, <1>6, <3>3, <3>6, <3>7 DEF CallInv, Scheduled
    <2> QED BY <2>1, <2>2, <2>3
  <1>10. CASE call.name # "sleep"
    <2>1. /\ Readied(s, chip, mode)
          /\ s[Len(s)].does = "operation_mode"
          /\ call.name = "send" => Configuring(s, call.modem, TxMask, chip)
          /\ call.name = "receive" => Configuring(s, call.modem, RxMask, chip)
          /\ call.name \in {"send", "receive"} =>
                \A i \in DOMAIN s : s[i] \in Starts => i = Len(s) - 1 /\ Kind(s[i]) = Starting
          /\ call.name = "standby" => Free(s, Starts)
      BY <1>5, <1>10 DEF CallInv, Sequenced, s
    <2>2. /\ Readied(Tail(s), chip', mode')
          /\ h \notin Asleep /\ h \notin Noting({"SLEEP"})
          /\ h \in Calming => Calm(chip)
          /\ h \in Noting({"TX"}) => chip.mode \notin {"rx", "rx_continuous"}
          /\ h \in Noting({"RX"}) => chip.mode # "tx"
          /\ h \in Starts => mode = "STDBY_RC"
          /\ h \in Awakened => Waking \subseteq chip.settings
      BY <1>1, <1>2, <2>1, ReadiedStep DEF h, s
    <2>3. call.modem \in Modems
      BY <1>2 DEF CallRecords
    <2>4. /\ call.name = "send" => Configuring(Tail(s), call.modem, TxMask, chip')
          /\ call.name = "receive" => Configuring(Tail(s), call.modem, RxMask, chip')
      BY <1>1, <1>2, <2>1, <2>3, ConfiguringStep DEF h, s
    <2>5. call.name = "standby" => Free(Tail(s), Starts) /\ h \notin Starts
      BY <1>1, <1>2, <2>1, FreeTail DEF h, s
    <2>6. call'.name # "none" => Starting' = Starting
      BY <1>3 DEF Starting
    <2>7. ASSUME call'.name \in {"send", "receive"},
                 NEW i \in DOMAIN call'.todo, call'.todo[i] \in Starts
          PROVE  i = Len(call'.todo) - 1 /\ Kind(call'.todo[i]) = Starting'
      BY <1>3, <2>1, <2>6, <2>7
    <2>8. Sequenced'
      <3>1. call'.name # "none" => call'.name = call.name /\ call'.todo[Len(call'.todo)].does = "operation_mode"
        BY <1>3, <2>1
      <3>2. call'.name # "sleep"
        BY <1>3, <1>10
      <3> QED BY <1>3, <2>2, <2>4, <2>5, <2>7, <3>1, <3>2 DEF Sequenced
    <2>9. h.does # "operation_mode" => call'.name = call.name /\ h # s[Len(s)]
      <3>1. Len(s) = 1 => h = s[Len(s)]
        BY <1>1, <1>2 DEF h, s
      <3> QED BY <1>3, <2>1, <3>1
    <2>10. Noted'
      <3>1. CASE h \in Starts
        <4>1. mode' = "STDBY_RC" /\ call'.name \in {"send", "receive", "random"}
          BY <1>2, <1>4, <1>5, <1>7, <1>10, <2>2, <2>5, <2>9, <3>1 DEF CallRecords
        <4> QED BY <4>1 DEF Noted
      <3>2. CASE h.does = "operation_mode"
        <4>1. h \in Noting({"STDBY_RC"}) \/ h \in Noting({"TX"}) \/ h \in Noting({"RX"})
          BY <1>7, <2>2, <3>2
        <4>2. CASE h \in Noting({"STDBY_RC"})
          BY <1>4, <1>7, <1>8, <2>2, <4>2 DEF Noted
        <4>3. CASE h \in Noting({"TX"})
          BY <1>4, <2>2, <4>3 DEF Noted, Underway
        <4>4. CASE h \in Noting({"RX"})
          BY <1>4, <2>2, <4>4 DEF Noted
        <4> QED BY <4>1, <4>2, <4>3, <4>4
      <3>3. CASE h \notin Starts /\ h.does # "operation_mode"
        BY <1>4, <1>8, <1>10, <2>9, <3>3 DEF CallInv, Noted
      <3> QED BY <3>1, <3>2, <3>3
    <2>11. mode' # "SLEEP" => Waking \subseteq chip'.settings
      <3>1. Waking \intersect Params = {}
        BY DEF Waking, Params
      <3>2. CASE h.does = "operation_mode"
        BY <1>4, <1>7, <2>2, <3>2
      <3>3. CASE h.does # "operation_mode"
        BY <1>4, <2>2, <3>1, <3>3 DEF CallInv
      <3> QED BY <3>2, <3>3
    <2> QED BY <1>1, <1>3, <1>6, <2>8, <2>10, <2>11 DEF CallInv, Scheduled
  <1> QED BY <1>9, <1>10

\* The chip ends what it does, or wakes up, and keeps its configuration.
SameConfiguration(c, after) ==
    /\ after.mode = c.mode \/ Calm(after)
    /\ after.type = c.type /\ after.settings = c.settings /\ after.mask = c.mask
    /\ after.syncword = c.syncword

\* So does whatever leaves the call and the configuration of the chip alone.
LEMMA CallInvKept ==
    ASSUME CallInv, mode' = mode, SameConfiguration(chip, chip'),
           call'.todo = call.todo, call'.name = call.name, call'.starts = call.starts,
           call'.modem = call.modem, ~call'.garbled,
           call'.selected => call.todo # <<>> /\ Head(call.todo).does # "operation_mode",
           irq'.pc # "pend" \/ sema' = 1 => ~call'.selected
    PROVE  CallInv'
  <1>1. Named' /\ Starting' = Starting
    BY DEF CallInv, Named, Starting
  <1>2. chip'.mode \in Underway => chip'.mode = chip.mode
    BY DEF SameConfiguration, Calm, Underway
  <1>3. Noted'
    BY <1>2 DEF CallInv, Noted
  <1>4. \A s : Readied(s, chip, mode) => Readied(s, chip', mode)
    <2> SUFFICES ASSUME NEW s, Readied(s, chip, mode) PROVE Readied(s, chip', mode)
      OBVIOUS
    <2>1. /\ Calm(chip) => Calm(chip')
          /\ chip.mode \notin {"rx", "rx_continuous"} => chip'.mode \notin {"rx", "rx_continuous"}
          /\ chip.mode # "tx" => chip'.mode # "tx"
          /\ chip'.settings = chip.settings
      BY DEF SameConfiguration, Calm
    <2>2. Ready(s, Calming, Standing, Starts, chip'.mode \in {"sleep", "standby"})
      BY <2>1 DEF Readied, Ready, Calm
    <2>3. Ready(s, Noting({"TX"}), Standing, Doing({"RX"}), chip'.mode \notin {"rx", "rx_continuous"})
      BY <2>1 DEF Readied, Ready
    <2>4. Ready(s, Noting({"RX"}), Standing, Doing({"TX"}), chip'.mode # "tx")
      BY <2>1 DEF Readied, Ready
    <2> QED BY <2>1, <2>2, <2>3, <2>4 DEF Readied
  <1>5. \A s, modem, mask : Configuring(s, modem, mask, chip) => Configuring(s, modem, mask, chip')
    <2>1. chip'.type = chip.type /\ chip'.settings = chip.settings /\ chip'.mask = chip.mask
      BY DEF SameConfiguration
    <2> QED BY <2>1 DEF Configuring
  <1>6. Sequenced'
    BY <1>1, <1>4, <1>5 DEF CallInv, Sequenced
  <1>7. mode' # "SLEEP" => Waking \subseteq chip'.settings
    BY DEF CallInv, SameConfiguration
  <1> QED BY <1>1, <1>3, <1>6, <1>7 DEF CallInv

\* What the chip may have to say does not change what it was configured with.
LEMMA ChipKeeps ==
    ASSUME TypeInv, Chip
    PROVE  /\ SameConfiguration(chip, chip') /\ MaySpeak
           /\ UNCHANGED <<mode, call, irq, reports>>
  <1>1. chip \in Chips /\ AfterReception(chip) \in Chips
    BY DEF TypeInv, AfterReception, Chips, ChipModes
  <1>2. ASSUME NEW c \in Chips, NEW raised, Raise(c, raised), SameConfiguration(chip, c)
        PROVE  SameConfiguration(chip, chip')
    BY <1>2 DEF Raise, SameConfiguration, Chips, Calm
  <1>3. SameConfiguration(chip, AfterReception(chip))
    BY <1>1 DEF AfterReception, SameConfiguration, Chips, Calm
  <1>4. CASE TransmissionEnds
    <2> DEFINE c == [chip EXCEPT !.mode = "standby"]
    <2>1. c \in Chips /\ SameConfiguration(chip, c)
      BY <1>1 DEF Chips, ChipModes, SameConfiguration, Calm
    <2>2. \E raised : Raise(c, raised)
      BY <1>4 DEF TransmissionEnds
    <2> HIDE DEF c
    <2> QED BY <1>2, <1>4, <2>1, <2>2 DEF TransmissionEnds
  <1>5. CASE FrameReceived
    <2> DEFINE c == [AfterReception(chip) EXCEPT !.fifo = frames + 1]
    <2>1. frames + 1 \in 0 .. MaxFrames
      BY <1>5, RadioDriverAssumption DEF FrameReceived, TypeInv, RadioDriverAssumption
    <2>2. c \in Chips /\ SameConfiguration(chip, c)
      BY <1>1, <1>3, <2>1 DEF Chips, SameConfiguration, Calm
    <2>3. Raise(c, {"RX_DONE"})
      BY <1>5 DEF FrameReceived
    <2> HIDE DEF c
    <2> QED BY <1>2, <1>5, <2>2, <2>3 DEF FrameReceived
  <1>6. CASE FrameDamaged
    <2> DEFINE c == [AfterReception(chip) EXCEPT !.fifo = 0]
    <2>1. 0 \in 0 .. MaxFrames
      BY RadioDriverAssumption DEF RadioDriverAssumption
    <2>2. c \in Chips /\ SameConfiguration(chip, c)
      BY <1>1, <1>3, <2>1 DEF Chips, SameConfiguration, Calm
    <2>3. Raise(c, {"RX_DONE", "CRC_ERROR"})
      BY <1>6 DEF FrameDamaged
    <2> HIDE DEF c
    <2> QED BY <1>2, <1>6, <2>2, <2>3 DEF FrameDamaged
  <1>7. CASE NothingReceived
    <2> DEFINE c == [chip EXCEPT !.mode = "standby"]
    <2>1. c \in Chips /\ SameConfiguration(chip, c)
      BY <1>1 DEF Chips, ChipModes, SameConfiguration, Calm
    <2>2. Raise(c, {"RX_TX_TIMEOUT"})
      BY <1>7 DEF NothingReceived
    <2> HIDE DEF c
    <2> QED BY <1>2, <1>7, <2>1, <2>2 DEF NothingReceived
  <1> QED BY <1>4, <1>5, <1>6, <1>7 DEF Chip

\* RadioTask touches neither the configuration nor the mode noted.
LEMMA RadioTaskKeeps ==
    ASSUME TypeInv, RadioTask
    PROVE  SameConfiguration(chip, chip') /\ mode' = mode
  <1>1. chip \in Chips /\ SameConfiguration(chip, Awake(chip)) /\ Awake(chip) \in Chips
    BY AwakeTyped DEF TypeInv, Chips, SameConfiguration, Awake, Calm
  <1>2. CASE GetIrqStatus
    BY <1>1, <1>2, ServeTyped DEF GetIrqStatus
  <1>3. CASE ClearIrqStatus
    <2>1. chip' = [Awake(chip) EXCEPT !.irq = {}]
      BY <1>3, ServeTyped DEF ClearIrqStatus
    <2>2. mode' = mode
      BY <1>3 DEF ClearIrqStatus
    <2> QED BY <1>1, <2>1, <2>2 DEF SameConfiguration, Chips, Calm
  <1>4. CASE HandleIrq
    BY <1>4 DEF HandleIrq, SameConfiguration
  <1> QED BY <1>2, <1>3, <1>4 DEF RadioTask

\* The invariant holds at the start.
LEMMA CallInvInit == Init => CallInv
  <1> SUFFICES ASSUME Init PROVE CallInv
    OBVIOUS
  <1>1. \A bad : Free(<<>>, bad)
    BY FreeEmpty
  <1>2. Readied(<<>>, chip, mode)
    BY <1>1, FreeReady DEF Readied, Ready
  <1>3. Named /\ Sequenced /\ Noted
    BY <1>2 DEF Init, Named, Sequenced, Noted, Cold, Underway
  <1> QED BY <1>3 DEF Init, CallInv

\* What a call asks of the chip before it begins.
LEMMA Idle ==
    ASSUME TypeInv, CallInv, call.name = "none"
    PROVE  /\ mode \in {"SLEEP", "STDBY_RC"} => chip.mode \in {"sleep", "standby"}
           /\ mode # "SLEEP" => Waking \subseteq chip.settings
  BY IdleCalm DEF CallInv, Calm

\* A call whose steps are named and sequenced begins.
LEMMA CallBegins ==
    ASSUME CallInv, NEW name \in {"send", "receive", "sleep", "standby", "random"},
           NEW starts, NEW modem, NEW steps, steps # <<>>, Call(name, starts, modem, steps),
           Named', Sequenced'
    PROVE  CallInv'
  <1>1. /\ call' = [name |-> name, starts |-> starts, modem |-> modem, todo |-> steps,
                    selected |-> FALSE, garbled |-> FALSE]
        /\ UNCHANGED <<chip, mode, irq, sema>> /\ call.name = "none"
    BY DEF Call
  <1>2. Noted'
    BY <1>1 DEF CallInv, Noted
  <1> QED BY <1>1, <1>2 DEF CallInv

\* send() begins with its steps in order.
LEMMA TransmitInv ==
    ASSUME TypeInv, CallInv, NEW modem \in TxModems, Transmit(modem)
    PROVE  CallInv'
  <1> DEFINE x == [does |-> "TX", with |-> ""]
             y == [does |-> "operation_mode", with |-> "TX"]
             s == (set_channel \o set_config(mode, modem))
                      \o (((Core(TxMask) \o Command("WRITE_BUFFER", "")) \o <<x>>) \o <<y>>)
             steps == set_channel \o set_config(mode, modem) \o send
  <1>1. x \in Steps /\ y \in Steps /\ Command("TX", "") = <<x>> /\ Assign("TX") = <<y>>
    BY CommandStep DEF Plain, DriverModes
  <1>2. x \in Starts /\ y \in Noting({"TX", "RX"})
    BY <1>1 DEF Starts, Doing, Noting, With
  <1>3. steps = s
    BY <1>1 DEF send, Core, TxMask
  <1>4. Call("send", "tx", modem, steps) /\ call.name = "none"
    BY DEF Transmit, Call
  <1>5. modem \in Modems /\ mode \in DriverModes
    BY RadioDriverAssumption DEF RadioDriverAssumption, TypeInv
  <1>6. Kind(x) = "tx" /\ y.does = "operation_mode"
    BY DEF Kind
  <1> HIDE DEF x, y
  <1>7. /\ s \in Seq(Steps) /\ Readied(s, chip, mode) /\ Configuring(s, modem, TxMask, chip)
        /\ Launching(s, x, y)
    <2>1. x.does = y.with
      BY DEF x, y
    <2>2. TxMask \in {TxMask, RxMask}
      OBVIOUS
    <2> QED BY <1>2, <1>4, <1>5, <2>1, <2>2, Idle, LaunchSteps
  <1> HIDE DEF s, steps
  <1>8. /\ call' = [name |-> "send", starts |-> "tx", modem |-> modem, todo |-> s,
                    selected |-> FALSE, garbled |-> FALSE]
        /\ chip' = chip /\ mode' = mode
    BY <1>3, <1>4 DEF Call
  <1>9. /\ call'.name = "send" /\ call'.starts = "tx" /\ call'.modem = modem /\ call'.todo = s
        /\ Starting' = "tx"
    BY <1>8 DEF Starting
  <1>10. Named'
    BY <1>7, <1>9 DEF Named, Launching
  <1>11. Sequenced'
    BY <1>6, <1>7, <1>8, <1>9 DEF Sequenced, Launching
  <1> QED BY <1>3, <1>4, <1>7, <1>10, <1>11, CallBegins DEF Launching

\* receive() begins with its steps in order.
LEMMA ListenInv ==
    ASSUME TypeInv, CallInv, NEW window \in Windows, Listen(window)
    PROVE  CallInv'
  <1> DEFINE modem == window.modem
             x == [does |-> "RX", with |-> rx_timeout(window)]
             y == [does |-> "operation_mode", with |-> "RX"]
             starts == IF window.continuous THEN "rx_continuous" ELSE "rx"
             s == (set_channel \o set_config(mode, modem)) \o ((Core(RxMask) \o <<x>>) \o <<y>>)
             steps == set_channel \o set_config(mode, modem) \o receive(window)
  <1>1. /\ x \in Steps /\ y \in Steps /\ Command("RX", rx_timeout(window)) = <<x>>
        /\ Assign("RX") = <<y>>
    BY CommandStep DEF DriverModes, rx_timeout
  <1>2. x \in Starts /\ y \in Noting({"TX", "RX"})
    BY <1>1 DEF Starts, Doing, Noting, With
  <1>3. steps = s
    BY <1>1 DEF receive, Core, RxMask
  <1>4. Call("receive", starts, modem, steps) /\ call.name = "none"
    BY DEF Listen, Call
  <1>5. modem \in Modems /\ mode \in DriverModes
    BY RadioDriverAssumption DEF RadioDriverAssumption, TypeInv
  <1>6. Kind(x) = rx_timeout(window) /\ y.does = "operation_mode"
    BY DEF Kind
  <1>7. rx_timeout(window) = IF starts = "rx_continuous" /\ modem = "FSK" THEN "rx" ELSE starts
    BY <1>5 DEF rx_timeout, Modems
  <1>8. starts \in {"rx", "rx_continuous"}
    OBVIOUS
  <1> HIDE DEF x, y, starts, modem
  <1>9. /\ s \in Seq(Steps) /\ Readied(s, chip, mode) /\ Configuring(s, modem, RxMask, chip)
        /\ Launching(s, x, y)
    <2>1. x.does = y.with
      BY DEF x, y
    <2>2. RxMask \in {TxMask, RxMask}
      OBVIOUS
    <2> QED BY <1>2, <1>4, <1>5, <2>1, <2>2, Idle, LaunchSteps
  <1> HIDE DEF s, steps
  <1>10. /\ call' = [name |-> "receive", starts |-> starts, modem |-> modem, todo |-> s,
                     selected |-> FALSE, garbled |-> FALSE]
         /\ chip' = chip /\ mode' = mode
    BY <1>3, <1>4 DEF Call
  <1>11. /\ call'.name = "receive" /\ call'.starts = starts /\ call'.modem = modem /\ call'.todo = s
         /\ Starting' = rx_timeout(window)
    BY <1>7, <1>10 DEF Starting
  <1>12. Named'
    BY <1>8, <1>9, <1>11 DEF Named, Launching
  <1>13. Sequenced'
    BY <1>6, <1>9, <1>10, <1>11 DEF Sequenced, Launching
  <1> QED BY <1>3, <1>4, <1>9, <1>12, <1>13, CallBegins DEF Launching

\* So do sleep(), standby() and random().
LEMMA OtherCallsInv ==
    ASSUME TypeInv, CallInv, PutToSleep \/ PutToStandby \/ Draw
    PROVE  CallInv'
  <1>1. CASE PutToSleep
    <2>1. Call("sleep", "rest", call.modem, sleep)
      BY <1>1 DEF PutToSleep
    <2>2. call'.name = "sleep" /\ call'.starts = "rest" /\ call'.todo = sleep
      BY <2>1 DEF Call
    <2>3. sleep # <<>>
      BY SleepSteps
    <2>4. Named' /\ Sequenced'
      BY <2>2, <2>3 DEF Named, Sequenced
    <2> QED BY <2>1, <2>3, <2>4, CallBegins
  <1>2. CASE PutToStandby
    <2> DEFINE s == standby(mode, call.modem)
    <2>1. /\ Call("standby", "rest", call.modem, s) /\ call.name = "none" /\ mode # "STDBY_RC"
          /\ chip' = chip /\ mode' = mode
      BY <1>2 DEF PutToStandby, Call
    <2>2. call.modem \in Modems /\ mode \in DriverModes \ {"STDBY_RC"}
      BY <2>1 DEF TypeInv, CallRecords
    <2>3. /\ s # <<>> /\ s[Len(s)].does = "operation_mode"
          /\ Readied(s, chip, mode) /\ Free(s, Starts)
      BY <2>1, <2>2, Idle, StandbyCall
    <2> HIDE DEF s
    <2>4. call'.name = "standby" /\ call'.starts = "rest" /\ call'.todo = s
      BY <2>1 DEF Call
    <2>5. Named' /\ Sequenced'
      BY <2>1, <2>3, <2>4 DEF Named, Sequenced
    <2> QED BY <2>1, <2>3, <2>5, CallBegins
  <1>3. CASE Draw
    <2> DEFINE s == random("SLEEP")
    <2>1. /\ Call("random", "rest", "LORA", s) /\ call.name = "none" /\ mode = "SLEEP"
          /\ chip' = chip /\ mode' = mode
      BY <1>3 DEF Draw, Call
    <2>2. /\ s # <<>> /\ s[Len(s)].does = "operation_mode" /\ Readied(s, chip, mode)
      BY <2>1, Idle, RandomCall
    <2> HIDE DEF s
    <2>3. call'.name = "random" /\ call'.starts = "rest" /\ call'.todo = s
      BY <2>1 DEF Call
    <2>4. Named' /\ Sequenced'
      BY <2>1, <2>2, <2>3 DEF Named, Sequenced
    <2> QED BY <2>1, <2>2, <2>4, CallBegins
  <1> QED BY <1>1, <1>2, <1>3

\* Every step keeps the invariant when no command is torn.
LEMMA CallInvNext ==
    ASSUME ~Torn
    PROVE  TypeInv /\ CallInv /\ [Next]_vars => CallInv'
  <1> SUFFICES ASSUME TypeInv, CallInv, [Next]_vars PROVE CallInv'
    OBVIOUS
  <1>1. CASE Chip
    BY <1>1, ChipKeeps, CallInvKept DEF CallInv, MaySpeak
  <1>2. CASE RadioTask
    <2>1. SameConfiguration(chip, chip') /\ mode' = mode
      BY <1>2, RadioTaskKeeps
    <2>2. ~call.selected
      <3>1. irq.pc # "pend" \/ sema = 1
        BY <1>2 DEF RadioTask, GetIrqStatus, ClearIrqStatus, HandleIrq, TypeInv, Served
      <3> QED BY <3>1 DEF CallInv
    <2>3. /\ call'.todo = call.todo /\ call'.name = call.name /\ call'.starts = call.starts
          /\ call'.modem = call.modem /\ ~call'.selected /\ ~call'.garbled
      BY <1>2, <2>2 DEF RadioTask, GetIrqStatus, ClearIrqStatus, HandleIrq, CallInv, TypeInv,
                        CallRecords
    <2> QED BY <2>1, <2>3, CallInvKept
  <1>3. CASE Select
    <2>1. /\ SameConfiguration(chip, chip') /\ mode' = mode /\ irq' = irq /\ sema' = sema
          /\ irq.pc = "pend" /\ sema = 0
          /\ call.todo # <<>> /\ Head(call.todo).does # "operation_mode"
      BY <1>3 DEF Select, SameConfiguration, Scheduled, Next_step
    <2>2. /\ call'.todo = call.todo /\ call'.name = call.name /\ call'.starts = call.starts
          /\ call'.modem = call.modem /\ call'.garbled = call.garbled
      BY <1>3 DEF Select, TypeInv, CallRecords
    <2> QED BY <2>1, <2>2, CallInvKept DEF CallInv
  <1>4. CASE Note \/ Deselect
    BY <1>4, CallInvStep
  <1>5. CASE Mac
    BY <1>5, TransmitInv, ListenInv, OtherCallsInv DEF Mac
  <1>6. CASE UNCHANGED vars
    BY <1>6, CallInvKept DEF vars, SameConfiguration, CallInv
  <1> QED BY <1>1, <1>2, <1>3, <1>4, <1>5, <1>6 DEF Next, LoRaTask

-----------------------------------------------------------------------------
(* Configuration *)

\* Only a command of a call starts the chip.
LEMMA Starter ==
    ASSUME TypeInv, CallInv, [Next]_vars, chip'.mode \in Underway, chip'.mode # chip.mode
    PROVE  /\ Deselect /\ Takes(Next_step, chip, mode, chip', mode')
           /\ call.todo # <<>> /\ Next_step \in Starts
  <1>1. ~SameConfiguration(chip, chip')
    BY DEF SameConfiguration, Calm, Underway
  <1>2. Note \/ Deselect
    <2>1. SameConfiguration(chip, chip)
      BY DEF SameConfiguration
    <2>2. Chip \/ RadioTask => SameConfiguration(chip, chip')
      BY ChipKeeps, RadioTaskKeeps
    <2>3. Select \/ Mac \/ UNCHANGED vars => chip' = chip
      BY DEF Select, Mac, Transmit, Listen, PutToSleep, PutToStandby, Draw, Call, vars
    <2> QED BY <1>1, <2>1, <2>2, <2>3 DEF Next, LoRaTask
  <1>3. /\ call.todo # <<>> /\ Takes(Next_step, chip, mode, chip', mode')
        /\ Deselect <=> Next_step.does # "operation_mode"
    BY <1>2, TaskStep
  <1>4. Next_step \in Steps /\ chip \in Chips /\ mode \in DriverModes
    BY <1>3, RestTyped DEF TypeInv
  <1>5. Next_step \in Starts
    BY <1>3, <1>4, TakesEffects DEF Calm, Underway
  <1>6. Next_step.does # "operation_mode"
    BY <1>5 DEF Starts, Doing
  <1> QED BY <1>3, <1>5, <1>6

\* With a private network the chip has the sync word it is reset to.
LEMMA SyncwordKept ==
    ASSUME Network = "private"
    PROVE  TypeInv /\ CallInv /\ chip.syncword = Network /\ [Next]_vars => chip'.syncword = Network
  <1> SUFFICES ASSUME TypeInv, CallInv, chip.syncword = Network, [Next]_vars
               PROVE  chip'.syncword = Network
    OBVIOUS
  <1>1. CASE Chip \/ RadioTask
    BY <1>1, ChipKeeps, RadioTaskKeeps DEF SameConfiguration
  <1>2. CASE Select \/ Mac \/ UNCHANGED vars
    BY <1>2 DEF Select, Mac, Transmit, Listen, PutToSleep, PutToStandby, Draw, Call, vars
  <1>3. CASE Note \/ Deselect
    <2>1. call.todo # <<>> /\ Takes(Next_step, chip, mode, chip', mode')
      BY <1>3, TaskStep
    <2>2. Next_step \in Steps /\ chip \in Chips /\ mode \in DriverModes
      BY <2>1, RestTyped DEF TypeInv
    <2>3. CASE Next_step \notin Asleep
      BY <2>1, <2>2, <2>3, TakesEffects
    <2>4. CASE Next_step \in Asleep
      <3>1. Next_step.does = "SLEEP"
        BY <2>4 DEF Asleep, Doing
      <3>2. chip' = Cold("sleep")
        BY <2>1, <2>2, <3>1, ExecuteEffects DEF Takes
      <3> QED BY <3>2 DEF Cold
    <2> QED BY <2>3, <2>4
  <1> QED BY <1>1, <1>2, <1>3 DEF Next, LoRaTask

\* Whatever sequence of transmissions, receptions, sleeps and standbys came before, and
\* whenever the interrupts come, set_tx_config(), set_rx_config(), send() and receive()
\* have given the chip the modem, frequency, parameters, sync word, antenna switch and
\* interrupt mask of the call by the time they start it.
THEOREM ConfiguredHolds == ~Torn /\ Network = "private" /\ Spec => Configured
  <1> SUFFICES ASSUME ~Torn, Network = "private" PROVE Spec => Configured
    OBVIOUS
  <1> DEFINE Inv == TypeInv /\ CallInv /\ chip.syncword = Network
             Fit ==
                chip'.mode \in Underway /\ chip'.mode # chip.mode /\ call.name # "random" =>
                    /\ chip.type = call.modem
                    /\ Settings \ {"FSK_SYNCWORD"} \subseteq chip.settings
                    /\ call.modem = "FSK" => "FSK_SYNCWORD" \in chip.settings
                    /\ call.modem = "LORA" => chip.syncword = Network
                    /\ (IF chip'.mode = "tx" THEN "TX_DONE" ELSE "RX_DONE") \in chip.mask
  <1>1. Init => Inv
    BY TypeInvInit, CallInvInit DEF Init, Cold
  <1>2. Inv /\ [Next]_vars => Inv'
    BY TypeInvNext, CallInvNext, SyncwordKept
  <1>3. ASSUME Inv, [Next]_vars PROVE Fit
    <2> SUFFICES ASSUME chip'.mode \in Underway, chip'.mode # chip.mode, call.name # "random"
                 PROVE  /\ chip.type = call.modem
                        /\ Settings \ {"FSK_SYNCWORD"} \subseteq chip.settings
                        /\ call.modem = "FSK" => "FSK_SYNCWORD" \in chip.settings
                        /\ (IF chip'.mode = "tx" THEN "TX_DONE" ELSE "RX_DONE") \in chip.mask
      BY <1>3
    <2> DEFINE s == call.todo
               h == Head(call.todo)
    <2>1. Takes(h, chip, mode, chip', mode') /\ s # <<>> /\ h \in Starts
      BY <1>3, Starter DEF Next_step
    <2>2. /\ chip \in Chips /\ mode \in DriverModes /\ s \in Seq(Steps) /\ call \in CallRecords
          /\ s[1] = h /\ 1 \in DOMAIN s /\ call.modem \in Modems
      BY <1>3, <2>1 DEF TypeInv, CallRecords
    <2>3. call.name # "sleep"
      <3>1. Head(sleep) \notin Starts /\ Head(Tail(sleep)) \notin Starts
        BY SleepSteps DEF Starts, Doing
      <3> QED BY <1>3, <2>1, <3>1 DEF CallInv, Sequenced
    <2>4. call.name # "standby" /\ call.name # "none"
      BY <1>3, <2>1, <2>2 DEF CallInv, Sequenced, Named, Free
    <2>5. call.name \in {"send", "receive"}
      BY <2>2, <2>3, <2>4 DEF CallRecords
    <2> DEFINE wanted == IF call.name = "send" THEN TxMask ELSE RxMask
    <2>6. Readied(s, chip, mode) /\ Configuring(s, call.modem, wanted, chip)
      BY <1>3, <2>5 DEF CallInv, Sequenced
    <2>7. Kind(h) = Starting
      BY <1>3, <2>1, <2>2, <2>5 DEF CallInv, Sequenced
    <2>8. (chip'.mode = "tx") <=> call.name = "send"
      <3>1. Kind(h) = chip'.mode
        <4>1. h.does = "TX" \/ h.does = "RX"
          BY <2>1 DEF Starts, Doing
        <4>2. h \in Steps
          BY <2>1 DEF Starts, Doing
        <4>3. /\ h.does = "TX" => chip'.mode = "tx"
              /\ h.does = "RX" => chip'.mode = h.with
          BY <2>1, <2>2, <4>1, <4>2, ExecuteEffects DEF Takes
        <4> QED BY <4>1, <4>3 DEF Kind
      <3>2. (Starting = "tx") <=> call.name = "send"
        BY <1>3, <2>5 DEF CallInv, Named, Starting
      <3> QED BY <2>7, <3>1, <3>2
    <2>9. wanted \in {TxMask, RxMask}
      OBVIOUS
    <2> HIDE DEF s, h, wanted
    <2>10. /\ chip.type = call.modem /\ chip.mask = wanted /\ mode = "STDBY_RC"
           /\ Required(call.modem) \union Params \subseteq chip.settings
      <3>1. /\ chip.type = call.modem /\ chip.mask = wanted
            /\ Required(call.modem) \union Params \subseteq chip.settings
        <4>1. /\ chip \in Chips /\ mode \in DriverModes /\ call.todo \in Seq(Steps)
              /\ call.todo # <<>> /\ Takes(Head(call.todo), chip, mode, chip', mode')
              /\ Readied(call.todo, chip, mode) /\ call.modem \in Modems
              /\ Configuring(call.todo, call.modem, wanted, chip)
              /\ Head(call.todo) \in Starts
          BY <2>1, <2>2, <2>6 DEF h, s
        <4>2. CASE wanted = TxMask
          <5>1. Configuring(call.todo, call.modem, TxMask, chip)
            BY <4>1, <4>2
          <5>2. /\ chip.type = call.modem /\ chip.mask = TxMask
                /\ Required(call.modem) \union Params \subseteq chip.settings
            BY <4>1, <5>1, ConfiguringStep
          <5> QED BY <4>2, <5>2
        <4>3. CASE wanted = RxMask
          <5>1. Configuring(call.todo, call.modem, RxMask, chip)
            BY <4>1, <4>3
          <5>2. /\ chip.type = call.modem /\ chip.mask = RxMask
                /\ Required(call.modem) \union Params \subseteq chip.settings
            BY <4>1, <5>1, ConfiguringStep
          <5> QED BY <4>3, <5>2
        <4> QED BY <2>9, <4>2, <4>3
      <3>2. mode = "STDBY_RC"
        BY <2>1, <2>2, <2>6, ReadiedStep DEF h, s
      <3> QED BY <3>1, <3>2
    <2>11. Waking \subseteq chip.settings
      BY <1>3, <2>10 DEF CallInv
    <2>12. Settings \ {"FSK_SYNCWORD"} \subseteq chip.settings
      BY <2>10, <2>11 DEF Settings, Required, Params, Waking
    <2>13. call.modem = "FSK" => "FSK_SYNCWORD" \in chip.settings
      BY <2>10 DEF Required
    <2>14. (IF chip'.mode = "tx" THEN "TX_DONE" ELSE "RX_DONE") \in chip.mask
      BY <2>5, <2>8, <2>10 DEF TxMask, RxMask, wanted
    <2> QED BY <2>10, <2>12, <2>13, <2>14
  <1> HIDE DEF Inv, Fit
  <1>4. Spec => [][Fit]_vars
    BY <1>1, <1>2, <1>3, PTL DEF Spec
  <1>5. [Fit]_vars => [chip'.mode \in Underway /\ chip'.mode # chip.mode /\ call.name # "random" =>
                    /\ chip.type = call.modem
                    /\ Settings \ {"FSK_SYNCWORD"} \subseteq chip.settings
                    /\ call.modem = "FSK" => "FSK_SYNCWORD" \in chip.settings
                    /\ call.modem = "LORA" => chip.syncword = Network
                    /\ (IF chip'.mode = "tx" THEN "TX_DONE" ELSE "RX_DONE") \in chip.mask]_vars
    BY DEF Fit
  <1> QED BY <1>4, <1>5, PTL DEF Configured

=============================================================================
