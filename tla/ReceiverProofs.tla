--------------------------- MODULE ReceiverProofs ---------------------------
(***************************************************************************)
(* The safety properties of ReceiverLab for every set of runs, every bound *)
(* on the registry and on the evidence, and every configuration.           *)
(***************************************************************************)
EXTENDS ReceiverLab, SequenceTheorems, TLAPS

-----------------------------------------------------------------------------
(* The inductive invariant.                                                *)

Owners == Runs \cup {Default}

AllConfigurations == Configurations \cup {PlainConfiguration}

Codes == {Judgement(body, channel, configuration) :
             body \in Bodies, channel \in Channels, configuration \in AllConfigurations}

Answers == [sequence : Nat, code : Codes, status : {200, 400, 429, 503}]

RunStates == [configuration : AllConfigurations, attempts : Nat, sequence : Nat,
              requests : Seq(Answers)]

TypeOK ==
    /\ scoped \in Seq(Runs)
    /\ run \in [Owners -> RunStates]
    /\ script \in [Owners -> Seq(Answers)]
    /\ touched \in [Runs -> Nat]
    /\ clock \in Nat

\* The registry is in the order of use, so that no run is in it twice.
InOrderOfUse ==
    /\ Len(scoped) <= MAX_SCOPED_RUNS
    /\ \A i, j \in 1 .. Len(scoped) : i < j => touched[scoped[i]] < touched[scoped[j]]
    /\ \A x \in Runs : touched[x] <= clock

Present(x) == x = Default \/ Known(x)

\* The answers are the ones the script gives, in turn.
Answered(state, answers) ==
    /\ Len(answers) = state.attempts
    /\ \A i \in 1 .. Len(answers) :
          answers[i].status = ResponseStatus(state.configuration, i, answers[i].code)

\* The evidence of one run.
IsTail(state) ==
    /\ Len(state.requests) = 0 <=> state.sequence = 0
    /\ Len(state.requests) <= MAX_REQUESTS_PER_RUN
    /\ \A i \in 1 .. Len(state.requests) :
          state.requests[i].sequence = state.sequence - (Len(state.requests) - i)

ReceiverInv ==
    /\ TypeOK /\ InOrderOfUse
    /\ \A x \in Owners : Present(x) => Answered(run[x], script[x])
    /\ \A x \in Owners : IsTail(run[x])

-----------------------------------------------------------------------------
(* Sequences.                                                              *)

LEMMA RemovedAt ==
    ASSUME NEW S, NEW s \in Seq(S), NEW k \in 1 .. Len(s)
    PROVE  /\ RemoveAt(s, k) \in Seq(S) /\ Len(RemoveAt(s, k)) = Len(s) - 1
           /\ \A i \in 1 .. Len(s) - 1 :
                 RemoveAt(s, k)[i] = IF i < k THEN s[i] ELSE s[i + 1]
<1>1. Len(s) \in Nat /\ \A i \in 1 .. Len(s) : s[i] \in S
  BY LenProperties, ElementOfSeq
<1>. DEFINE front == SubSeq(s, 1, k - 1)
            back == SubSeq(s, k + 1, Len(s))
<1>2. /\ front \in Seq(S) /\ Len(front) = k - 1
      /\ \A i \in 1 .. k - 1 : front[i] = s[i]
  <2>1. 1 \in Int /\ k - 1 \in Int /\ \A i \in 1 .. k - 1 : s[i] \in S
    BY <1>1
  <2>. QED
    BY <2>1, <1>1, SubSeqProperties
<1>3. /\ back \in Seq(S) /\ Len(back) = Len(s) - k
      /\ \A i \in 1 .. Len(s) - k : back[i] = s[k + i]
  <2>1. k + 1 \in Int /\ Len(s) \in Int /\ \A i \in k + 1 .. Len(s) : s[i] \in S
    BY <1>1
  <2>2. /\ back \in Seq(S) /\ Len(back) = IF k + 1 <= Len(s) THEN Len(s) - (k + 1) + 1 ELSE 0
        /\ \A i \in 1 .. Len(s) - (k + 1) + 1 : back[i] = s[(k + 1) + i - 1]
    BY <2>1, SubSeqProperties
  <2>. QED
    BY <1>1, <2>2
<1>. HIDE DEF front, back
<1>4. /\ front \o back \in Seq(S) /\ Len(front \o back) = Len(front) + Len(back)
      /\ \A i \in 1 .. Len(front) + Len(back) :
            (front \o back)[i] = IF i <= Len(front) THEN front[i] ELSE back[i - Len(front)]
  BY <1>2, <1>3, ConcatProperties
<1>5. RemoveAt(s, k) = front \o back
  BY DEF RemoveAt, front, back
<1>6. Len(front) + Len(back) = Len(s) - 1
  BY <1>1, <1>2, <1>3
<1>7. ASSUME NEW i \in 1 .. Len(s) - 1
      PROVE  (front \o back)[i] = IF i < k THEN s[i] ELSE s[i + 1]
  <2>1. CASE i < k
    BY <1>1, <1>2, <1>4, <1>6, <2>1
  <2>2. CASE ~(i < k)
    <3>1. i - (k - 1) \in 1 .. Len(s) - k /\ ~(i <= k - 1) /\ k + (i - (k - 1)) = i + 1
      BY <1>1, <2>2
    <3>2. (front \o back)[i] = back[i - (k - 1)]
      BY <1>2, <1>4, <1>6, <3>1
    <3>. QED
      BY <1>3, <2>2, <3>1, <3>2
  <2>. QED
    BY <2>1, <2>2
<1>. QED
  BY <1>4, <1>5, <1>6, <1>7

\* run.requests[-n:], and the registry without its oldest.
LEMMA LastOf ==
    ASSUME NEW S, NEW s \in Seq(S), NEW n \in Nat, Len(s) > n,
           NEW t, t = SubSeq(s, Len(s) - n + 1, Len(s))
    PROVE  /\ t \in Seq(S) /\ Len(t) = n
           /\ \A i \in 1 .. n : t[i] = s[Len(s) - n + i]
<1>1. Len(s) \in Nat /\ \A i \in 1 .. Len(s) : s[i] \in S
  BY LenProperties, ElementOfSeq
<1>. DEFINE m == Len(s) - n + 1
<1>2. m \in Int /\ Len(s) \in Int /\ (\A i \in m .. Len(s) : s[i] \in S)
      /\ t = SubSeq(s, m, Len(s))
  BY <1>1
<1>. HIDE DEF m
<1>3. /\ t \in Seq(S) /\ Len(t) = IF m <= Len(s) THEN Len(s) - m + 1 ELSE 0
      /\ \A i \in 1 .. Len(s) - m + 1 : t[i] = s[m + i - 1]
  BY <1>2, SubSeqProperties
<1>4. Len(s) - m + 1 = n /\ \A i \in 1 .. n : m + i - 1 = Len(s) - n + i
  BY <1>1 DEF m
<1>5. Len(t) = n
  BY <1>1, <1>3 DEF m
<1>6. \A i \in 1 .. n : t[i] = s[Len(s) - n + i]
  BY <1>3, <1>4
<1>. QED
  BY <1>3, <1>5, <1>6

-----------------------------------------------------------------------------
(* The registry.                                                           *)

\* x is popped, if it is there, and put at the end.
LEMMA RefreshedOrder ==
    ASSUME TypeOK, InOrderOfUse, NEW x \in Runs, NEW order, order = Refreshed(x)
    PROVE  /\ order \in Seq(Runs) /\ Len(order) >= 1 /\ order[Len(order)] = x
           /\ Len(order) = IF Known(x) THEN Len(scoped) ELSE Len(scoped) + 1
           /\ \A i, j \in 1 .. Len(order) - 1 :
                 i < j => touched[order[i]] < touched[order[j]]
           /\ \A i \in 1 .. Len(order) - 1 : order[i] # x /\ Known(order[i])
           /\ \A i \in 1 .. Len(scoped) :
                 scoped[i] # x => \E j \in 1 .. Len(order) - 1 : order[j] = scoped[i]
<1>. DEFINE rest == RemoveFirst(scoped, x)
<1>0. scoped \in Seq(Runs) /\ Len(scoped) \in Nat
  BY LenProperties DEF TypeOK
<1>1. \A i \in 1 .. Len(scoped) : scoped[i] \in Runs /\ touched[scoped[i]] \in Nat
  BY <1>0, ElementOfSeq DEF TypeOK
<1>2. /\ rest \in Seq(Runs) /\ Len(rest) = IF Known(x) THEN Len(scoped) - 1 ELSE Len(scoped)
      /\ \A i, j \in 1 .. Len(rest) : i < j => touched[rest[i]] < touched[rest[j]]
      /\ \A i \in 1 .. Len(rest) : rest[i] # x /\ Known(rest[i])
      /\ \A i \in 1 .. Len(scoped) :
            scoped[i] # x => \E j \in 1 .. Len(rest) : rest[j] = scoped[i]
  <2>1. CASE ~Known(x)
    <3>1. rest = scoped
      BY <2>1 DEF Known, Contains, RemoveFirst
    <3>. QED
      BY <1>0, <2>1, <3>1 DEF Known, Contains, InOrderOfUse
  <2>2. CASE Known(x)
    <3>1. PICK k \in 1 .. Len(scoped) : scoped[k] = x
      BY <2>2 DEF Known, Contains
    <3>2. \A i \in 1 .. Len(scoped) : scoped[i] = x => i = k
      BY <1>0, <1>1, <3>1 DEF InOrderOfUse
    <3>3. {i \in 1 .. Len(scoped) : scoped[i] = x} = {k}
      BY <3>1, <3>2
    <3>4. Min({k}) = k
      BY DEF Min
    <3>5. rest = RemoveAt(scoped, k)
      BY <3>1, <3>3, <3>4 DEF RemoveFirst, SelectInSeq
    <3>6. /\ rest \in Seq(Runs) /\ Len(rest) = Len(scoped) - 1
          /\ \A i \in 1 .. Len(scoped) - 1 :
                rest[i] = IF i < k THEN scoped[i] ELSE scoped[i + 1]
      BY <1>0, <3>5, RemovedAt
    <3>. HIDE DEF rest
    <3>7. \A i \in 1 .. Len(rest) : rest[i] # x /\ Known(rest[i])
      <4>. SUFFICES ASSUME NEW i \in 1 .. Len(rest)
                    PROVE  rest[i] # x /\ Known(rest[i])
        OBVIOUS
      <4>. DEFINE a == IF i < k THEN i ELSE i + 1
      <4>1. a \in 1 .. Len(scoped) /\ a # k
        BY <1>0, <3>1, <3>6
      <4>2. rest[i] = scoped[a]
        BY <3>6
      <4>. HIDE DEF a
      <4>. QED
        BY <3>2, <4>1, <4>2 DEF Known, Contains
    <3>8. \A i, j \in 1 .. Len(rest) : i < j => touched[rest[i]] < touched[rest[j]]
      <4>. SUFFICES ASSUME NEW i \in 1 .. Len(rest), NEW j \in 1 .. Len(rest), i < j
                    PROVE  touched[rest[i]] < touched[rest[j]]
        OBVIOUS
      <4>. DEFINE a == IF i < k THEN i ELSE i + 1
                  b == IF j < k THEN j ELSE j + 1
      <4>1. a \in 1 .. Len(scoped) /\ b \in 1 .. Len(scoped) /\ a < b
        BY <1>0, <3>1, <3>6
      <4>2. rest[i] = scoped[a] /\ rest[j] = scoped[b]
        BY <3>6
      <4>. HIDE DEF a, b
      <4>. QED
        BY <4>1, <4>2 DEF InOrderOfUse
    <3>9. ASSUME NEW i \in 1 .. Len(scoped), scoped[i] # x
          PROVE  \E j \in 1 .. Len(rest) : rest[j] = scoped[i]
      <4>1. CASE i < k
        BY <1>0, <3>6, <4>1
      <4>2. CASE i > k
        <5>1. i - 1 \in 1 .. Len(rest) /\ rest[i - 1] = scoped[i]
          BY <1>0, <3>6, <4>2
        <5>. QED
          BY <5>1
      <4>. QED
        BY <1>0, <3>1, <3>9, <4>1, <4>2
    <3>. QED
      BY <2>2, <3>6, <3>7, <3>8, <3>9
  <2>. QED
    BY <2>1, <2>2
<1>. HIDE DEF rest
<1>3. order = Append(rest, x)
  BY DEF Refreshed, rest
<1>4. /\ order \in Seq(Runs) /\ Len(order) = Len(rest) + 1 /\ order[Len(rest) + 1] = x
      /\ \A i \in 1 .. Len(rest) : order[i] = rest[i]
  BY <1>2, <1>3, AppendProperties
<1>5. Len(rest) \in Nat /\ 1 .. Len(order) - 1 = 1 .. Len(rest)
  BY <1>2, <1>4, LenProperties
<1>6. /\ \A i, j \in 1 .. Len(order) - 1 :
            i < j => touched[order[i]] < touched[order[j]]
      /\ \A i \in 1 .. Len(order) - 1 : order[i] # x /\ Known(order[i])
  BY <1>2, <1>4, <1>5
<1>7. \A i \in 1 .. Len(scoped) :
        scoped[i] # x => \E j \in 1 .. Len(order) - 1 : order[j] = scoped[i]
  BY <1>2, <1>4, <1>5
<1>8. Len(order) >= 1 /\ Len(order) = IF Known(x) THEN Len(scoped) ELSE Len(scoped) + 1
  BY <1>0, <1>2, <1>4, <1>5
<1>. QED
  BY <1>4, <1>6, <1>7, <1>8

\* What a use of x does to the registry, and to the runs that are not kept.
RegistryStep(x) ==
    /\ scoped' \in Seq(Runs) /\ InOrderOfUse'
    /\ \A y \in Runs : Contains(scoped', y) => y = x \/ Known(y)
    /\ \A y \in Runs : Known(y) /\ ~Contains(scoped', y) =>
          \A z \in Range(scoped') : touched'[z] > touched[y]

LEMMA UseOfRun ==
    ASSUME TypeOK, InOrderOfUse, NEW x \in Runs, Touch(x),
           scoped' = Bounded(Refreshed(x))
    PROVE  RegistryStep(x)
<1>. DEFINE order == Refreshed(x)
            n == Len(order)
<1>0. Len(scoped) \in Nat /\ Len(scoped) <= MAX_SCOPED_RUNS /\ MAX_SCOPED_RUNS \in Nat \ {0}
  BY LenProperties, ReceiverAssumption DEF TypeOK, InOrderOfUse
<1>1. /\ touched' \in [Runs -> Nat] /\ touched'[x] = clock + 1 /\ clock' = clock + 1
      /\ \A y \in Runs : y # x => touched'[y] = touched[y]
      /\ \A y \in Runs : touched[y] \in Nat /\ touched[y] <= clock /\ touched'[y] <= clock'
      /\ clock \in Nat
  <2>1. x # Default
    BY ReceiverAssumption
  <2>. QED
    BY <2>1 DEF Touch, TypeOK, InOrderOfUse
<1>2. /\ order \in Seq(Runs) /\ n >= 1 /\ order[n] = x
      /\ n = IF Known(x) THEN Len(scoped) ELSE Len(scoped) + 1
      /\ \A i, j \in 1 .. n - 1 : i < j => touched[order[i]] < touched[order[j]]
      /\ \A i \in 1 .. n - 1 : order[i] # x /\ Known(order[i])
      /\ \A i \in 1 .. Len(scoped) :
            scoped[i] # x => \E j \in 1 .. n - 1 : order[j] = scoped[i]
  BY RefreshedOrder
<1>3. n \in Nat /\ n <= MAX_SCOPED_RUNS + 1 /\ \A i \in 1 .. n : order[i] \in Runs
  BY <1>0, <1>2, LenProperties, ElementOfSeq
<1>. HIDE DEF order
<1>4. \A i, j \in 1 .. n : i < j => touched'[order[i]] < touched'[order[j]]
  <2>. SUFFICES ASSUME NEW i \in 1 .. n, NEW j \in 1 .. n, i < j
                PROVE  touched'[order[i]] < touched'[order[j]]
    OBVIOUS
  <2>1. i \in 1 .. n - 1 /\ order[i] # x /\ order[i] \in Runs /\ order[j] \in Runs
    BY <1>2, <1>3
  <2>2. CASE j = n
    <3>1. order[j] = x /\ touched'[order[j]] = clock + 1
      BY <1>1, <1>2, <2>2
    <3>2. touched'[order[i]] \in Nat /\ touched'[order[i]] <= clock
      BY <1>1, <2>1
    <3>. QED
      BY <1>1, <3>1, <3>2
  <2>3. CASE j # n
    <3>1. j \in 1 .. n - 1 /\ order[j] # x
      BY <1>2, <1>3, <2>3
    <3>. QED
      BY <1>1, <1>2, <2>1, <3>1
  <2>. QED
    BY <2>2, <2>3
\* Nothing, or the oldest, is dropped.
<1>5. PICK d \in {0, 1} :
        /\ scoped' \in Seq(Runs) /\ Len(scoped') = n - d /\ d < n
        /\ n - d <= MAX_SCOPED_RUNS
        /\ \A i \in 1 .. n - d : scoped'[i] = order[i + d]
  <2>1. CASE n > MAX_SCOPED_RUNS
    <3>1. n = MAX_SCOPED_RUNS + 1 /\ n - 1 = MAX_SCOPED_RUNS /\ 1 < n
      BY <1>0, <1>3, <2>1
    <3>2. scoped' = SubSeq(order, n - MAX_SCOPED_RUNS + 1, n)
      BY <2>1 DEF Bounded, order
    <3>3. /\ scoped' \in Seq(Runs) /\ Len(scoped') = MAX_SCOPED_RUNS
          /\ \A i \in 1 .. MAX_SCOPED_RUNS : scoped'[i] = order[n - MAX_SCOPED_RUNS + i]
      <4>1. /\ order \in Seq(Runs) /\ MAX_SCOPED_RUNS \in Nat /\ Len(order) > MAX_SCOPED_RUNS
            /\ scoped' = SubSeq(order, Len(order) - MAX_SCOPED_RUNS + 1, Len(order))
        BY <1>0, <1>2, <2>1, <3>2
      <4>. HIDE DEF order
      <4>. QED
        BY <4>1, LastOf
    <3>4. \A i \in 1 .. MAX_SCOPED_RUNS : n - MAX_SCOPED_RUNS + i = i + 1
      <4>1. MAX_SCOPED_RUNS \in Nat /\ n - MAX_SCOPED_RUNS = 1
        BY <1>0, <3>1
      <4>. HIDE DEF n
      <4>. QED
        BY <4>1
    <3>5. \A i \in 1 .. n - 1 : scoped'[i] = order[i + 1]
      BY <3>1, <3>3, <3>4
    <3>. WITNESS 1 \in {0, 1}
    <3>. QED
      BY <1>0, <3>1, <3>3, <3>5
  <2>2. CASE ~(n > MAX_SCOPED_RUNS)
    <3>1. scoped' = order
      BY <2>2 DEF Bounded, order
    <3>. WITNESS 0 \in {0, 1}
    <3>. QED
      BY <1>0, <1>2, <1>3, <2>2, <3>1
  <2>. QED
    BY <2>1, <2>2
<1>. HIDE DEF n
<1>6. InOrderOfUse'
  <2>1. \A i, j \in 1 .. Len(scoped') : i < j => touched'[scoped'[i]] < touched'[scoped'[j]]
    <3>. SUFFICES ASSUME NEW i \in 1 .. Len(scoped'), NEW j \in 1 .. Len(scoped'), i < j
                  PROVE  touched'[scoped'[i]] < touched'[scoped'[j]]
      OBVIOUS
    <3>1. /\ i + d \in 1 .. n /\ j + d \in 1 .. n /\ i + d < j + d
          /\ scoped'[i] = order[i + d] /\ scoped'[j] = order[j + d]
      BY <1>3, <1>5
    <3>. QED
      BY <1>4, <3>1
  <2>. QED
    BY <1>1, <1>5, <2>1 DEF InOrderOfUse
<1>7. ASSUME NEW y \in Runs, Contains(scoped', y)
      PROVE  y = x \/ Known(y)
  <2>1. PICK i \in 1 .. Len(scoped') : scoped'[i] = y
    BY <1>7 DEF Contains
  <2>2. order[i + d] = y /\ i + d \in 1 .. n
    BY <1>3, <1>5, <2>1
  <2>3. i + d = n \/ i + d \in 1 .. n - 1
    BY <1>3, <2>2
  <2>. QED
    BY <1>2, <2>2, <2>3
<1>8. ASSUME NEW y \in Runs, Known(y), ~Contains(scoped', y), NEW z \in Range(scoped')
      PROVE  touched'[z] > touched[y]
  <2>1. order[n] = x /\ n - d \in 1 .. n /\ scoped'[n - d] = x
    BY <1>2, <1>3, <1>5
  <2>2. y # x
    BY <1>5, <1>8, <2>1 DEF Contains
  <2>3. PICK j \in 1 .. n - 1 : order[j] = y
    BY <1>2, <1>8, <2>2 DEF Known, Contains
  <2>4. j <= d
    <3>. SUFFICES ASSUME j > d PROVE FALSE
      BY <1>3, <1>5
    <3>1. j - d \in 1 .. Len(scoped') /\ scoped'[j - d] = y
      BY <1>3, <1>5, <2>3
    <3>. QED
      BY <1>8, <3>1 DEF Contains
  <2>5. PICK i \in 1 .. Len(scoped') : z = scoped'[i]
    <3>1. DOMAIN scoped' = 1 .. Len(scoped')
      BY <1>5, LenProperties
    <3>. QED
      BY <1>8, <3>1 DEF Range
  <2>6. z = order[i + d] /\ j < i + d /\ i + d \in 1 .. n /\ j \in 1 .. n
    BY <1>3, <1>5, <2>4, <2>5
  <2>7. touched'[y] < touched'[z]
    BY <1>4, <2>3, <2>6
  <2>8. z \in Runs
    BY <1>3, <2>6
  <2>. QED
    BY <1>1, <2>2, <2>7, <2>8
<1>. QED
  BY <1>5, <1>6, <1>7, <1>8 DEF RegistryStep

LEMMA UseOfNone ==
    ASSUME TypeOK, InOrderOfUse, Touch(Default), UNCHANGED scoped
    PROVE  RegistryStep(Default)
<1>1. touched' = touched /\ clock' = clock + 1
  BY DEF Touch
<1>. QED
  BY <1>1 DEF RegistryStep, InOrderOfUse, TypeOK, Known

LEMMA TouchType ==
    ASSUME TypeOK, NEW x \in Owners, Touch(x)
    PROVE  touched' \in [Runs -> Nat] /\ clock' \in Nat
BY DEF TypeOK, Touch, Owners

-----------------------------------------------------------------------------
(* The state of the runs.                                                  *)

LEMMA NewRunType ==
    /\ NewRun \in RunStates /\ IsTail(NewRun) /\ Answered(NewRun, << >>)
    /\ << >> \in Seq(Answers)
<1>1. << >> \in Seq(Answers) /\ Len(<< >>) = 0
  BY EmptySeq
<1>2. /\ NewRun.requests = << >> /\ NewRun.attempts = 0 /\ NewRun.sequence = 0
      /\ NewRun.configuration = PlainConfiguration
  BY DEF NewRun
<1>3. NewRun \in RunStates
  BY <1>1 DEF NewRun, RunStates, AllConfigurations
<1>4. IsTail(NewRun)
  BY <1>1, <1>2, ReceiverAssumption DEF IsTail
<1>5. Answered(NewRun, << >>)
  BY <1>1, <1>2 DEF Answered
<1>. QED
  BY <1>1, <1>3, <1>4, <1>5

\* A request works on one state; another may be lost by eviction.
LEMMA OneStateChanges ==
    ASSUME ReceiverInv, NEW x \in Owners, RegistryStep(x),
           touched' \in [Runs -> Nat], clock' \in Nat,
           run' \in [Owners -> RunStates], script' \in [Owners -> Seq(Answers)],
           \A y \in Owners : y # x =>
              /\ script'[y] = script[y]
              /\ \/ run'[y] = run[y]
                 \/ run'[y] = NewRun /\ y # Default /\ ~Contains(scoped', y),
           Answered(run'[x], script'[x]), IsTail(run'[x])
    PROVE  ReceiverInv'
<1>1. TypeOK'
  BY DEF TypeOK, RegistryStep
<1>2. InOrderOfUse'
  BY DEF RegistryStep
<1>3. ASSUME NEW y \in Owners, Present(y)'
      PROVE  Answered(run'[y], script'[y])
  <2>1. CASE y = x
    BY <2>1
  <2>2. CASE y # x
    <3>1. y = Default \/ Contains(scoped', y)
      BY <1>3 DEF Present, Known
    <3>2. Present(y)
      BY <2>2, <3>1 DEF Present, RegistryStep, Owners
    <3>3. run'[y] = run[y] /\ script'[y] = script[y]
      BY <2>2, <3>1
    <3>. QED
      BY <3>2, <3>3 DEF ReceiverInv
  <2>. QED
    BY <2>1, <2>2
<1>4. ASSUME NEW y \in Owners
      PROVE  IsTail(run'[y])
  <2>1. CASE y = x
    BY <2>1
  <2>2. CASE y # x
    <3>1. run'[y] = run[y] \/ run'[y] = NewRun
      BY <2>2
    <3>. QED
      BY <3>1, NewRunType DEF ReceiverInv
  <2>. QED
    BY <2>1, <2>2
<1>5. \A y \in Owners : (Present(y) => Answered(run[y], script[y]))'
  BY <1>3 DEF Answered, ResponseStatus
<1>6. \A y \in Owners : IsTail(run[y])'
  BY <1>4 DEF IsTail
<1>. QED
  BY <1>1, <1>2, <1>5, <1>6 DEF ReceiverInv

\* PUT and GET: the run is created if it is not there.
LEMMA ControlStep ==
    ASSUME ReceiverInv, NEW x \in Owners, Touch(x), scoped' = ConfiguredOrder(x),
           NEW state \in RunStates, run' = Keeping(x, state),
           NEW answers \in Seq(Answers), script' = [script EXCEPT ![x] = answers],
           Answered(state, answers), IsTail(state)
    PROVE  ReceiverInv' /\ RegistryStep(x)
<1>1. RegistryStep(x)
  <2>1. CASE x = Default
    BY <2>1, UseOfNone DEF ConfiguredOrder, ReceiverInv
  <2>2. CASE x # Default
    BY <2>2, UseOfRun DEF ConfiguredOrder, ReceiverInv, Owners
  <2>. QED
    BY <2>1, <2>2
<1>2. touched' \in [Runs -> Nat] /\ clock' \in Nat
  BY TouchType DEF ReceiverInv
<1>3. script' \in [Owners -> Seq(Answers)] /\ script'[x] = answers
      /\ \A y \in Owners : y # x => script'[y] = script[y]
  BY DEF ReceiverInv, TypeOK
<1>4. \A y \in Owners :
        run'[y] = IF y = x THEN state
                  ELSE IF y = Default \/ Contains(scoped', y) THEN run[y] ELSE NewRun
  BY DEF Keeping, Owners
<1>5. run' \in [Owners -> RunStates]
  <2>1. \A y \in Owners : run'[y] \in RunStates
    BY <1>4, NewRunType DEF ReceiverInv, TypeOK
  <2>2. run' = [y \in Owners |-> run'[y]]
    BY DEF Keeping, Owners
  <2>. QED
    BY <2>1, <2>2
<1>. QED
  BY <1>1, <1>2, <1>3, <1>4, <1>5, OneStateChanges

\* The state such a request finds.
LEMMA FoundState ==
    ASSUME ReceiverInv, NEW x \in Owners
    PROVE  /\ ConfiguredState(x) \in RunStates /\ IsTail(ConfiguredState(x))
           /\ Present(x) => Answered(ConfiguredState(x), script[x])
           /\ ~Present(x) => ConfiguredState(x) = NewRun
<1>1. CASE Present(x)
  <2>1. ConfiguredState(x) = run[x]
    BY <1>1 DEF Present, ConfiguredState
  <2>. QED
    BY <1>1, <2>1 DEF ReceiverInv, TypeOK
<1>2. CASE ~Present(x)
  <2>1. ConfiguredState(x) = NewRun
    BY <1>2 DEF Present, ConfiguredState
  <2>. QED
    BY <1>2, <2>1, NewRunType
<1>. QED
  BY <1>1, <1>2

LEMMA ConfigureKeeps ==
    ASSUME ReceiverInv, NEW x \in Owners, NEW c \in Configurations, Configure(x, c)
    PROVE  ReceiverInv' /\ RegistryStep(x)
<1>. DEFINE found == ConfiguredState(x)
            state == [found EXCEPT !.configuration = c, !.attempts = 0]
<1>1. found \in RunStates /\ IsTail(found)
  BY FoundState
<1>. HIDE DEF found
<1>2. /\ state \in RunStates /\ state.configuration = c /\ state.attempts = 0
      /\ state.sequence = found.sequence /\ state.requests = found.requests
  BY <1>1 DEF RunStates, AllConfigurations
<1>3. run' = Keeping(x, state) /\ script' = [script EXCEPT ![x] = << >>]
      /\ Touch(x) /\ scoped' = ConfiguredOrder(x)
  BY DEF Configure, found
<1>. HIDE DEF state
<1>4. IsTail(state)
  BY <1>1, <1>2 DEF IsTail
<1>5. << >> \in Seq(Answers) /\ Answered(state, << >>)
  BY <1>2, EmptySeq DEF Answered
<1>. QED
  BY <1>2, <1>3, <1>4, <1>5, ControlStep

LEMMA InspectKeeps ==
    ASSUME ReceiverInv, NEW x \in Owners, Inspect(x)
    PROVE  ReceiverInv' /\ RegistryStep(x)
<1>. DEFINE answers == IF Present(x) THEN script[x] ELSE << >>
<1>1. answers \in Seq(Answers)
  BY EmptySeq DEF ReceiverInv, TypeOK
<1>2. Answered(ConfiguredState(x), answers)
  BY FoundState, NewRunType
<1>3. script' = [script EXCEPT ![x] = answers]
  BY DEF Inspect, Present
<1>. HIDE DEF answers
<1>. QED
  BY <1>1, <1>2, <1>3, FoundState, ControlStep DEF Inspect

-----------------------------------------------------------------------------
(* The webhooks.                                                           *)

LEMMA AnswerType ==
    ASSUME NEW c \in AllConfigurations, NEW body \in Bodies, NEW channel \in Channels,
           NEW attempt, NEW n \in Nat
    PROVE  LET code == Judgement(body, channel, c)
           IN  [sequence |-> n, code |-> code, status |-> ResponseStatus(c, attempt, code)]
                  \in Answers
<1>1. ResponseStatus(c, attempt, Judgement(body, channel, c)) \in {200, 400, 429, 503}
  BY DEF ResponseStatus
<1>2. Judgement(body, channel, c) \in Codes
  BY DEF Codes
<1>. QED
  BY <1>1, <1>2 DEF Answers

\* The evidence stays an unbroken tail when an answer is added and the oldest
\* is dropped.
LEMMA TrimmedTail ==
    ASSUME NEW old \in RunStates, IsTail(old), NEW answer \in Answers,
           answer.sequence = old.sequence + 1, NEW new \in RunStates,
           new.sequence = old.sequence + 1,
           new.requests = Trimmed(Append(old.requests, answer))
    PROVE  IsTail(new)
<1>. DEFINE m == Len(old.requests)
            longer == Append(old.requests, answer)
<1>0. /\ old.requests \in Seq(Answers) /\ old.sequence \in Nat /\ m \in Nat
      /\ MAX_REQUESTS_PER_RUN \in Nat \ {0}
  BY LenProperties, ReceiverAssumption DEF RunStates
<1>1. /\ longer \in Seq(Answers) /\ Len(longer) = m + 1 /\ longer[m + 1] = answer
      /\ \A i \in 1 .. m : longer[i] = old.requests[i]
  BY <1>0, AppendProperties
<1>2. /\ m <= MAX_REQUESTS_PER_RUN
      /\ \A i \in 1 .. m : old.requests[i].sequence = old.sequence - (m - i)
  BY DEF IsTail
<1>. HIDE DEF longer, m
<1>3. \A i \in 1 .. m + 1 : longer[i].sequence = old.sequence + 1 - (m + 1 - i)
  <2>. SUFFICES ASSUME NEW i \in 1 .. m + 1
                PROVE  longer[i].sequence = old.sequence + 1 - (m + 1 - i)
    OBVIOUS
  <2>1. CASE i = m + 1
    BY <1>0, <1>1, <2>1
  <2>2. CASE i # m + 1
    <3>1. i \in 1 .. m
      BY <1>0, <2>2
    <3>2. longer[i].sequence = old.sequence - (m - i)
      BY <1>1, <1>2, <3>1
    <3>. QED
      BY <1>0, <3>1, <3>2
  <2>. QED
    BY <2>1, <2>2
<1>4. CASE m + 1 > MAX_REQUESTS_PER_RUN
  <2>1. m = MAX_REQUESTS_PER_RUN
    BY <1>0, <1>2, <1>4
  <2>2. new.requests = SubSeq(longer, Len(longer) - MAX_REQUESTS_PER_RUN + 1, Len(longer))
    BY <1>1, <1>4 DEF Trimmed, longer
  <2>3. /\ Len(new.requests) = MAX_REQUESTS_PER_RUN
        /\ \A i \in 1 .. MAX_REQUESTS_PER_RUN :
              new.requests[i] = longer[Len(longer) - MAX_REQUESTS_PER_RUN + i]
    BY <1>0, <1>1, <1>4, <2>2, LastOf
  <2>4. \A i \in 1 .. m : new.requests[i] = longer[i + 1] /\ i + 1 \in 1 .. m + 1
    <3>1. \A i \in 1 .. m : Len(longer) - MAX_REQUESTS_PER_RUN + i = i + 1
      BY <1>0, <1>1, <2>1
    <3>2. 1 .. MAX_REQUESTS_PER_RUN = 1 .. m
      BY <2>1
    <3>3. \A i \in 1 .. m : new.requests[i] = longer[i + 1]
      BY <2>3, <3>1, <3>2
    <3>4. \A i \in 1 .. m : i + 1 \in 1 .. m + 1
      BY <1>0
    <3>. QED
      BY <3>3, <3>4
  <2>5. ASSUME NEW i \in 1 .. m
        PROVE  new.requests[i].sequence = new.sequence - (m - i)
    <3>1. longer[i + 1].sequence = old.sequence + 1 - (m + 1 - (i + 1))
      BY <1>3, <2>4
    <3>2. old.sequence + 1 - (m + 1 - (i + 1)) = new.sequence - (m - i)
      BY <1>0
    <3>. QED
      BY <2>4, <3>1, <3>2
  <2>6. new.sequence # 0 /\ Len(new.requests) # 0
    BY <1>0, <2>3
  <2>7. Len(new.requests) = m /\ m <= MAX_REQUESTS_PER_RUN
    BY <1>0, <2>1, <2>3
  <2>. QED
    BY <2>5, <2>6, <2>7 DEF IsTail
<1>5. CASE ~(m + 1 > MAX_REQUESTS_PER_RUN)
  <2>1. new.requests = longer
    BY <1>1, <1>5 DEF Trimmed, longer
  <2>2. new.sequence # 0 /\ Len(new.requests) # 0 /\ Len(new.requests) <= MAX_REQUESTS_PER_RUN
    BY <1>0, <1>1, <1>5, <2>1
  <2>3. ASSUME NEW i \in 1 .. m + 1
        PROVE  longer[i].sequence = new.sequence - (m + 1 - i)
    <3>1. old.sequence + 1 - (m + 1 - i) = new.sequence - (m + 1 - i)
      BY <1>0
    <3>. QED
      BY <1>3, <3>1
  <2>4. Len(new.requests) = m + 1
    BY <1>1, <2>1
  <2>5. \A i \in 1 .. Len(new.requests) :
          new.requests[i].sequence = new.sequence - (Len(new.requests) - i)
    <3>. SUFFICES ASSUME NEW i \in 1 .. Len(new.requests)
                  PROVE  new.requests[i].sequence = new.sequence - (Len(new.requests) - i)
      OBVIOUS
    <3>1. i \in 1 .. m + 1
      BY <2>4
    <3>2. longer[i].sequence = new.sequence - (m + 1 - i)
      BY <2>3, <3>1
    <3>. QED
      BY <1>0, <2>1, <2>4, <3>2
  <2>. QED
    BY <2>2, <2>5 DEF IsTail
<1>. QED
  BY <1>4, <1>5

LEMMA TrimmedType ==
    ASSUME NEW requests \in Seq(Answers), NEW answer \in Answers
    PROVE  Trimmed(Append(requests, answer)) \in Seq(Answers)
<1>. DEFINE longer == Append(requests, answer)
<1>1. longer \in Seq(Answers) /\ MAX_REQUESTS_PER_RUN \in Nat
  BY AppendProperties, ReceiverAssumption
<1>. HIDE DEF longer
<1>2. Trimmed(longer) \in Seq(Answers)
  BY <1>1, LastOf DEF Trimmed
<1>. QED
  BY <1>2 DEF longer

LEMMA AnsweredNext ==
    ASSUME NEW old \in RunStates, NEW answers \in Seq(Answers), Answered(old, answers),
           NEW answer \in Answers, NEW new \in RunStates,
           answer.status = ResponseStatus(old.configuration, old.attempts + 1, answer.code),
           new.configuration = old.configuration, new.attempts = old.attempts + 1
    PROVE  Answered(new, Append(answers, answer))
<1>0. Len(answers) \in Nat /\ old.attempts = Len(answers)
  BY LenProperties DEF Answered
<1>1. /\ Len(Append(answers, answer)) = Len(answers) + 1
      /\ Append(answers, answer)[Len(answers) + 1] = answer
      /\ \A i \in 1 .. Len(answers) : Append(answers, answer)[i] = answers[i]
  BY AppendProperties
<1>2. ASSUME NEW i \in 1 .. Len(answers) + 1
      PROVE  Append(answers, answer)[i].status
                = ResponseStatus(new.configuration, i, Append(answers, answer)[i].code)
  <2>1. CASE i = Len(answers) + 1
    BY <1>0, <1>1, <2>1
  <2>2. CASE i # Len(answers) + 1
    <3>1. i \in 1 .. Len(answers)
      BY <1>0, <2>2
    <3>. QED
      BY <1>1, <3>1 DEF Answered
  <2>. QED
    BY <2>1, <2>2
<1>. QED
  BY <1>0, <1>1, <1>2 DEF Answered

LEMMA ReceiveWebhookKeeps ==
    ASSUME ReceiverInv, NEW x \in Owners, NEW body \in Bodies, NEW channel \in Channels,
           ReceiveWebhook(x, body, channel)
    PROVE  ReceiverInv' /\ RegistryStep(WebhookOwner(x))
<1>. DEFINE owner == WebhookOwner(x)
            state == run[owner]
            code == Judgement(body, channel, state.configuration)
            answer == [sequence |-> state.sequence + 1, code |-> code,
                       status |-> ResponseStatus(state.configuration,
                                                 state.attempts + 1, code)]
            new == [state EXCEPT !.attempts = @ + 1, !.sequence = @ + 1,
                                 !.requests = Trimmed(Append(@, answer))]
<1>1. owner \in Owners /\ Present(owner) /\ (owner = Default \/ (owner = x /\ Known(x)))
  BY DEF WebhookOwner, Present, Owners
<1>2. /\ state \in RunStates /\ IsTail(state) /\ Answered(state, script[owner])
      /\ script[owner] \in Seq(Answers)
  BY <1>1 DEF ReceiverInv, TypeOK
<1>3. /\ Touch(owner)
      /\ scoped' = WebhookOrder(x)
      /\ run' = [run EXCEPT ![owner] = new]
      /\ script' = [script EXCEPT ![owner] = Append(script[owner], answer)]
  BY <1>1, <1>2 DEF ReceiveWebhook, ReceiverInv, TypeOK, RunStates
<1>4. RegistryStep(owner)
  <2>1. CASE owner = Default
    BY <1>3, <2>1, UseOfNone DEF ReceiverInv, WebhookOrder
  <2>2. CASE owner # Default
    <3>1. owner = x /\ Known(x) /\ x \in Runs /\ scoped' = Refreshed(x)
      BY <1>1, <1>3, <2>2 DEF WebhookOrder, Owners
    <3>2. Len(Refreshed(x)) = Len(scoped)
      BY <3>1, RefreshedOrder DEF ReceiverInv
    <3>3. ~(Len(Refreshed(x)) > MAX_SCOPED_RUNS)
      BY <3>2, LenProperties, ReceiverAssumption DEF ReceiverInv, TypeOK, InOrderOfUse
    <3>4. scoped' = Bounded(Refreshed(x))
      BY <3>1, <3>3 DEF Bounded
    <3>. QED
      BY <1>3, <3>1, <3>4, UseOfRun DEF ReceiverInv
  <2>. QED
    BY <2>1, <2>2
<1>. HIDE DEF owner
<1>5. /\ answer \in Answers /\ answer.sequence = state.sequence + 1
      /\ answer.status
            = ResponseStatus(state.configuration, state.attempts + 1, answer.code)
  <2>1. state.configuration \in AllConfigurations /\ state.sequence + 1 \in Nat
    BY <1>2 DEF RunStates
  <2>. QED
    BY <2>1, AnswerType
<1>. HIDE DEF answer, state
<1>6. Trimmed(Append(state.requests, answer)) \in Seq(Answers)
  BY <1>2, <1>5, TrimmedType DEF RunStates
<1>7. /\ new \in RunStates /\ new.configuration = state.configuration
      /\ new.attempts = state.attempts + 1 /\ new.sequence = state.sequence + 1
      /\ new.requests = Trimmed(Append(state.requests, answer))
  <2>1. new = [state EXCEPT !.attempts = state.attempts + 1, !.sequence = state.sequence + 1,
                            !.requests = Trimmed(Append(state.requests, answer))]
    BY <1>2 DEF RunStates
  <2>. DEFINE kept == Trimmed(Append(state.requests, answer))
  <2>2. kept \in Seq(Answers) /\ new = [state EXCEPT !.attempts = state.attempts + 1,
                                         !.sequence = state.sequence + 1, !.requests = kept]
    BY <1>6, <2>1, Zenon
  <2>. HIDE DEF new, kept
  <2>3. state.attempts + 1 \in Nat /\ state.sequence + 1 \in Nat
    BY <1>2 DEF RunStates
  <2>4. new \in RunStates
    BY <1>2, <2>2, <2>3, Zenon DEF RunStates
  <2>5. new.attempts = state.attempts + 1 /\ new.sequence = state.sequence + 1
    BY <1>2, <2>2, Zenon DEF RunStates
  <2>6. new.configuration = state.configuration /\ new.requests = kept
    BY <1>2, <2>2, Zenon DEF RunStates
  <2>. QED
    BY <2>4, <2>5, <2>6 DEF kept
<1>. HIDE DEF new
<1>8. IsTail(new) /\ Answered(new, Append(script[owner], answer))
  BY <1>2, <1>5, <1>7, TrimmedTail, AnsweredNext
<1>9. /\ run' \in [Owners -> RunStates] /\ run'[owner] = new
      /\ script' \in [Owners -> Seq(Answers)]
      /\ script'[owner] = Append(script[owner], answer)
      /\ \A y \in Owners : y # owner => run'[y] = run[y] /\ script'[y] = script[y]
  BY <1>1, <1>2, <1>3, <1>5, <1>7, AppendProperties DEF ReceiverInv, TypeOK
<1>10. touched' \in [Runs -> Nat] /\ clock' \in Nat
  BY <1>1, <1>3, TouchType DEF ReceiverInv
<1>11. ReceiverInv'
  BY <1>1, <1>4, <1>8, <1>9, <1>10, OneStateChanges
<1>. QED
  BY <1>4, <1>11 DEF owner

-----------------------------------------------------------------------------
LEMMA Pristine ==
    ASSUME NEW r, r = [x \in Owners |-> NewRun], NEW t, t = [x \in Owners |-> << >>]
    PROVE  /\ r \in [Owners -> RunStates] /\ t \in [Owners -> Seq(Answers)]
           /\ \A x \in Owners : IsTail(r[x]) /\ Answered(r[x], t[x])
BY NewRunType

LEMMA InitReceiver ==
    ASSUME Init
    PROVE  ReceiverInv
<1>1. scoped \in Seq(Runs) /\ Len(scoped) = 0
  BY EmptySeq DEF Init
<1>2. /\ run \in [Owners -> RunStates] /\ script \in [Owners -> Seq(Answers)]
      /\ \A x \in Owners : IsTail(run[x]) /\ Answered(run[x], script[x])
  BY Pristine DEF Init, Owners
<1>3. TypeOK
  BY <1>1, <1>2 DEF Init, TypeOK
<1>4. InOrderOfUse
  BY <1>1, ReceiverAssumption DEF Init, InOrderOfUse
<1>. QED
  BY <1>2, <1>3, <1>4 DEF ReceiverInv

LEMMA RestartKeeps ==
    ASSUME ReceiverInv, Restart
    PROVE  ReceiverInv' /\ scoped' = << >>
<1>1. scoped' \in Seq(Runs) /\ Len(scoped') = 0 /\ scoped' = << >>
  BY EmptySeq DEF Restart
<1>2. /\ run' \in [Owners -> RunStates] /\ script' \in [Owners -> Seq(Answers)]
      /\ \A x \in Owners : IsTail(run'[x]) /\ Answered(run'[x], script'[x])
  BY Pristine DEF Restart, Owners
<1>3. touched' = touched /\ clock' = clock + 1
  BY DEF Restart, Touch
<1>4. TypeOK'
  BY <1>1, <1>2, <1>3 DEF ReceiverInv, TypeOK
<1>5. InOrderOfUse'
  BY <1>1, <1>3, ReceiverAssumption DEF ReceiverInv, TypeOK, InOrderOfUse
<1>6. \A x \in Owners : IsTail(run[x])' /\ Answered(run[x], script[x])'
  BY <1>2 DEF IsTail, Answered, ResponseStatus
<1>. QED
  BY <1>1, <1>4, <1>5, <1>6 DEF ReceiverInv

\* Every step keeps the invariant, and is the use of a run, a restart, or nothing.
LEMMA NextKeeps ==
    ASSUME ReceiverInv, [Next]_vars
    PROVE  /\ ReceiverInv'
           /\ \/ \E x \in Owners : RegistryStep(x)
              \/ scoped' = << >>
              \/ UNCHANGED vars
<1>1. ASSUME NEW x \in Owners, NEW c \in Configurations, Configure(x, c)
      PROVE  ReceiverInv' /\ \E y \in Owners : RegistryStep(y)
  BY <1>1, ConfigureKeeps
<1>2. ASSUME NEW x \in Owners, Inspect(x)
      PROVE  ReceiverInv' /\ \E y \in Owners : RegistryStep(y)
  BY <1>2, InspectKeeps
<1>3. ASSUME NEW x \in Owners, NEW body \in Bodies, NEW channel \in Channels,
             ReceiveWebhook(x, body, channel)
      PROVE  ReceiverInv' /\ \E y \in Owners : RegistryStep(y)
  <2>1. WebhookOwner(x) \in Owners
    BY DEF WebhookOwner, Owners
  <2>. QED
    BY <1>3, <2>1, ReceiveWebhookKeeps
<1>4. CASE Restart
  BY <1>4, RestartKeeps
<1>5. CASE UNCHANGED vars
  BY <1>5 DEF vars, ReceiverInv, TypeOK, InOrderOfUse, Present, Known, Answered,
              ResponseStatus, IsTail
<1>. QED
  BY <1>1, <1>2, <1>3, <1>4, <1>5 DEF Next, Finished, Owners

\* Every reachable state of Receiver Lab satisfies the inductive invariant.
THEOREM ReceiverInvariant == Spec => []ReceiverInv
<1>1. Init => ReceiverInv
  BY InitReceiver
<1>2. ReceiverInv /\ [Next]_vars => ReceiverInv'
  BY NextKeeps
<1>. QED
  BY <1>1, <1>2, PTL DEF Spec

\* A run's script is its own, whatever other runs and the control plane do.
THEOREM ScriptIsAlwaysFollowed == Spec => []ScriptIsFollowed
<1>1. ReceiverInv => ScriptIsFollowed
  <2>. SUFFICES ASSUME ReceiverInv, NEW x \in Runs, Known(x), Scripted(run[x].configuration),
                       NEW i \in DOMAIN script[x]
                PROVE  script[x][i].status =
                         IF script[x][i].code # NoError THEN 400
                         ELSE IF i <= run[x].configuration.failures
                              THEN IF run[x].configuration.mode = "rate_limited" THEN 429 ELSE 503
                              ELSE 200
    BY DEF ScriptIsFollowed
  <2>1. x \in Owners /\ script[x] \in Seq(Answers) /\ Answered(run[x], script[x])
    BY DEF ReceiverInv, TypeOK, Owners, Present
  <2>2. i \in 1 .. Len(script[x])
    BY <2>1, LenProperties
  <2>3. script[x][i].status = ResponseStatus(run[x].configuration, i, script[x][i].code)
    BY <2>1, <2>2 DEF Answered
  <2>4. /\ run[x].configuration.mode \in {"fail_then_succeed", "rate_limited"}
        /\ run[x].configuration.failures # 0
    <3>0. run[x].configuration \in AllConfigurations
      BY <2>1 DEF ReceiverInv, TypeOK, RunStates
    <3>1. run[x].configuration.failures \in Int
      <4>1. PlainConfiguration.failures = 0
        BY DEF PlainConfiguration
      <4>. QED
        BY <3>0, <4>1, ReceiverAssumption DEF AllConfigurations
    <3>. QED
      BY <3>1 DEF Scripted
  <2>. QED
    BY <2>3, <2>4 DEF ResponseStatus
<1>. QED
  BY <1>1, ReceiverInvariant, PTL

\* The evidence is the unbroken tail of what was received, within its bounds.
THEOREM EvidenceIsAlwaysTheTail == Spec => []EvidenceIsTheTail
<1>1. ReceiverInv => EvidenceIsTheTail
  <2>. SUFFICES ASSUME ReceiverInv
                PROVE  EvidenceIsTheTail
    OBVIOUS
  <2>1. \A x \in Owners : DOMAIN run[x].requests = 1 .. Len(run[x].requests)
    BY LenProperties DEF ReceiverInv, TypeOK, RunStates
  <2>. QED
    BY <2>1 DEF ReceiverInv, InOrderOfUse, IsTail, EvidenceIsTheTail, Owners
<1>. QED
  BY <1>1, ReceiverInvariant, PTL

\* A step that evicts a run keeps only runs that were used after it.
THEOREM AlwaysEvictsTheIdlest == Spec => EvictsTheIdlest
<1>1. ReceiverInv /\ [Next]_vars =>
        [scoped' # << >> =>
            \A x \in Runs : Known(x) /\ ~Contains(scoped', x) =>
                \A y \in Range(scoped') : touched'[y] > touched[x]]_vars
  <2>. SUFFICES ASSUME ReceiverInv, [Next]_vars, scoped' # << >>,
                       ~UNCHANGED vars, NEW x \in Runs, Known(x), ~Contains(scoped', x),
                       NEW y \in Range(scoped')
                PROVE  touched'[y] > touched[x]
    OBVIOUS
  <2>1. PICK z \in Owners : RegistryStep(z)
    BY NextKeeps
  <2>. QED
    BY <2>1 DEF RegistryStep
<1>. QED
  BY <1>1, ReceiverInvariant, PTL DEF Spec, EvictsTheIdlest
=============================================================================
