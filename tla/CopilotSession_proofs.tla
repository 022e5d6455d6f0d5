------------------------ MODULE CopilotSession_proofs ------------------------
(* The properties of one session that is used without a lock, for any        *)
(* callers, any max_turns and any number of turns.                           *)
EXTENDS CopilotSession, SequenceTheorems, TLAPS

-----------------------------------------------------------------------------
(* The inductive invariant *)

Typed ==
    /\ maxTurns \in 1..MaxMaxTurns
    /\ history \in Seq(Turns)
    /\ retained \in [Callers -> Seq(Turns)]
    /\ asking \in [Callers -> 0..MaxAsks]
    /\ asked \in 0..MaxAsks
    /\ context \in [Turns -> Seq(Turns) \cup {None}]
    /\ answered \in Seq(Turns)
    /\ raced \in BOOLEAN

\* Each of these turns was shown the turns before it.
Follows(turns, shown, last) == \A i \in 1..Len(turns) :
    /\ turns[i] <= last
    /\ Len(shown[turns[i]]) >= i - 1
    /\ \A j \in 1..i - 1 :
        shown[turns[i]][Len(shown[turns[i]]) - (i - 1) + j] = turns[j]

\* What was shown stays what it was, and what a caller retained is what its turn
\* was shown.
Shown ==
    /\ Len(history) <= maxTurns
    /\ \A n \in Turns : IF n <= asked
        THEN context[n] \in Seq(Turns) /\ Len(context[n]) < maxTurns
        ELSE context[n] = None
    /\ Follows(history, context, asked)
    /\ \A c \in Callers :
        /\ Follows(retained[c], context, asked)
        /\ asking[c] <= asked
        /\ asking[c] # 0 => context[asking[c]] = retained[c]

\* While no call overlapped another, one caller at most is inside a turn and it
\* retained what there was to retain.
Alone == ~raced =>
    /\ \A c, d \in Callers : asking[c] # 0 /\ asking[d] # 0 => c = d
    /\ \A c \in Callers : asking[c] # 0 => retained[c] = RetainedHistory

SInv == Typed /\ Shown /\ Alone /\ AloneKeepsAll

-----------------------------------------------------------------------------
(* Lemmas about the operators *)

LEMMA NoneIsNoSequence == None \notin Seq(Turns)
<1>1. Turns \subseteq Nat
  BY SessionAssumption DEF Turns
<1>2. Seq(Turns) \subseteq Seq(Nat)
  BY <1>1, SeqMonotonic
<1> QED BY <1>2, SessionAssumption

\* Where the last n of l items begin, and how many they are.
LEMMA FirstOfLast ==
    ASSUME NEW l \in Nat, NEW n \in Nat
    PROVE  LET first == IF l > n THEN l - n + 1 ELSE 1
               m     == IF l > n THEN n ELSE l
           IN  /\ m \in Nat /\ first \in Int /\ first >= 1
               /\ m = IF first <= l THEN l - first + 1 ELSE 0
               /\ first = l - m + 1
  OBVIOUS

\* The last n turns of a sequence of turns (turns[-n:]).
LEMMA LastTyped ==
    ASSUME NEW s \in Seq(Turns), NEW n \in Nat
    PROVE  /\ LastTurns(s, n) \in Seq(Turns)
           /\ Len(LastTurns(s, n)) = IF Len(s) > n THEN n ELSE Len(s)
           /\ LastTurns(s, n)
                = SubSeq(s, Len(s) - Len(LastTurns(s, n)) + 1, Len(s))
           /\ \A i \in 1..Len(LastTurns(s, n)) :
                LastTurns(s, n)[i] = s[Len(s) - Len(LastTurns(s, n)) + i]
<1> DEFINE first == IF Len(s) > n THEN Len(s) - n + 1 ELSE 1
           m == IF Len(s) > n THEN n ELSE Len(s)
<1>0. Len(s) \in Nat
  BY LenProperties
<1>1. /\ m \in Nat /\ first \in Int /\ first >= 1
      /\ m = IF first <= Len(s) THEN Len(s) - first + 1 ELSE 0
      /\ first = Len(s) - m + 1
  BY <1>0, FirstOfLast, Zenon
<1>2. \A i \in first..Len(s) : s[i] \in Turns
  BY <1>0, <1>1, ElementOfSeq
<1>3. /\ SubSeq(s, first, Len(s)) \in Seq(Turns)
      /\ Len(SubSeq(s, first, Len(s))) = m
      /\ \A i \in 1..Len(s) - first + 1 : SubSeq(s, first, Len(s))[i] = s[first + i - 1]
  <2> HIDE DEF first, m
  <2>1. Len(s) \in Nat /\ first \in Int
    BY <1>0, <1>1
  <2>2. /\ SubSeq(s, first, Len(s)) \in Seq(Turns)
        /\ Len(SubSeq(s, first, Len(s)))
             = IF first <= Len(s) THEN Len(s) - first + 1 ELSE 0
        /\ \A i \in 1..Len(s) - first + 1 : SubSeq(s, first, Len(s))[i] = s[first + i - 1]
    BY <2>1, <1>2, SubSeqProperties
  <2> QED BY <1>1, <2>2
<1>4. LastTurns(s, n) = SubSeq(s, first, Len(s))
  BY DEF LastTurns
<1>5. Len(LastTurns(s, n)) = m
  BY <1>3, <1>4
<1>m. m = IF Len(s) > n THEN n ELSE Len(s)
  OBVIOUS
<1> HIDE DEF first, m
<1>6. first = Len(s) - Len(LastTurns(s, n)) + 1
  BY <1>1, <1>5
<1>7. Len(s) - first + 1 = Len(LastTurns(s, n))
  BY <1>0, <1>1, <1>5
<1>8. \A i \in 1..Len(LastTurns(s, n)) :
         LastTurns(s, n)[i] = s[Len(s) - Len(LastTurns(s, n)) + i]
  <2> SUFFICES ASSUME NEW i \in 1..Len(LastTurns(s, n))
               PROVE  LastTurns(s, n)[i] = s[Len(s) - Len(LastTurns(s, n)) + i]
    OBVIOUS
  <2>1. LastTurns(s, n)[i] = s[first + i - 1]
    BY <1>3, <1>4, <1>7
  <2>2. first + i - 1 = Len(s) - Len(LastTurns(s, n)) + i
    BY <1>6, <1>5, <1>1, <1>0
  <2> QED BY <2>1, <2>2
<1> QED BY <1>m, <1>3, <1>4, <1>5, <1>6, <1>8

\* A history with one more turn.
LEMMA OneMoreTurn ==
    ASSUME NEW s \in Seq(Turns), NEW r \in Turns
    PROVE  /\ Append(s, r) \in Seq(Turns)
           /\ Len(s) \in Nat /\ Len(Append(s, r)) = Len(s) + 1
           /\ \A i \in 1..Len(s) : Append(s, r)[i] = s[i]
           /\ Append(s, r)[Len(s) + 1] = r
  BY AppendProperties, LenProperties

\* How much of the history a turn retains, and how long the new history is.
LEMMA CommitLength ==
    ASSUME NEW k \in Nat, NEW t \in Nat, NEW n \in Nat \ {0}, NEW a, NEW b,
           t = IF k < n THEN k ELSE n - 1,
           a = IF t + 1 > n THEN n ELSE t + 1,
           b = IF k + 1 > n THEN n ELSE k + 1
    PROVE  a = t + 1 /\ b = t + 1
<1>1. CASE k < n
  <2>1. t = k /\ ~(k + 1 > n)
    BY <1>1
  <2> QED BY <2>1
<1>2. CASE ~(k < n)
  <2>1. t = n - 1 /\ t + 1 = n
    BY <1>2
  <2>2. a = n
    BY <2>1
  <2>3. b = n
    BY <1>2
  <2> QED BY <2>1, <2>2, <2>3
<1> QED BY <1>1, <1>2

LEMMA IndexInTail ==
    ASSUME NEW k \in Nat, NEW t \in Nat, NEW i \in 1..t + 1
    PROVE  /\ i <= t => i \in 1..k - (k - t + 1) + 1
           /\ (k - t + 1) + i - 1 = k - t + i
           /\ k - t + (t + 1) = k + 1
  OBVIOUS

\* What a turn retained, while it is still the end of what was answered, and the
\* turn itself make the same new history as all that was answered does.
LEMMA CommitIsAppend ==
    ASSUME NEW kept \in Seq(Turns), NEW told \in Seq(Turns), NEW r \in Turns,
           NEW n \in Nat \ {0},
           Len(told) = (IF Len(kept) < n THEN Len(kept) ELSE n - 1),
           \A i \in 1..Len(told) : told[i] = kept[Len(kept) - Len(told) + i]
    PROVE  LastTurns(Append(told, r), n) = LastTurns(Append(kept, r), n)
<1>1. /\ Append(told, r) \in Seq(Turns) /\ Append(kept, r) \in Seq(Turns)
      /\ Len(told) \in Nat /\ Len(kept) \in Nat
      /\ Len(Append(told, r)) = Len(told) + 1 /\ Len(Append(kept, r)) = Len(kept) + 1
      /\ \A i \in 1..Len(told) : Append(told, r)[i] = told[i]
      /\ \A i \in 1..Len(kept) : Append(kept, r)[i] = kept[i]
      /\ Append(told, r)[Len(told) + 1] = r /\ Append(kept, r)[Len(kept) + 1] = r
  BY OneMoreTurn
<1> DEFINE a == LastTurns(Append(told, r), n)
           b == LastTurns(Append(kept, r), n)
<1>2. /\ a \in Seq(Turns) /\ b \in Seq(Turns)
      /\ Len(a) = Len(told) + 1
      /\ Len(b) = Len(told) + 1
      /\ \A i \in 1..Len(a) : a[i] = Append(told, r)[i]
      /\ \A i \in 1..Len(b) : b[i] = Append(kept, r)[Len(kept) - Len(told) + i]
  <2>1. n \in Nat
    OBVIOUS
  <2>2. Len(a) = Len(told) + 1 /\ Len(b) = Len(told) + 1
    <3>1. Len(a) = IF Len(told) + 1 > n THEN n ELSE Len(told) + 1
      <4>1. Len(a) = IF Len(Append(told, r)) > n THEN n ELSE Len(Append(told, r))
        BY <1>1, <2>1, LastTyped, Zenon
      <4> HIDE DEF a
      <4> QED BY <4>1, <1>1, Zenon
    <3>2. Len(b) = IF Len(kept) + 1 > n THEN n ELSE Len(kept) + 1
      <4>1. Len(b) = IF Len(Append(kept, r)) > n THEN n ELSE Len(Append(kept, r))
        BY <1>1, <2>1, LastTyped, Zenon
      <4> HIDE DEF b
      <4> QED BY <4>1, <1>1, Zenon
    <3> HIDE DEF a, b
    <3> QED BY <1>1, <3>1, <3>2, CommitLength
  <2>3. Len(Append(kept, r)) - Len(b) = Len(kept) - Len(told)
        /\ Len(Append(told, r)) - Len(a) = 0
    BY <1>1, <2>2
  <2>4. /\ a \in Seq(Turns) /\ b \in Seq(Turns)
        /\ \A i \in 1..Len(a) : a[i] = Append(told, r)[Len(Append(told, r)) - Len(a) + i]
        /\ \A i \in 1..Len(b) : b[i] = Append(kept, r)[Len(Append(kept, r)) - Len(b) + i]
    BY <1>1, <2>1, LastTyped
  <2> HIDE DEF a, b
  <2>5. ASSUME NEW i \in 1..Len(a) PROVE a[i] = Append(told, r)[i]
    <3>1. Len(Append(told, r)) - Len(a) + i = i
      BY <2>3, <2>2, <1>1
    <3> QED BY <2>4, <3>1
  <2> QED BY <2>2, <2>3, <2>4, <2>5
<1> HIDE DEF a, b
<1>3. \A i \in 1..Len(told) : told[i] = kept[Len(kept) - Len(told) + i]
  OBVIOUS
<1>4. ASSUME NEW i \in 1..Len(a) PROVE a[i] = b[i]
  <2>1. CASE i = Len(told) + 1
    <3>1. Len(kept) - Len(told) + i = Len(kept) + 1
      BY <1>1, <1>2, <2>1, IndexInTail
    <3>2. a[i] = r
      BY <1>1, <1>2, <2>1
    <3>3. b[i] = Append(kept, r)[Len(kept) + 1]
      BY <1>2, <3>1
    <3> QED BY <1>1, <3>2, <3>3
  <2>2. CASE i \in 1..Len(told)
    <3>1. Len(kept) - Len(told) + i \in 1..Len(kept)
      BY <1>1, <2>2
    <3>2. a[i] = told[i]
      BY <1>1, <1>2, <2>2
    <3>3. b[i] = kept[Len(kept) - Len(told) + i]
      BY <1>1, <1>2, <3>1
    <3> QED BY <1>3, <2>2, <3>2, <3>3
  <2> QED BY <1>1, <1>2, <2>1, <2>2
<1>5. a = b
  BY <1>2, <1>4, SeqEqual
<1> QED BY <1>5 DEF a, b

\* What is shown of a history that is itself the end of what was answered.
LEMMA SuffixOfSuffix ==
    ASSUME NEW k \in Nat, NEW n \in Nat \ {0}, NEW h, NEW t,
           h = IF k > n THEN n ELSE k,
           t = IF h > n - 1 THEN n - 1 ELSE h
    PROVE  /\ h \in Nat /\ t \in Nat /\ t <= h /\ h <= k
           /\ t = IF k < n THEN k ELSE n - 1
           /\ \A i \in 1..t : h - t + i \in 1..h /\ k - h + (h - t + i) = k - t + i
<1>1. CASE k < n
  <2>1. h = k /\ t = k
    BY <1>1
  <2> QED BY <1>1, <2>1
<1>2. CASE ~(k < n)
  <2>1. h = n /\ t = n - 1
    BY <1>2
  <2> QED BY <1>2, <2>1
<1> QED BY <1>1, <1>2

LEMMA IndexInSuffix ==
    ASSUME NEW k \in Nat, NEW i \in Nat \ {0}, NEW j \in 1..i - 1, NEW l \in Nat
    PROVE  /\ k + j \in 1..(k + i) - 1
           /\ l - ((k + i) - 1) + (k + j) = l - (i - 1) + j
  OBVIOUS

LEMMA IndexOfSuffix ==
    ASSUME NEW k \in Nat, NEW m \in Nat, NEW t \in Nat, m <= t, k = t - m, NEW i \in 1..m
    PROVE  k + i \in 1..t
  OBVIOUS

\* The end of a conversation is one.
LEMMA SuffixFollows ==
    ASSUME NEW s \in Seq(Turns), NEW n \in Nat, NEW shown, NEW last,
           \A m \in Turns : m <= last => shown[m] \in Seq(Turns),
           Follows(s, shown, last)
    PROVE  Follows(LastTurns(s, n), shown, last)
<1> DEFINE t == LastTurns(s, n)
           k == Len(s) - Len(t)
<1>1. /\ t \in Seq(Turns) /\ Len(t) \in Nat /\ Len(s) \in Nat /\ Len(t) <= Len(s)
      /\ \A i \in 1..Len(t) : t[i] = s[k + i]
  <2>1. /\ t \in Seq(Turns) /\ Len(t) = IF Len(s) > n THEN n ELSE Len(s)
        /\ \A i \in 1..Len(t) : t[i] = s[k + i]
    BY LastTyped, Zenon
  <2>2. Len(s) \in Nat
    BY LenProperties
  <2>3. Len(t) \in Nat /\ Len(t) <= Len(s)
    <3> HIDE DEF t, k
    <3> QED BY <2>1, <2>2
  <2> QED BY <2>1, <2>2, <2>3
<1> HIDE DEF t
<1>2. k \in Nat
  BY <1>1
<1>k. k = Len(s) - Len(t)
  OBVIOUS
<1> HIDE DEF k
<1>3. ASSUME NEW i \in 1..Len(t)
      PROVE  /\ t[i] <= last
             /\ Len(shown[t[i]]) >= i - 1
             /\ \A j \in 1..i - 1 : shown[t[i]][Len(shown[t[i]]) - (i - 1) + j] = t[j]
  <2>1. k + i \in 1..Len(s) /\ t[i] = s[k + i] /\ i \in Nat \ {0}
    BY <1>1, <1>2, <1>k, IndexOfSuffix
  <2>2. /\ t[i] <= last
        /\ Len(shown[t[i]]) >= (k + i) - 1
        /\ \A m \in 1..(k + i) - 1 :
            shown[t[i]][Len(shown[t[i]]) - ((k + i) - 1) + m] = s[m]
    BY <2>1 DEF Follows
  <2>3. Len(shown[t[i]]) \in Nat
    <3>1. t[i] \in Turns
      BY <1>1, ElementOfSeq
    <3>2. shown[t[i]] \in Seq(Turns)
      BY <2>2, <3>1
    <3> QED BY <3>2, LenProperties
  <2>4. Len(shown[t[i]]) >= i - 1
    BY <2>1, <2>2, <2>3, <1>2
  <2>5. ASSUME NEW j \in 1..i - 1
        PROVE  shown[t[i]][Len(shown[t[i]]) - (i - 1) + j] = t[j]
    <3>1. /\ k + j \in 1..(k + i) - 1
          /\ Len(shown[t[i]]) - ((k + i) - 1) + (k + j) = Len(shown[t[i]]) - (i - 1) + j
      <4>1. PICK l \in Nat : l = Len(shown[t[i]])
        BY <2>3
      <4>2. k + j \in 1..(k + i) - 1 /\ l - ((k + i) - 1) + (k + j) = l - (i - 1) + j
        BY <2>1, <1>2, IndexInSuffix
      <4> QED BY <4>1, <4>2
    <3>2. shown[t[i]][Len(shown[t[i]]) - ((k + i) - 1) + (k + j)] = s[k + j]
      BY <2>2, <3>1
    <3>3. t[j] = s[k + j]
      <4>1. j \in 1..Len(t)
        BY <1>1
      <4> QED BY <4>1, <1>1
    <3> QED BY <3>1, <3>2, <3>3
  <2> QED BY <2>2, <2>4, <2>5
<1> QED BY <1>3 DEF Follows, t

\* A conversation and the turn that was shown it are a conversation.
LEMMA AppendFollows ==
    ASSUME NEW s \in Seq(Turns), NEW r \in Turns, NEW shown, NEW last,
           Follows(s, shown, last), r <= last, shown[r] = s
    PROVE  Follows(Append(s, r), shown, last)
<1> DEFINE t == Append(s, r)
<1>1. /\ Len(s) \in Nat /\ Len(t) = Len(s) + 1 /\ t[Len(s) + 1] = r
      /\ \A i \in 1..Len(s) : t[i] = s[i]
  BY OneMoreTurn
<1> HIDE DEF t
<1>2. ASSUME NEW i \in 1..Len(t)
      PROVE  /\ t[i] <= last
             /\ Len(shown[t[i]]) >= i - 1
             /\ \A j \in 1..i - 1 : shown[t[i]][Len(shown[t[i]]) - (i - 1) + j] = t[j]
  <2>0. \A j \in 1..i - 1 : j \in 1..Len(s) /\ t[j] = s[j]
    <3>1. \A j \in 1..i - 1 : j \in 1..Len(s)
      BY <1>1
    <3> QED BY <1>1, <3>1
  <2>1. CASE i = Len(s) + 1
    <3>1. t[i] = r /\ shown[t[i]] = s /\ i - 1 = Len(s)
      BY <1>1, <2>1
    <3>2. \A j \in 1..i - 1 : Len(s) - (i - 1) + j = j
      BY <1>1, <2>1
    <3>3. t[i] <= last /\ Len(shown[t[i]]) >= i - 1
      BY <1>1, <3>1
    <3>4. ASSUME NEW j \in 1..i - 1
          PROVE  shown[t[i]][Len(shown[t[i]]) - (i - 1) + j] = t[j]
      <4>1. shown[t[i]][Len(shown[t[i]]) - (i - 1) + j] = s[Len(s) - (i - 1) + j]
        BY <3>1, Zenon
      <4>2. s[Len(s) - (i - 1) + j] = s[j]
        BY <3>2, Zenon
      <4> QED BY <2>0, <4>1, <4>2, Zenon
    <3> QED BY <3>3, <3>4
  <2>2. CASE i \in 1..Len(s)
    <3>1. t[i] = s[i]
      BY <1>1, <2>2
    <3>2. /\ s[i] <= last
          /\ Len(shown[s[i]]) >= i - 1
          /\ \A j \in 1..i - 1 : shown[s[i]][Len(shown[s[i]]) - (i - 1) + j] = s[j]
      BY <2>2, Zenon DEF Follows
    <3> QED BY <2>0, <3>1, <3>2, Zenon
  <2> QED BY <1>1, <2>1, <2>2
<1> QED BY <1>2 DEF Follows, t

\* What one more question changes of what was shown is its own entry.
LEMMA FollowsLater ==
    ASSUME NEW s \in Seq(Turns), NEW shown, NEW later, NEW last \in Nat,
           \A m \in Turns : m <= last => later[m] = shown[m],
           Follows(s, shown, last)
    PROVE  Follows(s, later, last + 1)
<1>1. ASSUME NEW i \in 1..Len(s)
      PROVE  /\ s[i] <= last + 1
             /\ Len(later[s[i]]) >= i - 1
             /\ \A j \in 1..i - 1 : later[s[i]][Len(later[s[i]]) - (i - 1) + j] = s[j]
  <2>1. s[i] \in Turns /\ s[i] <= last
    BY ElementOfSeq DEF Follows
  <2>2. later[s[i]] = shown[s[i]]
    BY <2>1
  <2>3. s[i] <= last + 1
    BY <2>1, SessionAssumption DEF Turns
  <2> QED BY <2>2, <2>3 DEF Follows
<1> QED BY <1>1 DEF Follows

\* No turn follows from nothing.
LEMMA EmptyFollows ==
    ASSUME NEW shown, NEW last
    PROVE  <<>> \in Seq(Turns) /\ Len(<<>>) = 0 /\ Follows(<<>>, shown, last)
  BY EmptySeq DEF Follows

\* What a turn retains (_retained_history): fewer than max_turns turns of the
\* history's end.
LEMMA RetainedTyped ==
    ASSUME Typed
    PROVE  /\ RetainedHistory \in Seq(Turns)
           /\ Len(RetainedHistory) < maxTurns
           /\ \A shown, last :
                (\A m \in Turns : m <= last => shown[m] \in Seq(Turns))
                /\ Follows(history, shown, last) => Follows(RetainedHistory, shown, last)
<1>1. maxTurns \in Nat \ {0} /\ history \in Seq(Turns)
  BY SessionAssumption DEF Typed
<1>2. CASE maxTurns = 1
  BY <1>1, <1>2, EmptyFollows DEF RetainedHistory
<1>3. CASE maxTurns # 1
  <2>1. RetainedHistory = LastTurns(history, maxTurns - 1) /\ maxTurns - 1 \in Nat
    BY <1>1, <1>3 DEF RetainedHistory
  <2>2. /\ RetainedHistory \in Seq(Turns)
        /\ Len(RetainedHistory)
             = IF Len(history) > maxTurns - 1 THEN maxTurns - 1 ELSE Len(history)
    BY <1>1, <2>1, LastTyped
  <2>3. Len(history) \in Nat
    BY <1>1, LenProperties
  <2>4. Len(RetainedHistory) < maxTurns
    BY <1>1, <2>2, <2>3
  <2>5. ASSUME NEW shown, NEW last,
               \A m \in Turns : m <= last => shown[m] \in Seq(Turns),
               Follows(history, shown, last)
        PROVE  Follows(RetainedHistory, shown, last)
    BY <1>1, <2>1, <2>5, SuffixFollows
  <2> QED BY <2>2, <2>4, <2>5
<1> QED BY <1>2, <1>3

\* A turn that nothing overlapped commits what all that answered and itself end
\* with.
LEMMA CommitAlone ==
    ASSUME Typed, AloneKeepsAll, ~raced, NEW r \in Turns
    PROVE  LastTurns(Append(RetainedHistory, r), maxTurns)
             = LastTurns(Append(answered, r), maxTurns)
<1> DEFINE told == RetainedHistory
           kept == answered
           n == maxTurns
<1>1. /\ n \in Nat \ {0} /\ n - 1 \in Nat /\ kept \in Seq(Turns) /\ Len(kept) \in Nat
      /\ history \in Seq(Turns) /\ history = LastTurns(kept, n)
  BY SessionAssumption, LenProperties DEF Typed, AloneKeepsAll
<1>2. /\ Len(history) = IF Len(kept) > n THEN n ELSE Len(kept)
      /\ \A i \in 1..Len(history) : history[i] = kept[Len(kept) - Len(history) + i]
  BY <1>1, LastTyped
<1>3. /\ told \in Seq(Turns)
      /\ Len(told) = IF Len(history) > n - 1 THEN n - 1 ELSE Len(history)
      /\ \A i \in 1..Len(told) : told[i] = history[Len(history) - Len(told) + i]
  <2>1. CASE n = 1
    <3>1. told = <<>> /\ Len(told) = 0 /\ told \in Seq(Turns)
      BY <2>1, EmptySeq DEF RetainedHistory
    <3>2. Len(history) \in Nat
      BY <1>1, LenProperties
    <3> HIDE DEF told, n
    <3> QED BY <2>1, <3>1, <3>2
  <2>2. CASE n # 1
    <3>1. told = LastTurns(history, n - 1)
      BY <2>2 DEF RetainedHistory
    <3> HIDE DEF told, n
    <3> QED BY <3>1, <1>1, LastTyped
  <2> QED BY <2>1, <2>2
<1> HIDE DEF told, kept, n
<1>4. /\ Len(told) = (IF Len(kept) < n THEN Len(kept) ELSE n - 1)
      /\ \A i \in 1..Len(told) :
           /\ Len(history) - Len(told) + i \in 1..Len(history)
           /\ Len(kept) - Len(history) + (Len(history) - Len(told) + i)
                = Len(kept) - Len(told) + i
  <2>0. Len(history) \in Nat /\ Len(told) \in Nat
    BY <1>1, <1>3, LenProperties
  <2>1. PICK k \in Nat, h \in Nat, t \in Nat :
            k = Len(kept) /\ h = Len(history) /\ t = Len(told)
    BY <1>1, <2>0
  <2>2. (h = IF k > n THEN n ELSE k) /\ (t = IF h > n - 1 THEN n - 1 ELSE h)
    BY <2>1, <1>2, <1>3, Zenon
  <2>3. /\ t = IF k < n THEN k ELSE n - 1
        /\ \A i \in 1..t : h - t + i \in 1..h /\ k - h + (h - t + i) = k - t + i
    BY <2>2, <1>1, SuffixOfSuffix
  <2> QED BY <2>1, <2>3, Zenon
<1>5. ASSUME NEW i \in 1..Len(told) PROVE told[i] = kept[Len(kept) - Len(told) + i]
  <2>1. told[i] = history[Len(history) - Len(told) + i]
    BY <1>3
  <2>2. history[Len(history) - Len(told) + i]
          = kept[Len(kept) - Len(history) + (Len(history) - Len(told) + i)]
    BY <1>2, <1>4
  <2> QED BY <1>4, <2>1, <2>2
<1>6. LastTurns(Append(told, r), n) = LastTurns(Append(kept, r), n)
  BY <1>1, <1>3, <1>4, <1>5, CommitIsAppend
<1> QED BY <1>6 DEF told, kept, n

-----------------------------------------------------------------------------
(* The invariant is inductive *)

LEMMA InitInvariant == Init => SInv
<1> SUFFICES ASSUME Init PROVE SInv
  OBVIOUS
<1> USE DEF Init
<1>1. <<>> \in Seq(Turns) /\ Len(<<>>) = 0
  BY EmptySeq
<1>2. Typed
  <2>1. 0 \in 0..MaxAsks /\ 1..MaxMaxTurns \subseteq Nat
    BY SessionAssumption
  <2>2. /\ context \in [Turns -> Seq(Turns) \cup {None}]
        /\ retained \in [Callers -> Seq(Turns)]
        /\ asking \in [Callers -> 0..MaxAsks]
    BY <1>1, <2>1
  <2> QED BY <1>1, <2>1, <2>2 DEF Typed
<1>3. Shown
  <2>1. /\ Follows(history, context, asked)
        /\ \A c \in Callers : Follows(retained[c], context, asked)
    BY EmptyFollows
  <2>2. Len(history) <= maxTurns
    BY <1>1
  <2>3. \A n \in Turns : ~(n <= asked) /\ context[n] = None
    BY SessionAssumption DEF Turns
  <2> QED BY <2>1, <2>2, <2>3 DEF Shown
<1>4. LastTurns(answered, maxTurns) = <<>>
  <2>1. maxTurns \in Nat
    OBVIOUS
  <2>2. /\ LastTurns(answered, maxTurns) \in Seq(Turns)
        /\ Len(LastTurns(answered, maxTurns))
             = IF Len(answered) > maxTurns THEN maxTurns ELSE Len(answered)
    BY <1>1, <2>1, LastTyped
  <2>3. Len(LastTurns(answered, maxTurns)) = 0
    BY <1>1, <2>1, <2>2
  <2> QED BY <2>2, <2>3, EmptySeq
<1>5. Alone /\ AloneKeepsAll
  BY <1>4 DEF Alone, AloneKeepsAll
<1> QED BY <1>2, <1>3, <1>5 DEF SInv

LEMMA AskInvariant ==
    ASSUME SInv, NEW c \in Callers, Ask(c)
    PROVE  SInv'
<1> USE DEF SInv
<1>0. /\ asked \in Nat /\ asked' = asked + 1 /\ asked' \in Turns /\ MaxAsks \in Nat
      /\ ~(asked' <= asked) /\ asked' # 0
  BY SessionAssumption DEF Typed, Ask, Turns
<1>1. /\ RetainedHistory \in Seq(Turns) /\ Len(RetainedHistory) < maxTurns
      /\ Follows(RetainedHistory, context, asked)
  <2>1. \A m \in Turns : m <= asked => context[m] \in Seq(Turns)
    BY DEF Shown
  <2> QED BY <2>1, RetainedTyped DEF Shown
<1>2. /\ context' = [context EXCEPT ![asked'] = RetainedHistory]
      /\ asking' = [asking EXCEPT ![c] = asked']
      /\ retained' = [retained EXCEPT ![c] = RetainedHistory]
      /\ UNCHANGED <<maxTurns, history, answered>>
      /\ raced' = (raced \/ UnderWay)
  BY DEF Ask
<1>3. /\ context'[asked'] = RetainedHistory
      /\ \A m \in Turns : m # asked' => context'[m] = context[m]
  BY <1>0, <1>2 DEF Typed
<1>4. /\ retained'[c] = RetainedHistory /\ asking'[c] = asked'
      /\ \A d \in Callers : d # c => retained'[d] = retained[d] /\ asking'[d] = asking[d]
  BY <1>2 DEF Typed
<1>5. Typed'
  <2>1. asking' \in [Callers -> 0..MaxAsks] /\ asked' \in 0..MaxAsks
    BY <1>0, <1>2 DEF Typed, Turns
  <2>2. context' \in [Turns -> Seq(Turns) \cup {None}]
    BY <1>0, <1>1, <1>2 DEF Typed
  <2>3. retained' \in [Callers -> Seq(Turns)]
    BY <1>1, <1>2 DEF Typed
  <2>4. raced' \in BOOLEAN
    BY <1>2, Zenon DEF Typed, UnderWay
  <2> QED BY <1>2, <2>1, <2>2, <2>3, <2>4 DEF Typed
<1>6. Shown'
  <2>0. \A m \in Turns : m <= asked => context'[m] = context[m]
    BY <1>0, <1>3
  <2>1. ASSUME NEW s \in Seq(Turns), Follows(s, context, asked)
        PROVE  Follows(s, context', asked')
    BY <1>0, <2>0, <2>1, FollowsLater
  <2>2. Follows(history, context', asked')
    BY <2>1 DEF Typed, Shown
  <2>3. \A d \in Callers : Follows(retained'[d], context', asked')
    BY <1>1, <1>4, <2>1 DEF Typed, Shown
  <2>4. ASSUME NEW n \in Turns
        PROVE  IF n <= asked' THEN context'[n] \in Seq(Turns) /\ Len(context'[n]) < maxTurns
                              ELSE context'[n] = None
    <3>1. CASE n = asked'
      BY <1>1, <1>3, <3>1, <1>0
    <3>2. CASE n # asked'
      <4>1. n <= asked' <=> n <= asked
        BY <1>0, <3>2 DEF Turns
      <4> QED BY <1>3, <3>2, <4>1 DEF Shown
    <3> QED BY <3>1, <3>2
  <2>5. ASSUME NEW d \in Callers
        PROVE  /\ asking'[d] <= asked'
               /\ asking'[d] # 0 => context'[asking'[d]] = retained'[d]
    <3>1. CASE d = c
      BY <1>0, <1>3, <1>4, <3>1
    <3>2. CASE d # c
      <4>1. asking'[d] = asking[d] /\ retained'[d] = retained[d] /\ asking[d] <= asked
        BY <1>4, <3>2 DEF Shown
      <4>2. asking[d] <= asked'
        BY <1>0, <4>1 DEF Typed
      <4>3. asking[d] # 0 => asking[d] \in Turns
        BY DEF Typed, Turns
      <4> QED BY <2>0, <4>1, <4>2, <4>3 DEF Shown
    <3> QED BY <3>1, <3>2
  <2>6. Len(history) <= maxTurns /\ history' = history /\ maxTurns' = maxTurns
    BY <1>2 DEF Shown
  <2>7. \A n \in Turns : IF n <= asked'
            THEN context'[n] \in Seq(Turns) /\ Len(context'[n]) < maxTurns'
            ELSE context'[n] = None
    BY <2>4, <2>6
  <2>8. /\ Len(history') <= maxTurns'
        /\ Follows(history', context', asked')
    BY <2>2, <2>6
  <2>9. \A d \in Callers :
             /\ Follows(retained'[d], context', asked')
             /\ asking'[d] <= asked'
             /\ asking'[d] # 0 => context'[asking'[d]] = retained'[d]
    BY <2>3, <2>5
  <2> QED BY <2>7, <2>8, <2>9, Zenon DEF Shown
<1>7. Alone'
  <2> SUFFICES ASSUME ~raced'
               PROVE  /\ \A d, e \in Callers : asking'[d] # 0 /\ asking'[e] # 0 => d = e
                      /\ \A d \in Callers : asking'[d] # 0 => retained'[d] = RetainedHistory'
    BY DEF Alone
  <2>1. \A d \in Callers : asking[d] = 0
    BY <1>2 DEF UnderWay
  <2>2. RetainedHistory' = RetainedHistory
    BY <1>2 DEF RetainedHistory
  <2> QED BY <1>4, <2>1, <2>2
<1>8. AloneKeepsAll'
  BY <1>2 DEF AloneKeepsAll
<1> QED BY <1>5, <1>6, <1>7, <1>8

\* A turn that ended, in whatever way, leaves its caller with nothing.
LEMMA LeaveTyped ==
    ASSUME Typed, NEW c \in Callers, asking[c] # 0, Leave(c)
    PROVE  /\ asking' \in [Callers -> 0..MaxAsks] /\ retained' \in [Callers -> Seq(Turns)]
           /\ asking'[c] = 0 /\ retained'[c] = <<>>
           /\ \A d \in Callers : d # c => retained'[d] = retained[d] /\ asking'[d] = asking[d]
<1>1. <<>> \in Seq(Turns) /\ 0 \in 0..MaxAsks
  BY EmptySeq, SessionAssumption
<1> QED BY <1>1 DEF Typed, Leave

\* What was shown is kept by a call that shows nothing.
LEMMA CallersShown ==
    ASSUME SInv, NEW c \in Callers, asking[c] # 0, Leave(c), UNCHANGED <<context, asked>>
    PROVE  \A d \in Callers :
             /\ Follows(retained'[d], context, asked)
             /\ asking'[d] <= asked
             /\ asking'[d] # 0 => context[asking'[d]] = retained'[d]
<1>1. Typed /\ Shown /\ asked \in Nat
  BY SessionAssumption DEF SInv, Typed
<1>2. Follows(<<>>, context, asked)
  BY EmptyFollows
<1>3. ASSUME NEW d \in Callers
      PROVE  /\ Follows(retained'[d], context, asked)
             /\ asking'[d] <= asked
             /\ asking'[d] # 0 => context[asking'[d]] = retained'[d]
  <2>1. CASE d = c
    BY <1>1, <1>2, <2>1, LeaveTyped
  <2>2. CASE d # c
    BY <1>1, <2>2, LeaveTyped DEF Shown
  <2> QED BY <2>1, <2>2
<1> QED BY <1>3

LEMMA CommitInvariant ==
    ASSUME SInv, NEW c \in Callers, Commit(c)
    PROVE  SInv'
<1> DEFINE r == asking[c]
           turns == Append(retained[c], r)
<1>0. Typed /\ Shown /\ Alone /\ AloneKeepsAll
  BY DEF SInv
<1>1. /\ r # 0 /\ history' = LastTurns(turns, maxTurns) /\ answered' = Append(answered, r)
      /\ Leave(c) /\ UNCHANGED <<maxTurns, asked, context, raced>>
  BY DEF Commit
<1>2. /\ r \in Turns /\ r <= asked /\ context[r] = retained[c] /\ retained[c] \in Seq(Turns)
      /\ Follows(retained[c], context, asked)
  BY <1>0, <1>1 DEF Typed, Shown, Turns
<1>3. turns \in Seq(Turns) /\ answered' \in Seq(Turns) /\ maxTurns \in Nat
  BY <1>0, <1>1, <1>2, OneMoreTurn, SessionAssumption DEF Typed
<1>4. Follows(turns, context, asked)
  BY <1>2, AppendFollows
<1> HIDE DEF r, turns
<1>5. /\ history' \in Seq(Turns) /\ Len(history') <= maxTurns
      /\ Follows(history', context, asked)
  <2>1. \A m \in Turns : m <= asked => context[m] \in Seq(Turns)
    BY <1>0 DEF Shown
  <2>2. /\ LastTurns(turns, maxTurns) \in Seq(Turns)
        /\ Len(LastTurns(turns, maxTurns))
             = IF Len(turns) > maxTurns THEN maxTurns ELSE Len(turns)
    BY <1>3, LastTyped
  <2>3. Len(turns) \in Nat
    BY <1>3, LenProperties
  <2>4. Len(history') <= maxTurns
    BY <1>1, <1>3, <2>2, <2>3
  <2>5. Follows(LastTurns(turns, maxTurns), context, asked)
    BY <1>3, <1>4, <2>1, SuffixFollows
  <2> QED BY <1>1, <2>2, <2>4, <2>5
<1>6. Typed'
  BY <1>0, <1>1, <1>3, <1>5, LeaveTyped DEF Typed, r
<1>7. Shown'
  <2>1. \A d \in Callers :
             /\ Follows(retained'[d], context, asked)
             /\ asking'[d] <= asked
             /\ asking'[d] # 0 => context[asking'[d]] = retained'[d]
    BY <1>1, CallersShown DEF r
  <2> QED BY <1>0, <1>1, <1>5, <2>1 DEF Shown
<1>8. ASSUME ~raced
      PROVE  /\ \A d \in Callers : asking'[d] = 0
             /\ history' = LastTurns(answered', maxTurns)
  <2>1. \A d \in Callers : d # c => asking[d] = 0
    BY <1>0, <1>1, <1>8 DEF Alone, r
  <2>2. \A d \in Callers : asking'[d] = 0
    BY <1>0, <1>1, <2>1, LeaveTyped DEF r
  <2>3. retained[c] = RetainedHistory
    BY <1>0, <1>1, <1>8 DEF Alone, r
  <2>4. history' = LastTurns(Append(RetainedHistory, r), maxTurns)
    BY <1>1, <2>3 DEF turns
  <2> QED BY <1>0, <1>1, <1>2, <1>8, <2>2, <2>4, CommitAlone
<1>9. Alone' /\ AloneKeepsAll'
  BY <1>1, <1>8 DEF Alone, AloneKeepsAll
<1> QED BY <1>6, <1>7, <1>9 DEF SInv

LEMMA FailInvariant ==
    ASSUME SInv, NEW c \in Callers, Fail(c)
    PROVE  SInv'
<1>0. Typed /\ Shown /\ Alone /\ AloneKeepsAll
  BY DEF SInv
<1>1. /\ asking[c] # 0 /\ Leave(c)
      /\ UNCHANGED <<maxTurns, history, asked, context, answered, raced>>
  BY DEF Fail
<1>2. Typed'
  BY <1>0, <1>1, LeaveTyped DEF Typed
<1>3. Shown'
  <2>1. \A d \in Callers :
             /\ Follows(retained'[d], context, asked)
             /\ asking'[d] <= asked
             /\ asking'[d] # 0 => context[asking'[d]] = retained'[d]
    BY <1>1, CallersShown
  <2> QED BY <1>0, <1>1, <2>1 DEF Shown
<1>4. Alone'
  <2>1. RetainedHistory' = RetainedHistory
    BY <1>1 DEF RetainedHistory
  <2>2. asking'[c] = 0 /\ \A d \in Callers : d # c =>
            retained'[d] = retained[d] /\ asking'[d] = asking[d]
    BY <1>0, <1>1, LeaveTyped
  <2> QED BY <1>0, <1>1, <2>1, <2>2 DEF Alone
<1>5. AloneKeepsAll'
  BY <1>0, <1>1 DEF AloneKeepsAll
<1> QED BY <1>2, <1>3, <1>4, <1>5 DEF SInv

LEMMA ResetInvariant ==
    ASSUME SInv, NEW c \in Callers, Reset(c)
    PROVE  SInv'
<1>0. Typed /\ Shown /\ Alone /\ AloneKeepsAll
  BY DEF SInv
<1>1. /\ history' = <<>> /\ answered' = <<>> /\ raced' = (raced \/ UnderWay)
      /\ UNCHANGED <<maxTurns, retained, asking, asked, context>>
  BY DEF Reset
<1>2. /\ <<>> \in Seq(Turns) /\ Len(<<>>) = 0 /\ Follows(<<>>, context, asked)
      /\ maxTurns \in Nat
  BY <1>0, EmptyFollows, SessionAssumption DEF Typed
<1>3. Typed'
  <2>1. raced' \in BOOLEAN
    BY <1>1, Zenon DEF UnderWay
  <2> QED BY <1>0, <1>1, <1>2, <2>1 DEF Typed
<1>4. Shown'
  <2>1. Len(history') <= maxTurns'
    BY <1>1, <1>2
  <2> QED BY <1>0, <1>1, <1>2, <2>1 DEF Shown
<1>5. LastTurns(<<>>, maxTurns) = <<>>
  <2>1. /\ LastTurns(<<>>, maxTurns) \in Seq(Turns)
        /\ Len(LastTurns(<<>>, maxTurns))
             = IF Len(<<>>) > maxTurns THEN maxTurns ELSE Len(<<>>)
    BY <1>2, LastTyped
  <2>2. Len(LastTurns(<<>>, maxTurns)) = 0
    BY <1>2, <2>1
  <2> QED BY <2>1, <2>2, EmptySeq
<1>6. Alone' /\ AloneKeepsAll'
  <2>1. ~raced' => \A d \in Callers : asking'[d] = 0
    BY <1>1 DEF UnderWay
  <2> QED BY <1>1, <1>5, <2>1 DEF Alone, AloneKeepsAll
<1> QED BY <1>3, <1>4, <1>6 DEF SInv

LEMMA StepInvariant == SInv /\ [Next]_vars => SInv'
<1> SUFFICES ASSUME SInv, [Next]_vars PROVE SInv'
  OBVIOUS
<1>1. CASE UNCHANGED vars
  BY <1>1 DEF vars, SInv, Typed, Shown, Alone, AloneKeepsAll, RetainedHistory
<1>2. ASSUME NEW c \in Callers, Ask(c) \/ Commit(c) \/ Fail(c) \/ Reset(c) PROVE SInv'
  BY <1>2, AskInvariant, CommitInvariant, FailInvariant, ResetInvariant
<1> QED BY <1>1, <1>2 DEF Next

-----------------------------------------------------------------------------
(* The theorems *)

\* The last turns of what was shown, turn by turn, are a conversation's start.
LEMMA EndIsStart ==
    ASSUME NEW shown \in Seq(Turns), NEW s \in Seq(Turns), NEW i \in 1..Len(s),
           Len(shown) >= i - 1,
           \A j \in 1..i - 1 : shown[Len(shown) - (i - 1) + j] = s[j]
    PROVE  SubSeq(shown, Len(shown) - i + 2, Len(shown)) = SubSeq(s, 1, i - 1)
<1> DEFINE a == SubSeq(shown, Len(shown) - i + 2, Len(shown))
           b == SubSeq(s, 1, i - 1)
<1>1. Len(s) \in Nat /\ Len(shown) \in Nat /\ i \in Nat \ {0}
  BY LenProperties
<1>2. PICK l \in Nat, f \in Int : l = Len(shown) /\ f = l - i + 2
  BY <1>1
<1>3. /\ f >= 1 /\ (IF f <= l THEN l - f + 1 ELSE 0) = i - 1 /\ l - f + 1 = i - 1
      /\ \A j \in 1..i - 1 : f + j - 1 = l - (i - 1) + j
  BY <1>1, <1>2
<1>4. /\ SubSeq(shown, f, l) \in Seq(Turns) /\ Len(SubSeq(shown, f, l)) = i - 1
      /\ \A j \in 1..i - 1 : SubSeq(shown, f, l)[j] = shown[f + j - 1]
  <2>1. \A j \in f..l : shown[j] \in Turns
    BY <1>2, <1>3, ElementOfSeq
  <2>2. /\ SubSeq(shown, f, l) \in Seq(Turns)
        /\ Len(SubSeq(shown, f, l)) = IF f <= l THEN l - f + 1 ELSE 0
        /\ \A j \in 1..l - f + 1 : SubSeq(shown, f, l)[j] = shown[f + j - 1]
    BY <2>1, SubSeqProperties
  <2> QED BY <1>3, <2>2
<1>5. /\ b \in Seq(Turns) /\ Len(b) = i - 1
      /\ \A j \in 1..i - 1 : b[j] = s[j]
  <2>1. PICK m \in Nat : m = i - 1
    BY <1>1
  <2>2. \A j \in 1..m : s[j] \in Turns
    BY <1>1, <2>1, ElementOfSeq
  <2>3. /\ SubSeq(s, 1, m) \in Seq(Turns)
        /\ Len(SubSeq(s, 1, m)) = IF 1 <= m THEN m - 1 + 1 ELSE 0
        /\ \A j \in 1..m - 1 + 1 : SubSeq(s, 1, m)[j] = s[1 + j - 1]
    BY <2>2, SubSeqProperties
  <2>4. Len(SubSeq(s, 1, m)) = m /\ \A j \in 1..m : SubSeq(s, 1, m)[j] = s[j]
    BY <2>1, <2>3
  <2> QED BY <2>1, <2>3, <2>4
<1>6. \A j \in 1..i - 1 : SubSeq(shown, f, l)[j] = b[j]
  BY <1>2, <1>3, <1>4, <1>5
<1> HIDE DEF b
<1>7. SubSeq(shown, f, l) = b
  BY <1>4, <1>5, <1>6, SeqEqual
<1> QED BY <1>2, <1>7 DEF b

LEMMA InvariantCoherent == SInv => Coherent
<1> SUFFICES ASSUME SInv PROVE Coherent
  OBVIOUS
<1>0. Typed /\ Shown
  BY DEF SInv
<1>1. Bounded
  <2>1. ASSUME NEW n \in Turns, context[n] # None PROVE Len(context[n]) < maxTurns
    BY <1>0, <2>1 DEF Shown
  <2> QED BY <1>0, <2>1 DEF Bounded, Shown
<1>2. history \in Seq(Turns) /\ DOMAIN history = 1..Len(history)
  BY <1>0, LenProperties DEF Typed
<1>3. ASSUME NEW i \in 1..Len(history)
      PROVE  /\ Len(context[history[i]]) >= i - 1
             /\ SubSeq(context[history[i]], Len(context[history[i]]) - i + 2,
                       Len(context[history[i]])) = SubSeq(history, 1, i - 1)
  <2>1. history[i] \in Turns
    BY <1>2, ElementOfSeq
  <2>2. /\ history[i] <= asked
        /\ Len(context[history[i]]) >= i - 1
        /\ \A j \in 1..i - 1 :
             context[history[i]][Len(context[history[i]]) - (i - 1) + j] = history[j]
    BY <1>0 DEF Shown, Follows
  <2>3. context[history[i]] \in Seq(Turns)
    BY <1>0, <2>1, <2>2 DEF Shown
  <2> QED BY <1>2, <2>2, <2>3, EndIsStart
<1> QED BY <1>1, <1>2, <1>3 DEF Coherent

\* What is shown and what is kept stay what the callers did, turn by turn.
THEOREM SessionInvariant == Spec => []SInv
  BY InitInvariant, StepInvariant, PTL DEF Spec

\* The history is at any time a conversation that took place, each turn shown
\* exactly the turns before it, and no longer than max_turns, however the calls
\* overlap (CopilotSession.ask_with_result and _retained_history).
THEOREM ConversationsCohere == Spec => []Coherent
  BY SessionInvariant, InvariantCoherent, PTL

\* Calls that did not overlap lose no turn but the ones past max_turns (the
\* assignment of _history when a turn answers).
THEOREM NothingLostAlone == Spec => []AloneKeepsAll
<1>1. SInv => AloneKeepsAll
  BY DEF SInv
<1> QED BY <1>1, SessionInvariant, PTL

=============================================================================
