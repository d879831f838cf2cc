------------------------- MODULE WarnLimiter_proofs -------------------------
(* Proofs about WarnLimiter, for every set of keys, limit, window, size of  *)
(* the map and number of warnings.                                          *)
EXTENDS WarnLimiter, FiniteSetTheorems, TLAPS

(* s are the times at which the warnings of a key passed, w is its window:  *)
(* all but the last w.sent of them are from before the window began, and    *)
(* all but as many and another limit are from a window's time before that.  *)
Fits(s, w) ==
  /\ w.start <= now /\ w.sent <= WarnLimit
  /\ \A i \in 1..Len(s) :
       /\ s[i] <= now
       /\ i + w.sent <= Len(s) => s[i] <= w.start
       /\ i + w.sent + WarnLimit <= Len(s) => s[i] + Window <= w.start

(* The same of a key whose window was swept. *)
Idle(s) ==
  \A i \in 1..Len(s) :
    s[i] <= now /\ (i + WarnLimit <= Len(s) => s[i] + Window <= now)

Spaced(s) ==
  \A i \in 1..Len(s) : i + 2 * WarnLimit <= Len(s) => s[i + 2 * WarnLimit] - s[i] >= Window

(* The inductive invariant. *)
LInv ==
  /\ LimiterTypeOK /\ WarningsAccounted /\ RateBounded
  /\ IsFiniteSet(DOMAIN keys) /\ KeysBounded
  /\ \A k \in Key : IF k \in DOMAIN keys THEN Fits(sent[k], keys[k]) ELSE Idle(sent[k])

(* What allow finds or makes for a key fits the times that are kept. *)
LEMMA CurrentFits ==
  ASSUME LInv, NEW k \in Key
  PROVE  /\ Current(k) \in WarnWindow /\ Current(k).suppressed = Held(k)
         /\ Fits(sent[k], Current(k)) /\ Fits(<<>>, Current(k))
<1>0. /\ Len(sent[k]) \in Nat /\ now \in Nat /\ Window \in Nat /\ WarnLimit \in Nat
      /\ \A i \in 1..Len(sent[k]) : sent[k][i] \in Nat
  <2>1. sent[k] \in Seq(Nat) /\ now \in Nat
    BY DEF LInv, LimiterTypeOK
  <2> QED BY <2>1, LimiterAssumption
<1>1. CASE k \notin DOMAIN keys
  <2>1. Current(k) = [start |-> now, sent |-> 0, suppressed |-> 0] /\ Held(k) = 0
    BY <1>1 DEF Current, Held
  <2>2. \A i \in 1..Len(sent[k]) : sent[k][i] <= now
                                 /\ (i + WarnLimit <= Len(sent[k]) => sent[k][i] + Window <= now)
    BY <1>1 DEF LInv, Idle
  <2>3. Fits(sent[k], Current(k)) /\ Fits(<<>>, Current(k))
    BY <1>0, <2>1, <2>2 DEF Fits
  <2> QED BY <1>0, <2>1, <2>3 DEF WarnWindow
<1>2. CASE k \in DOMAIN keys
  <2>1. keys[k] \in WarnWindow /\ Fits(sent[k], keys[k]) /\ Held(k) = keys[k].suppressed
    BY <1>2 DEF LInv, LimiterTypeOK, Held
  <2>2. CASE ~Ended(k)
    <3>1. Current(k) = keys[k]
      BY <1>2, <2>2 DEF Current
    <3>2. Fits(<<>>, keys[k])
      BY <2>1 DEF Fits
    <3> QED BY <2>1, <3>1, <3>2
  <2>3. CASE Ended(k)
    <3> DEFINE u == keys[k].suppressed
    <3>1. u \in Nat /\ keys[k].start \in Nat /\ keys[k].sent \in Nat
      BY <2>1 DEF WarnWindow
    <3>2. keys[k].start + Window <= now
      BY <1>0, <2>3, <3>1 DEF Ended
    <3>3. Current(k) = [start |-> now, sent |-> 0, suppressed |-> u]
      <4>1. Current(k) = [keys[k] EXCEPT !.start = now, !.sent = 0]
        BY <1>2, <2>3 DEF Current
      <4> QED BY <2>1, <4>1 DEF WarnWindow
    <3>4. /\ keys[k].sent <= WarnLimit
          /\ \A i \in 1..Len(sent[k]) :
               sent[k][i] <= now /\ (i + keys[k].sent <= Len(sent[k]) => sent[k][i] <= keys[k].start)
      BY <2>1 DEF Fits
    <3>5. \A i \in 1..Len(sent[k]) : i + WarnLimit <= Len(sent[k]) => sent[k][i] + Window <= now
      <4> SUFFICES ASSUME NEW i \in 1..Len(sent[k]), i + WarnLimit <= Len(sent[k])
                   PROVE  sent[k][i] + Window <= now
        OBVIOUS
      <4>1. i + keys[k].sent <= Len(sent[k])
        BY <1>0, <3>1, <3>4
      <4>2. sent[k][i] <= keys[k].start /\ sent[k][i] \in Nat
        BY <1>0, <3>4, <4>1
      <4>3. now \in Nat /\ Window \in Nat
        BY <1>0
      <4> QED BY <3>1, <3>2, <4>2, <4>3
    <3> HIDE DEF u
    <3>6. Fits(sent[k], Current(k)) /\ Fits(<<>>, Current(k))
      BY <1>0, <3>3, <3>4, <3>5 DEF Fits
    <3> QED BY <1>0, <2>1, <3>1, <3>3, <3>6 DEF WarnWindow, u
  <2> QED BY <2>2, <2>3
<1> QED BY <1>1, <1>2

(* A warning that passes is recorded in its window and in the times. *)
LEMMA PassFits ==
  ASSUME now \in Nat, NEW s \in Seq(Nat), NEW w \in WarnWindow, Fits(s, w), Spaced(s),
         w.sent < WarnLimit,
         NEW x \in WarnWindow, x.start = w.start, x.sent = w.sent + 1
  PROVE  Fits(Append(s, now), x) /\ Spaced(Append(s, now))
<1> DEFINE t == Append(s, now)
           n == Len(s)
           c == w.sent
           b == w.start
<1>1. /\ n \in Nat /\ Len(t) = n + 1 /\ t[n + 1] = now
      /\ \A i \in 1..n : s[i] \in Nat /\ t[i] = s[i]
  OBVIOUS
<1>2. b \in Nat /\ c \in Nat /\ WarnLimit \in Nat /\ Window \in Nat /\ c < WarnLimit
  BY LimiterAssumption DEF WarnWindow
<1>3. /\ b <= now
      /\ \A i \in 1..n :
           /\ s[i] <= now
           /\ i + c <= n => s[i] <= b
           /\ i + c + WarnLimit <= n => s[i] + Window <= b
           /\ i + 2 * WarnLimit <= n => s[i + 2 * WarnLimit] - s[i] >= Window
  BY Zenon DEF Fits, Spaced
<1>4. x.start = b /\ x.sent = c + 1
  OBVIOUS
<1> HIDE DEF t, n, c, b
<1>5. ASSUME NEW i \in 1..(n + 1)
      PROVE  /\ t[i] <= now
             /\ i + (c + 1) <= n + 1 => t[i] <= b
             /\ i + (c + 1) + WarnLimit <= n + 1 => t[i] + Window <= b
             /\ i + 2 * WarnLimit <= n + 1 => t[i + 2 * WarnLimit] - t[i] >= Window
  <2>1. CASE i = n + 1
    BY <1>1, <1>2, <2>1
  <2>2. CASE i \in 1..n
    <3>1. t[i] = s[i] /\ s[i] \in Nat /\ s[i] <= now
      BY <1>1, <1>3, <2>2
    <3>2. /\ i + c <= n => s[i] <= b
          /\ i + c + WarnLimit <= n => s[i] + Window <= b
      BY <1>3, <2>2
    <3>3. ASSUME i + 2 * WarnLimit <= n PROVE t[i + 2 * WarnLimit] - t[i] >= Window
      <4>1. i + 2 * WarnLimit \in 1..n
        BY <1>1, <1>2, <2>2, <3>3
      <4>2. t[i + 2 * WarnLimit] = s[i + 2 * WarnLimit]
        BY <1>1, <4>1
      <4> QED BY <1>3, <2>2, <3>1, <3>3, <4>2
    <3>4. ASSUME i + 2 * WarnLimit = n + 1 PROVE t[i + 2 * WarnLimit] - t[i] >= Window
      <4>1. i + c + WarnLimit <= n
        BY <1>1, <1>2, <2>2, <3>4
      <4>2. s[i] + Window <= b /\ b <= now
        BY <1>3, <3>2, <4>1
      <4>3. t[i + 2 * WarnLimit] = now
        BY <1>1, <3>4
      <4> QED BY <1>2, <3>1, <4>2, <4>3
    <3> QED BY <1>1, <1>2, <2>2, <3>1, <3>2, <3>3, <3>4
  <2> QED BY <1>1, <2>1, <2>2
<1>6. x.start <= now /\ x.sent <= WarnLimit
  BY <1>2, <1>3, <1>4
<1>7. Fits(t, x) /\ Spaced(t)
  BY <1>1, <1>4, <1>5, <1>6, Zenon DEF Fits, Spaced
<1> QED BY <1>7 DEF t

(* What a lookup leaves of the map: room for the key, and, unless it was    *)
(* cleared, all but ended windows without a count.                          *)
LEMMA LeftFacts ==
  ASSUME LInv, NEW k \in Key
  PROVE  /\ Left(k) \subseteq DOMAIN keys
         /\ k \in DOMAIN keys => Left(k) = DOMAIN keys
         /\ IsFiniteSet(Left(k) \cup {k}) /\ Cardinality(Left(k) \cup {k}) <= SweepAt
         /\ Cleared(k) => Left(k) = {} /\ k \notin DOMAIN keys
         /\ ~Cleared(k) => \A j \in DOMAIN keys \ Left(k) : Ended(j) /\ keys[j].suppressed = 0
<1>1. IsFiniteSet(DOMAIN keys) /\ Cardinality(DOMAIN keys) <= SweepAt
  BY DEF LInv, KeysBounded
<1>2. Unswept \subseteq DOMAIN keys /\ IsFiniteSet(Unswept)
  BY <1>1, FS_Subset DEF Unswept
<1>3. /\ Left(k) \subseteq DOMAIN keys
      /\ k \in DOMAIN keys => Left(k) = DOMAIN keys
      /\ Cleared(k) => Left(k) = {} /\ k \notin DOMAIN keys
      /\ ~Cleared(k) => \A j \in DOMAIN keys \ Left(k) : Ended(j) /\ keys[j].suppressed = 0
  BY <1>2, Zenon DEF Left, Cleared, Full, Unswept
<1>4. IsFiniteSet(Left(k))
  BY <1>1, <1>3, FS_Subset
<1>5. Cardinality(Left(k)) \in Nat /\ SweepAt \in Nat \ {0}
  BY <1>4, FS_CardinalityType, LimiterAssumption
<1>6. CASE k \in DOMAIN keys
  <2>1. Left(k) \cup {k} = DOMAIN keys
    BY <1>3, <1>6
  <2> QED BY <1>1, <1>3, <2>1
<1>7. CASE k \notin DOMAIN keys
  <2>1. IsFiniteSet(Left(k) \cup {k}) /\ Cardinality(Left(k) \cup {k}) = Cardinality(Left(k)) + 1
    BY <1>3, <1>4, <1>7, FS_AddElement
  <2>2. Cardinality(Left(k)) < SweepAt
    <3>1. CASE Cleared(k)
      BY <1>3, <1>5, <3>1, FS_EmptySet
    <3>2. CASE ~Cleared(k) /\ Full(k)
      <4>1. Left(k) = Unswept /\ ~(Cardinality(Unswept) >= SweepAt)
        BY <3>2 DEF Left, Cleared
      <4> QED BY <1>5, <4>1
    <3>3. CASE ~Full(k)
      <4>1. Left(k) = DOMAIN keys /\ ~(Cardinality(DOMAIN keys) >= SweepAt)
        BY <1>7, <3>3 DEF Left, Cleared, Full
      <4> QED BY <1>5, <4>1
    <3> QED BY <3>1, <3>2, <3>3
  <2> QED BY <1>3, <1>5, <2>1, <2>2
<1> QED BY <1>6, <1>7

(* The initial state satisfies LInv. *)
LEMMA InitLInv == LimiterInit => LInv
<1> SUFFICES ASSUME LimiterInit PROVE LInv
  OBVIOUS
<1>1. DOMAIN keys = {} /\ IsFiniteSet({}) /\ Cardinality({}) = 0
  BY FS_EmptySet DEF LimiterInit
<1>2. sent \in [Key -> Seq(Nat)] /\ \A k \in Key : Len(sent[k]) = 0
  BY DEF LimiterInit
<1>3. LimiterTypeOK
  BY <1>1, <1>2 DEF LimiterInit, LimiterTypeOK
<1>4. WarningsAccounted
  BY <1>1 DEF LimiterInit, WarningsAccounted, Held
<1>5. RateBounded /\ \A k \in Key : Idle(sent[k])
  BY <1>2 DEF RateBounded, Idle
<1>6. KeysBounded
  BY <1>1, LimiterAssumption DEF KeysBounded
<1> QED BY <1>1, <1>3, <1>4, <1>5, <1>6 DEF LInv

(* Time passing keeps LInv. *)
LEMMA TickKeeps == LInv /\ Tick => LInv'
<1> SUFFICES ASSUME LInv, Tick PROVE LInv'
  OBVIOUS
<1>1. now \in Nat /\ now' = now + 1 /\ UNCHANGED <<keys, warned, sent, counts>>
  BY DEF Tick, LInv, LimiterTypeOK
<1>2. LimiterTypeOK' /\ WarningsAccounted' /\ RateBounded' /\ IsFiniteSet(DOMAIN keys')
      /\ KeysBounded'
  BY <1>1 DEF LInv, LimiterTypeOK, WarningsAccounted, Held, RateBounded, KeysBounded, counts
<1>3. ASSUME NEW k \in Key
      PROVE  IF k \in DOMAIN keys' THEN Fits(sent[k], keys[k])' ELSE Idle(sent[k])'
  <2>1. \A i \in 1..Len(sent[k]) : sent[k][i] \in Nat
    BY DEF LInv, LimiterTypeOK
  <2>2. CASE k \in DOMAIN keys
    <3>1. keys[k].start \in Nat /\ Fits(sent[k], keys[k])
      BY <2>2 DEF LInv, LimiterTypeOK, WarnWindow
    <3> QED BY <1>1, <2>1, <2>2, <3>1 DEF Fits
  <2>3. CASE k \notin DOMAIN keys
    <3>1. Idle(sent[k]) /\ Window \in Nat
      BY <2>3, LimiterAssumption DEF LInv
    <3> QED BY <1>1, <2>1, <2>3, <3>1 DEF Idle
  <2> QED BY <1>1, <2>2, <2>3
<1> QED BY <1>2, <1>3 DEF LInv

(* A warning changes the window of its key, and drops those that are not    *)
(* left; the times of the others are kept, or cleared with the map.         *)
LEMMA AllowShape ==
  ASSUME LInv, NEW k \in Key, allow(k)
  PROVE  /\ now' = now /\ DOMAIN keys' = Left(k) \cup {k}
         /\ keys'[k] \in WarnWindow /\ keys'[k].start = Current(k).start
         /\ \A j \in Left(k) \ {k} : keys'[j] = keys[j]
         /\ \A j \in Key \ {k} : sent'[j] = IF Cleared(k) THEN <<>> ELSE sent[j]
         /\ sent' \in [Key -> Seq(Nat)]
         /\ \/ /\ Current(k).sent < WarnLimit
               /\ keys'[k].sent = Current(k).sent + 1 /\ keys'[k].suppressed = 0
               /\ sent'[k] = Append(IF Cleared(k) THEN <<>> ELSE sent[k], now)
               /\ through' = [through EXCEPT ![k] = @ + 1]
               /\ told' = [told EXCEPT ![k] = @ + Current(k).suppressed]
            \/ /\ Current(k).sent >= WarnLimit /\ ~Cleared(k)
               /\ keys'[k].sent = Current(k).sent
               /\ keys'[k].suppressed = Current(k).suppressed + 1
               /\ sent'[k] = sent[k] /\ UNCHANGED <<through, told>>
<1> DEFINE w == Current(k)
<1>1. w \in WarnWindow /\ now \in Nat /\ sent \in [Key -> Seq(Nat)] /\ WarnLimit \in Nat \ {0}
  BY CurrentFits, LimiterAssumption DEF LInv, LimiterTypeOK
<1>2. Cleared(k) => w.sent = 0
  BY DEF Cleared, Full, Current
<1> HIDE DEF w
<1>3. now' = now
  BY DEF allow
<1>4. CASE Pass(k)
  <2>1. /\ w.sent < WarnLimit
        /\ keys' = [j \in Left(k) \cup {k} |->
                      IF j = k THEN [w EXCEPT !.sent = @ + 1, !.suppressed = 0] ELSE keys[j]]
        /\ through' = [through EXCEPT ![k] = @ + 1]
        /\ told' = [told EXCEPT ![k] = @ + w.suppressed]
    BY <1>4 DEF Pass, w
  <2>2. sent' = [(IF Cleared(k) THEN [j \in Key |-> <<>>] ELSE sent) EXCEPT ![k] = Append(@, now)]
    BY <1>4 DEF Pass
  <2>3. keys'[k] = [w EXCEPT !.sent = @ + 1, !.suppressed = 0]
    BY <2>1
  <2>4. /\ keys'[k] \in WarnWindow /\ keys'[k].start = w.start
        /\ keys'[k].sent = w.sent + 1 /\ keys'[k].suppressed = 0
    <3>1. w.start \in Nat /\ w.sent \in Nat
      BY <1>1 DEF WarnWindow
    <3>2. keys'[k] = [start |-> w.start, sent |-> w.sent + 1, suppressed |-> 0]
      BY <1>1, <2>3 DEF WarnWindow
    <3> QED BY <3>1, <3>2 DEF WarnWindow
  <2>5. /\ sent'[k] = Append(IF Cleared(k) THEN <<>> ELSE sent[k], now)
        /\ \A j \in Key \ {k} : sent'[j] = IF Cleared(k) THEN <<>> ELSE sent[j]
        /\ sent' \in [Key -> Seq(Nat)]
    <3>1. CASE Cleared(k)
      <4>1. sent' = [[j \in Key |-> <<>>] EXCEPT ![k] = Append(@, now)]
        BY <2>2, <3>1
      <4>2. <<>> \in Seq(Nat) /\ Append(<<>>, now) \in Seq(Nat)
        BY <1>1
      <4> QED BY <3>1, <4>1, <4>2
    <3>2. CASE ~Cleared(k)
      <4>1. sent' = [sent EXCEPT ![k] = Append(@, now)]
        BY <2>2, <3>2
      <4>2. Append(sent[k], now) \in Seq(Nat)
        BY <1>1
      <4> QED BY <1>1, <3>2, <4>1, <4>2
    <3> QED BY <3>1, <3>2
  <2>6. DOMAIN keys' = Left(k) \cup {k} /\ \A j \in Left(k) \ {k} : keys'[j] = keys[j]
    BY <2>1
  <2> QED BY <1>3, <2>1, <2>4, <2>5, <2>6 DEF w
<1>5. CASE Suppress(k)
  <2>1. /\ w.sent >= WarnLimit
        /\ keys' = [j \in Left(k) \cup {k} |->
                      IF j = k THEN [w EXCEPT !.suppressed = @ + 1] ELSE keys[j]]
        /\ UNCHANGED <<sent, through, told>>
    BY <1>5 DEF Suppress, w
  <2>2. ~Cleared(k)
    BY <1>1, <1>2, <2>1
  <2>3. keys'[k] = [w EXCEPT !.suppressed = @ + 1]
    BY <2>1
  <2>4. /\ keys'[k] \in WarnWindow /\ keys'[k].start = w.start
        /\ keys'[k].sent = w.sent /\ keys'[k].suppressed = w.suppressed + 1
    BY <1>1, <2>3 DEF WarnWindow
  <2>5. DOMAIN keys' = Left(k) \cup {k} /\ \A j \in Left(k) \ {k} : keys'[j] = keys[j]
    BY <2>1
  <2> QED BY <1>1, <1>3, <2>1, <2>2, <2>4, <2>5 DEF w
<1> QED BY <1>4, <1>5 DEF allow

(* A warning keeps the counts in balance. *)
LEMMA AllowAccounted ==
  ASSUME LInv, NEW k \in Key, allow(k)
  PROVE  WarningsAccounted'
<1> SUFFICES ASSUME NEW j \in Key
             PROVE  asked'[j] = through'[j] + told'[j] + forgotten'[j] + Held(j)'
  BY DEF WarningsAccounted
<1>1. /\ asked[j] \in Nat /\ through[j] \in Nat /\ told[j] \in Nat /\ forgotten[j] \in Nat
      /\ asked[j] = through[j] + told[j] + forgotten[j] + Held(j)
      /\ {asked, through, told, forgotten} \subseteq [Key -> Nat]
  BY DEF LInv, LimiterTypeOK, WarningsAccounted
<1>2. /\ asked' = [asked EXCEPT ![k] = @ + 1]
      /\ forgotten' = [i \in Key |-> IF i \in DOMAIN keys \ Left(k)
                                     THEN forgotten[i] + keys[i].suppressed ELSE forgotten[i]]
  BY DEF allow
<1>3. CASE j = k
  <2>1. forgotten'[k] = forgotten[k]
    BY <1>2, LeftFacts
  <2>2. Held(k)' = keys'[k].suppressed /\ Current(k).suppressed = Held(k) /\ Held(k) \in Nat
    BY AllowShape, CurrentFits DEF Held, WarnWindow
  <2>3. asked'[k] = asked[k] + 1
    BY <1>1, <1>2
  <2>4. \/ /\ keys'[k].suppressed = 0
           /\ through'[k] = through[k] + 1 /\ told'[k] = told[k] + Held(k)
        \/ /\ keys'[k].suppressed = Held(k) + 1
           /\ through'[k] = through[k] /\ told'[k] = told[k]
    <3>1. \/ /\ keys'[k].suppressed = 0
             /\ through' = [through EXCEPT ![k] = @ + 1]
             /\ told' = [told EXCEPT ![k] = @ + Current(k).suppressed]
          \/ /\ keys'[k].suppressed = Current(k).suppressed + 1
             /\ through' = through /\ told' = told
      BY AllowShape
    <3>2. through \in [Key -> Nat] /\ told \in [Key -> Nat]
      BY <1>1
    <3> QED BY <2>2, <3>1, <3>2
  <2> QED BY <1>1, <1>3, <2>1, <2>2, <2>3, <2>4
<1>4. CASE j # k
  <2>1. asked'[j] = asked[j] /\ through'[j] = through[j] /\ told'[j] = told[j]
    BY <1>1, <1>2, <1>4, AllowShape
  <2>2. CASE j \in Left(k)
    <3>1. j \in DOMAIN keys /\ j \in DOMAIN keys' /\ keys'[j] = keys[j]
      BY <1>4, <2>2, AllowShape, LeftFacts
    <3>2. forgotten'[j] = forgotten[j] /\ Held(j)' = Held(j)
      BY <1>2, <2>2, <3>1 DEF Held
    <3> QED BY <1>1, <2>1, <3>2
  <2>3. CASE j \notin Left(k)
    <3>0. j \notin DOMAIN keys'
      <4>1. DOMAIN keys' = Left(k) \cup {k}
        BY AllowShape
      <4> QED BY <1>4, <2>3, <4>1
    <3>1. Held(j)' = 0
      BY <3>0 DEF Held
    <3>2. forgotten'[j] = forgotten[j] + Held(j)
      <4>1. CASE j \in DOMAIN keys
        BY <1>2, <2>3, <4>1 DEF Held
      <4>2. CASE j \notin DOMAIN keys
        BY <1>1, <1>2, <4>2 DEF Held
      <4> QED BY <4>1, <4>2
    <3>3. Held(j) \in Nat
      BY DEF Held, LInv, LimiterTypeOK, WarnWindow
    <3> QED BY <1>1, <2>1, <3>1, <3>2, <3>3
  <2> QED BY <2>2, <2>3
<1> QED BY <1>3, <1>4

(* It keeps the times of every key in step with its window. *)
LEMMA AllowFits ==
  ASSUME LInv, NEW k \in Key, allow(k), NEW j \in Key
  PROVE  /\ IF j \in DOMAIN keys' THEN Fits(sent[j], keys[j])' ELSE Idle(sent[j])'
         /\ Spaced(sent'[j])
<1>0. now' = now /\ now \in Nat /\ Window \in Nat /\ WarnLimit \in Nat \ {0}
  BY LimiterAssumption, AllowShape DEF LInv, LimiterTypeOK
<1>1. \A i \in Key : Spaced(sent[i]) /\ sent[i] \in Seq(Nat)
  BY DEF LInv, RateBounded, Spaced, LimiterTypeOK
<1>2. Idle(<<>>) /\ Spaced(<<>>)
  BY DEF Idle, Spaced
<1>3. CASE j = k
  <2> DEFINE before == IF Cleared(k) THEN <<>> ELSE sent[k]
  <2>1. before \in Seq(Nat) /\ Spaced(before) /\ Fits(before, Current(k))
    BY <1>1, <1>2, CurrentFits
  <2>2. Current(k) \in WarnWindow /\ keys'[k] \in WarnWindow /\ k \in DOMAIN keys'
    BY CurrentFits, AllowShape
  <2>3. CASE sent'[k] = Append(before, now) /\ Current(k).sent < WarnLimit
             /\ keys'[k].sent = Current(k).sent + 1
    <3> HIDE DEF before
    <3>1. keys'[k].start = Current(k).start
      BY AllowShape
    <3>2. Fits(sent'[k], keys'[k]) /\ Spaced(sent'[k])
      BY <1>0, <2>1, <2>2, <2>3, <3>1, PassFits
    <3>3. Fits(sent[k], keys[k])'
      BY <1>0, <3>2 DEF Fits
    <3> QED BY <1>3, <2>2, <3>2, <3>3
  <2>4. CASE sent'[k] = sent[k] /\ keys'[k].sent = Current(k).sent
    <3>1. keys'[k].start = Current(k).start /\ Fits(sent[k], Current(k))
      BY AllowShape, CurrentFits
    <3>2. Fits(sent[k], keys[k])'
      BY <1>0, <2>4, <3>1 DEF Fits
    <3> QED BY <1>1, <1>3, <2>2, <2>4, <3>2
  <2> QED BY <2>3, <2>4, AllowShape
<1>4. CASE j # k /\ Cleared(k)
  <2>1. sent'[j] = <<>> /\ j \notin DOMAIN keys'
    BY <1>4, AllowShape, LeftFacts
  <2> QED BY <1>0, <1>2, <2>1 DEF Idle
<1>5. CASE j # k /\ ~Cleared(k)
  <2>1. sent'[j] = sent[j]
    BY <1>5, AllowShape
  <2>2. CASE j \in Left(k)
    <3>1. j \in DOMAIN keys /\ j \in DOMAIN keys' /\ keys'[j] = keys[j]
      BY <1>5, <2>2, AllowShape, LeftFacts
    <3>2. Fits(sent[j], keys[j])
      BY <3>1 DEF LInv
    <3> QED BY <1>0, <1>1, <2>1, <3>1, <3>2 DEF Fits
  <2>3. CASE j \in DOMAIN keys \ Left(k)
    <3>1. j \notin DOMAIN keys' /\ Ended(j) /\ Fits(sent[j], Current(j))
      BY <1>5, <2>3, AllowShape, LeftFacts, CurrentFits
    <3>2. Current(j).start = now /\ Current(j).sent = 0
      BY <2>3, <3>1 DEF Current, LInv, LimiterTypeOK, WarnWindow
    <3>3. Idle(sent[j])
      BY <1>0, <1>1, <3>1, <3>2 DEF Fits, Idle
    <3> QED BY <1>0, <1>1, <2>1, <3>1, <3>3 DEF Idle
  <2>4. CASE j \notin DOMAIN keys
    <3>1. j \notin DOMAIN keys'
      <4>1. DOMAIN keys' = Left(k) \cup {k}
        BY AllowShape
      <4>2. Left(k) \subseteq DOMAIN keys
        BY LeftFacts
      <4> QED BY <1>5, <2>4, <4>1, <4>2
    <3>2. Idle(sent[j])
      BY <2>4 DEF LInv
    <3> QED BY <1>0, <1>1, <2>1, <3>1, <3>2 DEF Idle
  <2> QED BY <2>2, <2>3, <2>4
<1> QED BY <1>3, <1>4, <1>5

(* The inductive step. *)
LEMMA AllowKeeps ==
  ASSUME LInv, NEW k \in Key, allow(k)
  PROVE  LInv'
<1>1. /\ now \in Nat /\ warned \in Nat /\ keys \in [DOMAIN keys -> WarnWindow]
      /\ DOMAIN keys \subseteq Key /\ {through, told, forgotten, asked} \subseteq [Key -> Nat]
  BY DEF LInv, LimiterTypeOK
<1>2. DOMAIN keys' = Left(k) \cup {k} /\ Left(k) \subseteq DOMAIN keys
  BY AllowShape, LeftFacts
<1>3. LimiterTypeOK'
  <2>1. now' \in Nat /\ warned' \in Nat
    BY <1>1 DEF allow
  <2>2. keys' \in [DOMAIN keys' -> WarnWindow]
    <3>1. keys' = [j \in DOMAIN keys' |-> keys'[j]]
      <4>1. CASE Pass(k)
        BY <4>1 DEF Pass
      <4>2. CASE Suppress(k)
        BY <4>2 DEF Suppress
      <4> QED BY <4>1, <4>2 DEF allow
    <3>2. \A j \in DOMAIN keys' : keys'[j] \in WarnWindow
      <4> SUFFICES ASSUME NEW j \in DOMAIN keys' PROVE keys'[j] \in WarnWindow
        OBVIOUS
      <4>1. CASE j = k
        BY <4>1, AllowShape
      <4>2. CASE j # k
        <5>1. keys'[j] = keys[j]
          BY <1>2, <4>2, AllowShape
        <5> QED BY <1>1, <1>2, <4>2, <5>1
      <4> QED BY <4>1, <4>2
    <3> QED BY <3>1, <3>2
  <2>3. sent' \in [Key -> Seq(Nat)]
    BY AllowShape
  <2>4. asked' \in [Key -> Nat] /\ forgotten' \in [Key -> Nat]
    <3>1. /\ asked' = [asked EXCEPT ![k] = @ + 1]
          /\ forgotten' = [j \in Key |-> IF j \in DOMAIN keys \ Left(k)
                                         THEN forgotten[j] + keys[j].suppressed
                                         ELSE forgotten[j]]
      BY DEF allow
    <3>2. \A j \in DOMAIN keys : keys[j].suppressed \in Nat
      BY <1>1 DEF WarnWindow
    <3> QED BY <1>1, <3>1, <3>2
  <2>5. through' \in [Key -> Nat] /\ told' \in [Key -> Nat]
    <3>1. \/ /\ through' = [through EXCEPT ![k] = @ + 1]
             /\ told' = [told EXCEPT ![k] = @ + Current(k).suppressed]
          \/ through' = through /\ told' = told
      BY DEF allow, Pass, Suppress
    <3>2. Current(k).suppressed \in Nat
      BY CurrentFits DEF WarnWindow
    <3> QED BY <1>1, <3>1, <3>2
  <2> QED BY <1>1, <1>2, <2>1, <2>2, <2>3, <2>4, <2>5 DEF LimiterTypeOK
<1>4. RateBounded'
  BY AllowFits DEF RateBounded, Spaced
<1>5. IsFiniteSet(DOMAIN keys') /\ KeysBounded'
  BY <1>2, LeftFacts DEF KeysBounded
<1> QED BY <1>3, <1>4, <1>5, AllowAccounted, AllowFits DEF LInv

(* A count is lost only with the whole map: a swept window has none. *)
LEMMA AllowForgets ==
  ASSUME LInv, NEW k \in Key, allow(k)
  PROVE  ForgetsWithAll
<1> SUFFICES ASSUME forgotten' # forgotten
             PROVE  k \notin DOMAIN keys /\ DOMAIN keys' = {k}
  BY DEF ForgetsWithAll
<1>1. Cleared(k)
  <2> SUFFICES ASSUME ~Cleared(k) PROVE FALSE
    OBVIOUS
  <2>1. \A j \in DOMAIN keys \ Left(k) : keys[j].suppressed = 0
    BY LeftFacts
  <2>2. forgotten \in [Key -> Nat]
    BY DEF LInv, LimiterTypeOK
  <2>3. forgotten' = [j \in Key |-> IF j \in DOMAIN keys \ Left(k)
                                   THEN forgotten[j] + keys[j].suppressed ELSE forgotten[j]]
    BY DEF allow
  <2>4. forgotten' = forgotten
    BY <2>1, <2>2, <2>3
  <2> QED BY <2>4
<1>2. Left(k) = {} /\ k \notin DOMAIN keys
  BY <1>1, LeftFacts
<1>3. DOMAIN keys' = Left(k) \cup {k}
  BY AllowShape
<1> QED BY <1>2, <1>3

(* The limiter of warnings (telemetry/handler.go, warnLimiter.allow) counts *)
(* every warning, bounds its map and its rate and forgets only everything,  *)
(* for any limit, window, size of the map and set of keys.                  *)
THEOREM LimiterKeepsItsPromises == LimiterSpec => WarningsLimited
<1>1. LimiterInit => LInv
  BY InitLInv
<1>2. LInv /\ [LimiterNext]_limiterVars => LInv' /\ [ForgetsWithAll]_limiterVars
  <2> SUFFICES ASSUME LInv, [LimiterNext]_limiterVars
               PROVE  LInv' /\ [ForgetsWithAll]_limiterVars
    OBVIOUS
  <2>1. CASE Tick
    <3>1. forgotten' = forgotten
      BY <2>1 DEF Tick, counts
    <3> QED BY <2>1, <3>1, TickKeeps DEF ForgetsWithAll
  <2>2. ASSUME NEW k \in Key, allow(k)
        PROVE  LInv' /\ ForgetsWithAll
    BY <2>2, AllowKeeps, AllowForgets
  <2>3. CASE UNCHANGED limiterVars
    BY <2>3 DEF limiterVars, counts, LInv, LimiterTypeOK, WarningsAccounted, RateBounded,
                KeysBounded, Held, Fits, Idle
  <2> QED BY <2>1, <2>2, <2>3 DEF LimiterNext
<1>3. LInv => WarningsAccounted /\ KeysBounded /\ RateBounded
  BY DEF LInv
<1> QED BY <1>1, <1>2, <1>3, PTL DEF LimiterSpec, WarningsLimited
=============================================================================
