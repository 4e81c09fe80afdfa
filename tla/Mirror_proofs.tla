---------------------------- MODULE Mirror_proofs ----------------------------
(***************************************************************************)
(* Theorems about screen mirroring.                                        *)
(*                                                                         *)
(* MirrorMedia: pictures and sound reach the bridge whole and in order,    *)
(* for any window, any sequence space and any losses.  The invariant says  *)
(* where every packet that is still wanted lies in the window.             *)
(*                                                                         *)
(* MirrorClock: presentation times move smoothly, for any clock rates and  *)
(* any times the sender gives.                                             *)
(*                                                                         *)
(* MirrorControl: every bridge is held exactly as often as its reference   *)
(* count says, no callback waits for a bridge that nobody will cancel, and *)
(* nothing is left of a session that ended - for any number of connections,*)
(* bridges and requests, over the interleavings of the connections, the    *)
(* receiver threads, the application and the worker.                       *)
(***************************************************************************)
EXTENDS MirrorMedia, MirrorClock, MirrorControl, FiniteSetTheorems, SequenceTheorems,
        WellFoundedInduction, TLAPS

-----------------------------------------------------------------------------
(* Remainders. *)

\* Division with remainder.
LEMMA DivMod ==
    ASSUME NEW a \in Int, NEW d \in Nat \ {0}
    PROVE  /\ a % d \in 0 .. d - 1 /\ a \div d \in Int
           /\ a = (d * (a \div d)) + (a % d)
  OBVIOUS

\* The remainder is the only one.
LEMMA OneRemainder ==
    ASSUME NEW d \in Nat \ {0}, NEW q \in Int, NEW p \in Int,
           NEW r \in 0 .. d - 1, NEW s \in 0 .. d - 1, d * q + r = d * p + s
    PROVE  q = p /\ r = s
  <1>1. d * (q - p) = s - r
    OBVIOUS
  <1>2. q - p < 1
    <2>1. SUFFICES ASSUME q - p >= 1 PROVE FALSE
      OBVIOUS
    <2>2. d * (q - p) >= d
      BY <2>1
    <2> QED
      BY <1>1, <2>2
  <1>3. q - p > -1
    <2>1. SUFFICES ASSUME p - q >= 1 PROVE FALSE
      OBVIOUS
    <2>2. d * (p - q) >= d
      BY <2>1
    <2> QED
      BY <1>1, <2>2
  <1> QED
    BY <1>1, <1>2, <1>3

\* A remainder in range is the remainder.
LEMMA RemainderIs ==
    ASSUME NEW d \in Nat \ {0}, NEW a \in Int, NEW q \in Int, NEW r \in 0 .. d - 1, a = d * q + r
    PROVE  a % d = r
  <1>1. PICK p \in Int, s \in 0 .. d - 1 : a = d * p + s /\ a % d = s
    BY DivMod
  <1>2. d * q + r = d * p + s
    BY <1>1
  <1>3. r = s
    BY <1>2, OneRemainder
  <1> QED
    BY <1>1, <1>3

\* A remainder may be taken before or after an addition.
LEMMA RemainderOfSum ==
    ASSUME NEW d \in Nat \ {0}, NEW a \in Int, NEW k \in Int
    PROVE  ((a % d) + k) % d = (a + k) % d
  <1>1. PICK q \in Int, r \in 0 .. d - 1 : a = d * q + r /\ a % d = r
    BY DivMod
  <1>2. PICK x \in Int : x = r + k
    OBVIOUS
  <1>3. PICK p \in Int, s \in 0 .. d - 1 : x = d * p + s /\ x % d = s
    BY DivMod
  <1>4. PICK y \in Int : y = a + k
    OBVIOUS
  <1>5. PICK t \in Int : t = q + p
    OBVIOUS
  <1>6. d * q + d * p = d * t
    BY <1>5
  <1>7. y = d * t + s
    BY <1>1, <1>2, <1>3, <1>4, <1>6
  <1>8. y % d = s
    BY <1>7, RemainderIs
  <1> QED
    BY <1>1, <1>2, <1>3, <1>4, <1>8

\* Numbers less than d apart differ in their remainders.
LEMMA RemaindersApart ==
    ASSUME NEW d \in Nat \ {0}, NEW a \in Int, NEW b \in Int, a % d = b % d, a - b < d, b - a < d
    PROVE  a = b
  <1>1. PICK q \in Int, r \in 0 .. d - 1 : a = d * q + r /\ a % d = r
    BY DivMod
  <1>2. PICK p \in Int, s \in 0 .. d - 1 : b = d * p + s /\ b % d = s
    BY DivMod
  <1>3. r = s
    BY <1>1, <1>2
  <1>4. a - b = d * (q - p)
    BY <1>1, <1>2, <1>3
  <1>5. q - p < 1
    <2>1. SUFFICES ASSUME q - p >= 1 PROVE FALSE
      OBVIOUS
    <2>2. d * (q - p) >= d
      BY <2>1
    <2> QED
      BY <1>4, <2>2
  <1>6. p - q < 1
    <2>1. SUFFICES ASSUME p - q >= 1 PROVE FALSE
      OBVIOUS
    <2>2. d * (p - q) >= d
      BY <2>1
    <2>3. b - a = d * (p - q)
      BY <1>4
    <2> QED
      BY <2>3, <2>2
  <1> QED
    BY <1>4, <1>5, <1>6

\* The remainder by a multiple of w keeps the remainder by w.
LEMMA RemainderOfRemainder ==
    ASSUME NEW d \in Nat \ {0}, NEW w \in Nat \ {0}, d % w = 0, NEW a \in Int
    PROVE  (a % d) % w = a % w
  <1>1. PICK m \in Int : d = w * m
    <2>1. d \in Int /\ d = (w * (d \div w)) + (d % w) /\ d \div w \in Int
      BY DivMod
    <2> QED
      BY <2>1
  <1>2. PICK q \in Int, r \in 0 .. d - 1 : a = d * q + r /\ a % d = r
    BY DivMod
  <1>3. PICK p \in Int, s \in 0 .. w - 1 : r = w * p + s /\ r % w = s
    <2>1. r \in Int
      OBVIOUS
    <2> QED
      BY <2>1, DivMod
  <1>4. PICK t \in Int : t = m * q
    OBVIOUS
  <1>5. d * q = w * t
    BY <1>1, <1>4
  <1>6. PICK u \in Int : u = t + p
    OBVIOUS
  <1>7. w * u = w * t + w * p
    BY <1>6
  <1>8. a = w * u + s
    BY <1>2, <1>3, <1>5, <1>7
  <1>9. a % w = s
    BY <1>8, RemainderIs
  <1> QED
    BY <1>2, <1>3, <1>9
-----------------------------------------------------------------------------
(* The reorder window, seen from the number of the packet it waits for.     *)

SoundStates == [slots : [0 .. Window - 1 -> Int], expected : Int, ready : BOOLEAN,
                discontinuity : BOOLEAN]
Frames == [id : Nat, gap : BOOLEAN]

\* The window s waits for packet e: what it holds are packets from e on, less
\* than a window ahead, each in its place.
Placed(s, e) ==
    /\ s.expected = e % SequenceSpace
    /\ \A i \in 0 .. Window - 1 : s.slots[i] # Vacant =>
          s.slots[i] \in e .. e + Window - 1 /\ s.slots[i] % Window = i

\* Frames in the order they were sent, each gap marked.
Ordered(h) ==
    \A i \in 1 .. Len(h) - 1 :
        /\ h[i].id < h[i + 1].id
        /\ h[i + 1].id # h[i].id + 1 => h[i + 1].gap

\* They end before packet e; what is missing will be marked when d.
EndsBefore(h, e, d) == h # <<>> => h[Len(h)].id < e /\ (h[Len(h)].id + 1 = e \/ d)

\* What the window's assumptions give.
LEMMA WindowFacts ==
    /\ Window \in Nat \ {0} /\ SequenceSpace \in Nat \ {0} /\ Window < SequenceSpace
    /\ 2 * Window <= SequenceSpace /\ SequenceSpace % Window = 0
    /\ Threshold \in 1 .. Window /\ MaxLate \in Nat /\ 2 * MaxLate <= SequenceSpace
    /\ MaxSound \in Nat
  BY MirrorMediaAssumption

\* Place and number of the k-th packet from e.
LEMMA PlaceOf ==
    ASSUME NEW e \in Nat, NEW k \in 0 .. Window
    PROVE  /\ ((e % SequenceSpace) + k) % Window = (e + k) % Window
           /\ ((e % SequenceSpace) + k) % SequenceSpace = (e + k) % SequenceSpace
           /\ (e + k) % Window \in 0 .. Window - 1
  <1>1. /\ e \in Int /\ k \in Int /\ Window \in Nat \ {0} /\ SequenceSpace \in Nat \ {0}
        /\ SequenceSpace % Window = 0
    BY WindowFacts
  <1>2. e % SequenceSpace \in Int
    BY <1>1
  <1>3. (e % SequenceSpace) % Window = e % Window
    BY <1>1, RemainderOfRemainder, Zenon
  <1>4. (((e % SequenceSpace) % Window) + k) % Window = ((e % SequenceSpace) + k) % Window
    BY <1>1, <1>2, RemainderOfSum, Zenon
  <1>5. ((e % Window) + k) % Window = (e + k) % Window
    BY <1>1, RemainderOfSum, Zenon
  <1>6. ((e % SequenceSpace) + k) % SequenceSpace = (e + k) % SequenceSpace
    BY <1>1, RemainderOfSum, Zenon
  <1>7. e + k \in Int
    BY <1>1
  <1>8. (e + k) % Window \in 0 .. Window - 1
    BY <1>1, <1>7, DivMod, Zenon
  <1> QED
    BY <1>3, <1>4, <1>5, <1>6, <1>8, Zenon

\* A place of the window holds the packet it is for, or another of its window.
LEMMA HoldsIs ==
    ASSUME NEW s \in SoundStates, NEW e \in Nat, Placed(s, e), NEW k \in 0 .. Window - 1
    PROVE  holds(s, k) <=> s.slots[(e + k) % Window] = e + k
  <1>1. PICK p \in 0 .. Window - 1 : p = (e + k) % Window
    <2>1. k \in 0 .. Window
      BY WindowFacts
    <2> QED
      BY <2>1, PlaceOf, Zenon
  <1>2. PICK m \in Int : m = s.slots[p]
    BY DEF SoundStates
  <1>3. s.expected = e % SequenceSpace /\ (m # Vacant => m \in e .. e + Window - 1)
    BY <1>2 DEF Placed
  <1>4. /\ (s.expected + k) % Window = p
        /\ (s.expected + k) % SequenceSpace = (e + k) % SequenceSpace
    <2>1. k \in 0 .. Window
      BY WindowFacts
    <2> QED
      BY <1>1, <1>3, <2>1, PlaceOf, Zenon
  <1>5. holds(s, k) <=> m # Vacant /\ m % SequenceSpace = (e + k) % SequenceSpace
    BY <1>2, <1>4 DEF holds, sequence
  <1>6. PICK y \in Nat : y = e + k
    OBVIOUS
  <1>7. ASSUME m # Vacant, m % SequenceSpace = y % SequenceSpace
        PROVE  m = y
    <2>1. m - y < SequenceSpace /\ y - m < SequenceSpace
      BY <1>3, <1>6, <1>7, WindowFacts
    <2>2. y \in Int /\ SequenceSpace \in Nat \ {0}
      BY WindowFacts
    <2> QED
      BY <1>7, <2>1, <2>2, RemaindersApart, Zenon
  <1>8. m = y => m # Vacant
    BY <1>6 DEF Vacant
  <1> QED
    BY <1>1, <1>2, <1>5, <1>6, <1>7, <1>8

\* audio_emit_ready stops at the first place that is not ready.
LEMMA RunIs ==
    ASSUME NEW s
    PROVE  /\ run(s) \in 0 .. Window
           /\ \A i \in 0 .. run(s) - 1 : holds(s, i)
           /\ run(s) = Window \/ ~holds(s, run(s))
  <1> DEFINE T == {k \in 0 .. Window : k = Window \/ ~holds(s, k)}
  <1>1. T \subseteq Nat /\ Window \in T
    BY WindowFacts
  <1>2. \E x \in T : \A y \in T : ~(<<y, x>> \in OpToRel(<, Nat))
    BY <1>1, NatLessThanWellFounded, WFMin
  <1>3. PICK x \in T : \A y \in T : ~(y < x)
    BY <1>1, <1>2 DEF OpToRel
  <1>4. \A i \in 0 .. x - 1 : holds(s, i)
    <2>1. TAKE i \in 0 .. x - 1
    <2>2. i \in 0 .. Window /\ i < x /\ i # Window
      BY WindowFacts
    <2> QED
      BY <1>3, <2>2
  <1>5. x \in 0 .. Window /\ (\A i \in 0 .. x - 1 : holds(s, i)) /\ (x = Window \/ ~holds(s, x))
    BY <1>4
  <1>6. \E k \in 0 .. Window : (\A i \in 0 .. k - 1 : holds(s, i)) /\ (k = Window \/ ~holds(s, k))
    BY <1>5
  <1> QED
    BY <1>6 DEF run

\* audio_emit_ready hands on the packets from e in their order, and the window
\* then waits for the one after them.
LEMMA EmitReady ==
    ASSUME NEW s \in SoundStates, NEW e \in Nat, Placed(s, e)
    PROVE  /\ emit_ready(s) \in SoundStates /\ Placed(emit_ready(s), e + run(s))
           /\ emitted(s) = [i \in 1 .. run(s) |-> [id |-> e + i - 1, gap |-> i = 1 /\ s.discontinuity]]
           /\ emit_ready(s).discontinuity = (s.discontinuity /\ run(s) = 0)
           /\ emit_ready(s).ready = s.ready
           /\ \A i \in 0 .. Window - 1 : emit_ready(s).slots[i] \in {Vacant, s.slots[i]}
           /\ run(s) > 0 => \E i \in 0 .. Window - 1 : s.slots[i] = e + run(s) - 1
           /\ holds(s, 0) => emit_ready(s).slots[s.expected % Window] = Vacant
  <1> DEFINE r == run(s)
             next == [i \in 0 .. Window - 1 |->
                        IF \E k \in 0 .. r - 1 : i = (e + k) % Window THEN Vacant ELSE s.slots[i]]
  <1>1. /\ r \in 0 .. Window
        /\ \A i \in 0 .. r - 1 : holds(s, i)
        /\ r = Window \/ ~holds(s, r)
    BY RunIs, Zenon
  <1>2. \A k \in 0 .. Window : /\ (s.expected + k) % Window = (e + k) % Window
                               /\ (s.expected + k) % SequenceSpace = (e + k) % SequenceSpace
                               /\ (e + k) % Window \in 0 .. Window - 1
    BY PlaceOf, Zenon DEF Placed
  <1>3. \A k \in 0 .. r - 1 : s.slots[(e + k) % Window] = e + k
    <2>1. TAKE k \in 0 .. r - 1
    <2>2. k \in 0 .. Window - 1 /\ holds(s, k)
      BY <1>1, WindowFacts
    <2> QED
      BY <2>2, HoldsIs, Zenon
  <1>4. DOMAIN s.slots = 0 .. Window - 1 /\ s.slots \in [0 .. Window - 1 -> Int]
    BY DEF SoundStates
  <1>5. /\ emit_ready(s) = [s EXCEPT !.slots = next, !.expected = (e + r) % SequenceSpace,
                                     !.discontinuity = @ /\ r = 0]
    <2>1. (s.expected + r) % SequenceSpace = (e + r) % SequenceSpace
      BY <1>1, <1>2
    <2>2. ASSUME NEW i \in 0 .. Window - 1
          PROVE  (\E k \in 0 .. r - 1 : i = (s.expected + k) % Window)
                 <=> (\E k \in 0 .. r - 1 : i = (e + k) % Window)
      <3>1. \A k \in 0 .. r - 1 : k \in 0 .. Window
        BY <1>1, WindowFacts
      <3> QED
        BY <1>2, <3>1, Zenon
    <2>3. [i \in DOMAIN s.slots |-> IF \E k \in 0 .. r - 1 : i = (s.expected + k) % Window
                                     THEN Vacant ELSE s.slots[i]] = next
      BY <1>4, <2>2, Zenon
    <2> QED
      BY <2>1, <2>3, Zenon DEF emit_ready
  <1> HIDE DEF r, next
  <1>6. /\ emit_ready(s).slots = next /\ emit_ready(s).expected = (e + r) % SequenceSpace
        /\ emit_ready(s).ready = s.ready
        /\ emit_ready(s).discontinuity = (s.discontinuity /\ r = 0)
    BY <1>5 DEF SoundStates
  <1>7. next \in [0 .. Window - 1 -> Int]
    <2>1. Vacant \in Int
      BY DEF Vacant
    <2>2. \A i \in 0 .. Window - 1 : s.slots[i] \in Int
      BY <1>4
    <2> QED
      BY <2>1, <2>2 DEF next
  <1>8. (e + r) % SequenceSpace \in Int
    BY <1>1, WindowFacts
  <1>9. emit_ready(s) \in SoundStates
    BY <1>5, <1>7, <1>8 DEF SoundStates
  <1>10. \A i \in 0 .. Window - 1 : next[i] \in {Vacant, s.slots[i]}
    BY DEF next
  <1>11. ASSUME NEW i \in 0 .. Window - 1, next[i] # Vacant
         PROVE  next[i] \in e + r .. e + r + Window - 1 /\ next[i] % Window = i
    <2>1. next[i] = s.slots[i] /\ \A k \in 0 .. r - 1 : i # (e + k) % Window
      BY <1>11 DEF next
    <2>2. s.slots[i] \in e .. e + Window - 1 /\ s.slots[i] % Window = i
      BY <1>11, <2>1 DEF Placed
    <2>3. PICK k \in 0 .. Window - 1 : s.slots[i] = e + k
      <3>1. PICK m \in e .. e + Window - 1 : m = s.slots[i]
        BY <2>2
      <3>2. m - e \in 0 .. Window - 1 /\ m = e + (m - e)
        BY WindowFacts
      <3> QED
        BY <3>1, <3>2
    <2>4. ~(k < r)
      BY <1>1, <2>1, <2>2, <2>3
    <2>5. e + k \in e + r .. e + r + Window - 1
      BY <1>1, <2>4, WindowFacts
    <2> QED
      BY <2>1, <2>2, <2>3, <2>5
  <1>12. Placed(emit_ready(s), e + r)
    BY <1>6, <1>11, Zenon DEF Placed
  <1>13. emitted(s) = [i \in 1 .. r |-> [id |-> e + i - 1, gap |-> i = 1 /\ s.discontinuity]]
    <2>1. ASSUME NEW i \in 1 .. r
          PROVE  s.slots[(s.expected + i - 1) % Window] = e + i - 1
      <3>1. PICK k \in 0 .. r - 1 : k = i - 1
        BY <1>1
      <3>2. s.slots[(s.expected + k) % Window] = e + k
        <4>1. k \in 0 .. Window
          BY <1>1, WindowFacts
        <4> QED
          BY <1>2, <1>3, <4>1
      <3>3. s.expected \in Int
        BY DEF SoundStates
      <3>4. e + k = e + i - 1 /\ s.expected + k = s.expected + i - 1
        BY <1>1, <3>1, <3>3
      <3> QED
        BY <3>2, <3>4
    <2> QED
      BY <2>1, Zenon DEF emitted, r
  <1>14. r > 0 => \E i \in 0 .. Window - 1 : s.slots[i] = e + r - 1
    <2>1. HAVE r > 0
    <2>2. PICK k \in 0 .. r - 1 : k = r - 1
      BY <1>1, <2>1
    <2>3. k \in 0 .. Window
      BY <1>1, WindowFacts
    <2>4. (e + k) % Window \in 0 .. Window - 1 /\ s.slots[(e + k) % Window] = e + k
      BY <1>2, <1>3, <2>3
    <2>5. e + k = e + r - 1
      BY <1>1, <2>2
    <2> QED
      BY <2>4, <2>5
  <1>15. holds(s, 0) => next[s.expected % Window] = Vacant
    <2>1. HAVE holds(s, 0)
    <2>2. r # 0
      BY <1>1, <2>1, WindowFacts
    <2>3. 0 \in 0 .. r - 1 /\ 0 \in 0 .. Window
      BY <1>1, <2>2, WindowFacts
    <2>4. s.expected + 0 = s.expected /\ e + 0 = e
      BY DEF SoundStates
    <2>5. s.expected % Window = e % Window /\ e % Window \in 0 .. Window - 1
      BY <1>2, <2>3, <2>4
    <2>6. next[e % Window] = Vacant
      BY <2>3, <2>4, <2>5, Zenon DEF next
    <2> QED
      BY <2>5, <2>6
  <1> QED
    BY <1>6, <1>9, <1>10, <1>12, <1>13, <1>14, <1>15 DEF r

\* How far a packet is ahead of the one the window waits for; one that is late
\* counts as half the sequence space ahead or more.
LEMMA DistanceIs ==
    ASSUME NEW e \in Nat, NEW n \in Int, n - e < SequenceSpace, 2 * (e - n) <= SequenceSpace
    PROVE  /\ n >= e => distance(n, e % SequenceSpace) = n - e
           /\ n < e => distance(n, e % SequenceSpace) >= SequenceSpace \div 2
           /\ distance(n, e % SequenceSpace) \in Nat
  <1>1. PICK S \in Nat \ {0} : S = SequenceSpace
    BY WindowFacts
  <1>2. PICK q \in Int, r \in 0 .. S - 1 : e = S * q + r /\ e % S = r
    BY <1>1, DivMod
  <1>3. PICK p \in Int, t \in 0 .. S - 1 : n = S * p + t /\ n % S = t
    BY <1>1, DivMod
  <1>4. distance(n, e % SequenceSpace) = (t - r) % S
    BY <1>1, <1>2, <1>3 DEF distance, sequence
  <1>5. PICK d \in Int : d = n - e
    OBVIOUS
  <1>6. d % S = (t - r) % S
    <2>1. PICK x \in Int : x = t - r
      OBVIOUS
    <2>2. PICK y \in Int, z \in 0 .. S - 1 : x = S * y + z /\ x % S = z
      BY DivMod
    <2>3. PICK w \in Int : w = p - q + y
      OBVIOUS
    <2>4. S * w = S * p - S * q + S * y
      BY <2>3
    <2>5. d = S * w + z
      BY <1>2, <1>3, <1>5, <2>1, <2>2, <2>4
    <2>6. d % S = z
      BY <2>5, RemainderIs
    <2> QED
      BY <2>1, <2>2, <2>6
  <1>7. CASE n >= e
    <2>1. d \in 0 .. S - 1 /\ d = S * 0 + d
      BY <1>1, <1>5, <1>7
    <2>2. d % S = d
      BY <2>1, RemainderIs
    <2> QED
      BY <1>4, <1>5, <1>6, <1>7, <2>1, <2>2
  <1>8. CASE n < e
    <2>1. PICK f \in 0 .. S - 1 : f = d + S
      BY <1>1, <1>5, <1>8
    <2>2. d = S * (-1) + f
      BY <2>1
    <2>3. d % S = f
      BY <2>2, RemainderIs
    <2>4. f >= S \div 2
      BY <1>1, <1>5, <2>1
    <2> QED
      BY <1>1, <1>4, <1>6, <1>8, <2>1, <2>3, <2>4
  <1> QED
    BY <1>7, <1>8

\* audio_skip_gap_if_needed goes on at the packet nearest to the one it waited
\* for, which is in the window.
LEMMA SkipGap ==
    ASSUME NEW s \in SoundStates, NEW e \in Nat, Placed(s, e), Cardinality(filled(s)) \in Nat
    PROVE  \E f \in Nat :
             /\ e <= f /\ skip_gap(s) \in SoundStates /\ Placed(skip_gap(s), f)
             /\ skip_gap(s).slots = s.slots /\ skip_gap(s).ready = s.ready
             /\ skip_gap(s).discontinuity = (s.discontinuity \/ f # e)
             /\ f # e => \E i \in 0 .. Window - 1 : s.slots[i] = f
             /\ Cardinality(filled(s)) >= Threshold =>
                  /\ holds(skip_gap(s), 0)
                  /\ skip_gap(s).expected % Window \in filled(s)
             /\ Cardinality(filled(s)) < Threshold => skip_gap(s) = s
  <1>1. CASE Cardinality(filled(s)) < Threshold
    <2>1. skip_gap(s) = s
      BY <1>1 DEF skip_gap
    <2>2. ~(Cardinality(filled(s)) >= Threshold)
      BY <1>1, WindowFacts
    <2>3. s.discontinuity = (s.discontinuity \/ e # e)
      BY DEF SoundStates
    <2> WITNESS e \in Nat
    <2> QED
      BY <2>1, <2>2, <2>3
  <1>2. CASE ~(Cardinality(filled(s)) < Threshold)
    <2> DEFINE D(i) == distance(s.slots[i], s.expected)
               T == {D(i) : i \in filled(s)}
    <2>1. \A i \in filled(s) : i \in 0 .. Window - 1 /\ s.slots[i] \in e .. e + Window - 1
                               /\ s.slots[i] % Window = i /\ D(i) = s.slots[i] - e
      <3>1. TAKE i \in filled(s)
      <3>2. i \in 0 .. Window - 1 /\ s.slots[i] # Vacant
        BY DEF filled, SoundStates
      <3>3. PICK n \in Int : n = s.slots[i]
        BY <3>2 DEF SoundStates
      <3>4. n \in e .. e + Window - 1 /\ n % Window = i /\ s.expected = e % SequenceSpace
        BY <3>2, <3>3 DEF Placed
      <3>5. n - e < SequenceSpace /\ 2 * (e - n) <= SequenceSpace /\ n >= e
        BY <3>4, WindowFacts
      <3>6. distance(n, e % SequenceSpace) = n - e
        BY <3>5, DistanceIs, Zenon
      <3> QED
        BY <3>2, <3>3, <3>4, <3>6
    <2>2. filled(s) # {}
      <3>1. SUFFICES ASSUME filled(s) = {} PROVE FALSE
        OBVIOUS
      <3>2. Cardinality(filled(s)) = 0
        BY <3>1, FS_EmptySet
      <3> QED
        BY <1>2, <3>2, WindowFacts
    <2> HIDE DEF D
    <2>3. \A i \in filled(s) : D(i) \in Nat
      <3>1. TAKE i \in filled(s)
      <3>2. PICK n \in e .. e + Window - 1 : n = s.slots[i] /\ D(i) = n - e
        BY <2>1
      <3> QED
        BY <3>2, WindowFacts
    <2>4. T \subseteq Nat /\ T # {}
      BY <2>2, <2>3
    <2>5. \E x \in T : \A y \in T : ~(<<y, x>> \in OpToRel(<, Nat))
      BY <2>4, NatLessThanWellFounded, WFMin
    <2>6. PICK x \in T : \A y \in T : ~(y < x)
      BY <2>4, <2>5 DEF OpToRel
    <2>7. \E i \in filled(s) : \A j \in filled(s) : D(i) <= D(j)
      <3>1. PICK i \in filled(s) : x = D(i)
        OBVIOUS
      <3>2. \A j \in filled(s) : D(j) \in T
        OBVIOUS
      <3>3. ASSUME NEW j \in filled(s) PROVE D(i) <= D(j)
        <4>1. ~(D(j) < D(i))
          BY <2>6, <3>1, <3>2
        <4>2. D(i) \in Nat /\ D(j) \in Nat
          BY <2>3
        <4> QED
          BY <4>1, <4>2
      <3> QED
        BY <3>3
    <2>8. PICK near \in filled(s) :
            /\ near = CHOOSE i \in filled(s) : \A j \in filled(s) : D(i) <= D(j)
            /\ \A j \in filled(s) : D(near) <= D(j)
      BY <2>7
    <2>9. PICK f \in Nat : f = s.slots[near]
      <3>1. PICK n \in e .. e + Window - 1 : n = s.slots[near]
        BY <2>1
      <3> QED
        BY <3>1, WindowFacts
    <2>10. near \in 0 .. Window - 1 /\ f \in e .. e + Window - 1 /\ f % Window = near
      BY <2>1, <2>9
    <2>11. skip_gap(s) = [s EXCEPT !.expected = f % SequenceSpace,
                                   !.discontinuity = @ \/ f % SequenceSpace # s.expected]
      BY <1>2, <2>8, <2>9, Zenon DEF skip_gap, sequence, D
    <2>12. f % SequenceSpace # s.expected <=> f # e
      <3>1. s.expected = e % SequenceSpace
        BY DEF Placed
      <3>2. f - e < SequenceSpace /\ e - f < SequenceSpace /\ SequenceSpace \in Nat \ {0}
            /\ e \in Int /\ f \in Int
        BY <2>10, WindowFacts
      <3>3. f % SequenceSpace = e % SequenceSpace => f = e
        BY <3>2, RemaindersApart, Zenon
      <3> QED
        BY <3>1, <3>3, Zenon
    <2>13. /\ skip_gap(s).slots = s.slots /\ skip_gap(s).ready = s.ready
           /\ skip_gap(s).discontinuity = (s.discontinuity \/ f # e)
           /\ skip_gap(s).expected = f % SequenceSpace
      BY <2>11, <2>12 DEF SoundStates
    <2>14. skip_gap(s) \in SoundStates
      <3>1. f % SequenceSpace \in Int
        BY WindowFacts
      <3> QED
        BY <2>11, <2>12, <3>1 DEF SoundStates
    <2>15. ASSUME NEW i \in 0 .. Window - 1, s.slots[i] # Vacant
           PROVE  s.slots[i] \in f .. f + Window - 1 /\ s.slots[i] % Window = i
      <3>1. i \in filled(s)
        BY <2>15 DEF filled, SoundStates
      <3>2. PICK n \in e .. e + Window - 1 : n = s.slots[i] /\ D(i) = n - e /\ n % Window = i
        BY <2>1, <3>1
      <3>3. D(near) = f - e /\ D(near) <= D(i)
        BY <2>1, <2>8, <2>9, <3>1
      <3>4. f <= n
        BY <3>2, <3>3, <2>9, WindowFacts
      <3>5. n \in f .. f + Window - 1
        BY <2>10, <3>2, <3>4, WindowFacts
      <3> QED
        BY <3>2, <3>5
    <2>16. Placed(skip_gap(s), f)
      BY <2>13, <2>15, Zenon DEF Placed
    <2>17. skip_gap(s).expected % Window = near
      <3>1. f \in Int /\ Window \in Nat \ {0} /\ SequenceSpace \in Nat \ {0} /\ SequenceSpace % Window = 0
        BY WindowFacts
      <3>2. (f % SequenceSpace) % Window = f % Window
        BY <3>1, RemainderOfRemainder, Zenon
      <3> QED
        BY <2>10, <2>13, <3>2, Zenon
    <2>18. holds(skip_gap(s), 0)
      <3>1. 0 \in 0 .. Window - 1
        BY WindowFacts
      <3>2. holds(skip_gap(s), 0) <=> skip_gap(s).slots[(f + 0) % Window] = f + 0
        BY <2>14, <2>16, <3>1, HoldsIs, Zenon
      <3>3. f + 0 = f
        OBVIOUS
      <3> QED
        BY <2>9, <2>10, <2>13, <3>2, <3>3
    <2>19. e <= f
      BY <2>10
    <2> WITNESS f \in Nat
    <2> QED
      BY <1>2, <2>8, <2>9, <2>10, <2>13, <2>14, <2>16, <2>17, <2>18, <2>19
  <1> QED
    BY <1>1, <1>2

-----------------------------------------------------------------------------
(* What the callback hears. *)

\* The run of frames that starts at packet e.
RunOf(e, r, d) == [i \in 1 .. r |-> [id |-> e + i - 1, gap |-> i = 1 /\ d]]

\* A run of frames is a sequence of frames.
LEMMA RunOfType ==
    ASSUME NEW e \in Nat, NEW d \in BOOLEAN, NEW r \in Nat
    PROVE  RunOf(e, r, d) \in Seq(Frames) /\ RunOf(e, r, d) \in [1 .. r -> Frames]
  <1>1. \A i \in 1 .. r : [id |-> e + i - 1, gap |-> i = 1 /\ d] \in Frames
    BY DEF Frames
  <1>2. RunOf(e, r, d) \in [1 .. r -> Frames]
    BY <1>1 DEF RunOf
  <1> QED
    BY <1>2, SeqDef

\* Joining runs is associative.
LEMMA FramesJoin ==
    ASSUME NEW h \in Seq(Frames), NEW u \in Seq(Frames), NEW v \in Seq(Frames)
    PROVE  (h \o u) \o v = h \o (u \o v)
  OBVIOUS

\* A run that starts where the last one ended keeps the frames in order.
LEMMA HeardGrows ==
    ASSUME NEW h \in Seq(Frames), Ordered(h), NEW e \in Nat, NEW d \in BOOLEAN,
           EndsBefore(h, e, d), NEW r \in Nat
    PROVE  /\ h \o RunOf(e, r, d) \in Seq(Frames) /\ Ordered(h \o RunOf(e, r, d))
           /\ EndsBefore(h \o RunOf(e, r, d), e + r, d /\ r = 0)
  <1> DEFINE f == RunOf(e, r, d)
             g == h \o f
  <1>1. /\ f \in Seq(Frames) /\ Len(f) = r
        /\ \A i \in 1 .. r : f[i].id = e + i - 1 /\ f[i].gap = (i = 1 /\ d)
    <2>3. f \in Seq(Frames) /\ f \in [1 .. r -> Frames]
      BY RunOfType
    <2>4. Len(f) = r
      BY <2>3, LenProperties
    <2>5. \A i \in 1 .. r : f[i] = [id |-> e + i - 1, gap |-> i = 1 /\ d]
      BY DEF RunOf
    <2> QED
      BY <2>3, <2>4, <2>5
  <1> HIDE DEF f
  <1>2. /\ g \in Seq(Frames) /\ Len(g) = Len(h) + r /\ Len(h) \in Nat
        /\ \A i \in 1 .. Len(h) : g[i] = h[i] /\ h[i] \in Frames
        /\ \A i \in Len(h) + 1 .. Len(h) + r : g[i] = f[i - Len(h)]
    <2>1. /\ g \in Seq(Frames) /\ Len(g) = Len(h) + r /\ Len(h) \in Nat
          /\ \A i \in 1 .. Len(h) + r : g[i] = IF i <= Len(h) THEN h[i] ELSE f[i - Len(h)]
      BY <1>1, ConcatProperties, LenProperties
    <2>2. \A i \in 1 .. Len(h) : h[i] \in Frames
      OBVIOUS
    <2> HIDE DEF g
    <2> QED
      BY <2>1, <2>2
  <1> HIDE DEF g
  <1>3. \A i \in Len(h) + 1 .. Len(h) + r :
            /\ g[i].id = e + i - Len(h) - 1
            /\ g[i].gap = (i = Len(h) + 1 /\ d)
    <2>1. TAKE i \in Len(h) + 1 .. Len(h) + r
    <2>2. PICK j \in 1 .. r : j = i - Len(h)
      <3>1. PICK l \in Nat : l = Len(h)
        BY <1>2
      <3>2. i - l \in 1 .. r
        BY <3>1
      <3> QED
        BY <3>1, <3>2
    <2>3. g[i].id = e + j - 1 /\ g[i].gap = (j = 1 /\ d)
      BY <1>1, <1>2, <2>2
    <2> QED
      BY <1>2, <2>2, <2>3
  <1>4. ASSUME NEW i \in 1 .. Len(g) - 1
        PROVE  /\ g[i].id < g[i + 1].id
               /\ g[i + 1].id # g[i].id + 1 => g[i + 1].gap
    <2>1. CASE i < Len(h)
      <3>1. i \in 1 .. Len(h) - 1 /\ g[i] = h[i] /\ g[i + 1] = h[i + 1]
        BY <1>2, <2>1
      <3> QED
        BY <3>1 DEF Ordered
    <2>2. CASE i = Len(h)
      <3>1. g[i] = h[Len(h)] /\ h[Len(h)] \in Frames /\ h # <<>>
        BY <1>2, <2>2
      <3>2. h[Len(h)].id < e /\ (h[Len(h)].id + 1 = e \/ d)
        BY <3>1 DEF EndsBefore
      <3>3. i + 1 \in Len(h) + 1 .. Len(h) + r
        BY <1>2, <2>2
      <3>4. g[i + 1].id = e /\ g[i + 1].gap = d
        BY <1>2, <1>3, <2>2, <3>3
      <3> QED
        BY <3>1, <3>2, <3>4
    <2>3. CASE i > Len(h)
      <3>1. i \in Len(h) + 1 .. Len(h) + r /\ i + 1 \in Len(h) + 1 .. Len(h) + r
        BY <1>2, <2>3
      <3>2. g[i].id = e + i - Len(h) - 1 /\ g[i + 1].id = e + (i + 1) - Len(h) - 1
        BY <1>3, <3>1
      <3> QED
        BY <1>2, <3>2
    <2> QED
      BY <1>2, <2>1, <2>2, <2>3
  <1>5. EndsBefore(g, e + r, d /\ r = 0)
    <2>1. CASE r = 0
      <3>1. Len(g) = Len(h) /\ (g # <<>> => h # <<>> /\ g[Len(g)] = h[Len(h)]) /\ e + r = e
        BY <1>2, <2>1
      <3> QED
        BY <2>1, <3>1 DEF EndsBefore
    <2>2. CASE r # 0
      <3>1. Len(h) + r \in Len(h) + 1 .. Len(h) + r /\ Len(g) = Len(h) + r
        BY <1>2, <2>2
      <3>2. g[Len(g)].id = e + r - 1
        BY <1>2, <1>3, <3>1
      <3> QED
        BY <3>2 DEF EndsBefore
    <2> QED
      BY <2>1, <2>2
  <1>6. Ordered(g)
    BY <1>4, Zenon DEF Ordered
  <1> QED
    BY <1>2, <1>5, <1>6 DEF g, f

\* Going on further ahead is a gap, to be marked.
LEMMA HeardWaits ==
    ASSUME NEW h \in Seq(Frames), NEW e \in Nat, NEW f \in Nat, e <= f, NEW d, NEW x,
           EndsBefore(h, e, d), d => x, f # e => x
    PROVE  EndsBefore(h, f, x)
  <1>1. SUFFICES ASSUME h # <<>> PROVE h[Len(h)].id < f /\ (h[Len(h)].id + 1 = f \/ x)
    BY DEF EndsBefore
  <1>2. h[Len(h)] \in Frames
    BY <1>1
  <1>3. h[Len(h)].id \in Nat
    BY <1>2 DEF Frames
  <1>4. h[Len(h)].id < e /\ (h[Len(h)].id + 1 = e \/ d)
    BY <1>1 DEF EndsBefore
  <1> QED
    BY <1>3, <1>4

\* Only the last frames are remembered.
LEMMA HeardForgets ==
    ASSUME NEW h \in Seq(Frames), Ordered(h), NEW m \in 1 .. Len(h) + 1, m <= Len(h) \/ h = <<>>
    PROVE  /\ SubSeq(h, m, Len(h)) \in Seq(Frames) /\ Ordered(SubSeq(h, m, Len(h)))
           /\ \A e, d : EndsBefore(h, e, d) => EndsBefore(SubSeq(h, m, Len(h)), e, d)
  <1> DEFINE g == SubSeq(h, m, Len(h))
  <1>1. /\ g \in Seq(Frames) /\ Len(h) \in Nat /\ Len(g) = Len(h) - m + 1
        /\ \A i \in 1 .. Len(h) - m + 1 : g[i] = h[m + i - 1]
    <2>1. Len(h) \in Nat /\ m \in Int /\ m >= 1 /\ m <= Len(h) + 1 /\ Len(h) \in Int
      OBVIOUS
    <2>2. \A i \in m .. Len(h) : h[i] \in Frames
      BY <2>1
    <2>3. /\ g \in Seq(Frames) /\ Len(g) = IF m <= Len(h) THEN Len(h) - m + 1 ELSE 0
          /\ \A i \in 1 .. Len(h) - m + 1 : g[i] = h[m + i - 1]
      BY <2>1, <2>2, SubSeqProperties
    <2> HIDE DEF g
    <2> QED
      BY <2>1, <2>3
  <1> HIDE DEF g
  <1>2. ASSUME NEW i \in 1 .. Len(g) - 1
        PROVE  /\ g[i].id < g[i + 1].id
               /\ g[i + 1].id # g[i].id + 1 => g[i + 1].gap
    <2>1. PICK j \in 1 .. Len(h) - 1 : j = m + i - 1
      BY <1>1
    <2>2. g[i] = h[j] /\ g[i + 1] = h[j + 1]
      <3>1. i \in 1 .. Len(h) - m + 1 /\ i + 1 \in 1 .. Len(h) - m + 1
        BY <1>1
      <3>2. g[i] = h[m + i - 1] /\ g[i + 1] = h[m + (i + 1) - 1]
        BY <1>1, <3>1
      <3>3. m + (i + 1) - 1 = j + 1
        BY <2>1
      <3> QED
        BY <2>1, <3>2, <3>3
    <2> QED
      BY <2>2 DEF Ordered
  <1>3. Ordered(g)
    BY <1>2, Zenon DEF Ordered
  <1>4. g # <<>> => h # <<>> /\ g[Len(g)] = h[Len(h)]
    <2>1. HAVE g # <<>>
    <2>2. Len(g) \in 1 .. Len(h) - m + 1 /\ Len(h) # 0 /\ m + Len(g) - 1 = Len(h)
      BY <1>1, <2>1
    <2>3. g[Len(g)] = h[m + Len(g) - 1]
      BY <1>1, <2>2
    <2> QED
      BY <2>2, <2>3
  <1>5. \A e, d : EndsBefore(h, e, d) => EndsBefore(g, e, d)
    BY <1>4 DEF EndsBefore
  <1> QED
    BY <1>1, <1>3, <1>5 DEF g

-----------------------------------------------------------------------------
(* airplay_mirror_audio_process_packet, stage by stage. *)

\* Nothing is in the window t that is not in s.
NoNewPacket(t, s) == \A i \in 0 .. Window - 1 : t.slots[i] \in {Vacant, s.slots[i]}

\* Emptying slots never fills one.
LEMMA FilledFewer ==
    ASSUME NEW s \in SoundStates, NEW t \in SoundStates, NoNewPacket(t, s)
    PROVE  /\ filled(s) \subseteq 0 .. Window - 1 /\ filled(t) \subseteq filled(s)
           /\ IsFiniteSet(filled(s)) /\ IsFiniteSet(filled(t))
           /\ Cardinality(filled(s)) \in Nat /\ Cardinality(filled(t)) \in Nat
           /\ Cardinality(filled(t)) <= Cardinality(filled(s))
  <1>1. filled(s) \subseteq 0 .. Window - 1 /\ filled(t) \subseteq filled(s)
    BY DEF filled, SoundStates, NoNewPacket
  <1>2. IsFiniteSet(0 .. Window - 1)
    BY WindowFacts, FS_Interval
  <1>3. IsFiniteSet(filled(s))
    BY <1>1, <1>2, FS_Subset
  <1>4. IsFiniteSet(filled(t)) /\ Cardinality(filled(t)) <= Cardinality(filled(s))
    BY <1>1, <1>3, FS_Subset
  <1>5. Cardinality(filled(s)) \in Nat /\ Cardinality(filled(t)) \in Nat
    BY <1>3, <1>4, FS_CardinalityType
  <1> QED
    BY <1>1, <1>3, <1>4, <1>5

\* A packet far ahead becomes the one the window waits for.
LEMMA Restarts ==
    ASSUME NEW s \in SoundStates, NEW e \in Nat, Placed(s, e), NEW n \in Nat,
           e <= n, n - e < SequenceSpace
    PROVE  \E f \in Nat :
             /\ e <= f /\ f <= n /\ n < f + Window
             /\ restarted(s, n) \in SoundStates /\ Placed(restarted(s, n), f)
             /\ NoNewPacket(restarted(s, n), s) /\ restarted(s, n).ready = s.ready
             /\ s.discontinuity \/ f # e => restarted(s, n).discontinuity
  <1>1. distance(n, s.expected) = n - e
    <2>1. n \in Int /\ 2 * (e - n) <= SequenceSpace /\ n >= e /\ s.expected = e % SequenceSpace
      BY WindowFacts DEF Placed
    <2> QED
      BY <2>1, DistanceIs, Zenon
  <1>2. CASE n - e >= Window
    <2>1. restarted(s, n) = [s EXCEPT !.slots = [i \in 0 .. Window - 1 |-> Vacant],
                                      !.expected = n % SequenceSpace, !.discontinuity = TRUE]
      BY <1>1, <1>2 DEF restarted, slots_clear, NoSound, sequence, SoundStates
    <2>2. [i \in 0 .. Window - 1 |-> Vacant] \in [0 .. Window - 1 -> Int] /\ n % SequenceSpace \in Int
      BY WindowFacts DEF Vacant
    <2>3. restarted(s, n) \in SoundStates
      BY <2>1, <2>2 DEF SoundStates
    <2>4. /\ restarted(s, n).expected = n % SequenceSpace /\ restarted(s, n).discontinuity
          /\ restarted(s, n).ready = s.ready
          /\ \A i \in 0 .. Window - 1 : restarted(s, n).slots[i] = Vacant
      BY <2>1 DEF SoundStates
    <2>5. Placed(restarted(s, n), n) /\ NoNewPacket(restarted(s, n), s)
      BY <2>4 DEF Placed, NoNewPacket
    <2>6. n < n + Window /\ n <= n
      BY WindowFacts
    <2> QED
      BY <2>3, <2>4, <2>5, <2>6
  <1>3. CASE ~(n - e >= Window)
    <2>1. restarted(s, n) = s
      BY <1>1, <1>3 DEF restarted
    <2>2. n < e + Window /\ e <= e
      BY <1>3, WindowFacts
    <2>3. NoNewPacket(s, s)
      BY DEF NoNewPacket
    <2> QED
      BY <2>1, <2>2, <2>3
  <1> QED
    BY <1>2, <1>3

\* A place is only ever taken by the very packet that comes again.
LEMMA PlaceTaken ==
    ASSUME NEW s \in SoundStates, NEW e \in Nat, Placed(s, e), NEW n \in Nat, e <= n, n < e + Window
    PROVE  /\ n % Window \in 0 .. Window - 1
           /\ s.slots[n % Window] # Vacant => s.slots[n % Window] = n
  <1>1. PICK p \in 0 .. Window - 1 : p = n % Window
    BY WindowFacts
  <1>2. PICK m \in Int : m = s.slots[p]
    BY DEF SoundStates
  <1>3. ASSUME m # Vacant PROVE m = n
    <2>1. m \in e .. e + Window - 1 /\ m % Window = p
      BY <1>2, <1>3 DEF Placed
    <2>2. m - n < Window /\ n - m < Window /\ Window \in Nat \ {0} /\ n \in Int /\ m % Window = n % Window
      BY <1>1, <2>1, WindowFacts
    <2> QED
      BY <2>2, RemaindersApart, Zenon
  <1> QED
    BY <1>1, <1>2, <1>3

\* The packet goes to its place; what is in order is handed on, a gap may be
\* skipped, and what is in order then is handed on too.
LEMMA PacketTaken ==
    ASSUME NEW s \in SoundStates, NEW e \in Nat, Placed(s, e), NEW n \in Nat, e <= n, n < e + Window,
           NEW limit \in Nat, n < limit, \A i \in filled(s) : s.slots[i] < limit,
           Cardinality(filled(s)) < Threshold,
           NEW s2, s2 = [s EXCEPT !.slots[n % Window] = n],
           NEW s4, s4 = skip_gap(emit_ready(s2)),
           NEW s5, s5 = emit_ready(s4)
    PROVE  \E f \in Nat :
             /\ e <= f /\ f <= limit /\ f <= e + Window
             /\ s5 \in SoundStates /\ Placed(s5, f) /\ s5.ready = s.ready
             /\ \A i \in filled(s5) : s5.slots[i] < limit
             /\ Cardinality(filled(s5)) < Threshold
             /\ \A h \in Seq(Frames) : Ordered(h) /\ EndsBefore(h, e, s.discontinuity) =>
                  /\ h \o (emitted(s2) \o emitted(s4)) \in Seq(Frames)
                  /\ Ordered(h \o (emitted(s2) \o emitted(s4)))
                  /\ EndsBefore(h \o (emitted(s2) \o emitted(s4)), f, s5.discontinuity)
  <1> DEFINE s3 == emit_ready(s2)
  <1>1. PICK p \in 0 .. Window - 1 : p = n % Window
    BY PlaceTaken, Zenon
  <1>2. /\ s2 \in SoundStates /\ s2.expected = s.expected /\ s2.discontinuity = s.discontinuity
        /\ s2.ready = s.ready
        /\ \A i \in 0 .. Window - 1 : s2.slots[i] = IF i = p THEN n ELSE s.slots[i]
    <2>1. s.slots \in [0 .. Window - 1 -> Int] /\ n \in Int
      BY DEF SoundStates
    <2>2. PICK new : new = [s.slots EXCEPT ![p] = n]
      OBVIOUS
    <2>3. /\ new \in [0 .. Window - 1 -> Int]
          /\ \A i \in 0 .. Window - 1 : new[i] = IF i = p THEN n ELSE s.slots[i]
      BY <2>1, <2>2
    <2>4. s2 = [s EXCEPT !.slots = new]
      BY <1>1, <2>2 DEF SoundStates
    <2> QED
      BY <2>3, <2>4 DEF SoundStates
  <1>3. Placed(s2, e)
    <2>1. s2.expected = e % SequenceSpace
      BY <1>2 DEF Placed
    <2>2. ASSUME NEW i \in 0 .. Window - 1, s2.slots[i] # Vacant
          PROVE  s2.slots[i] \in e .. e + Window - 1 /\ s2.slots[i] % Window = i
      <3>1. CASE i = p
        <4>1. n \in e .. e + Window - 1
          BY WindowFacts
        <4> QED
          BY <1>1, <1>2, <3>1, <4>1
      <3>2. CASE i # p
        BY <1>2, <2>2, <3>2 DEF Placed
      <3> QED
        BY <3>1, <3>2
    <2> QED
      BY <2>1, <2>2 DEF Placed
  <1>4. \A i \in 0 .. Window - 1 :
            s2.slots[i] # Vacant => s2.slots[i] < limit /\ s2.slots[i] < e + Window
    <2>1. TAKE i \in 0 .. Window - 1
    <2>2. HAVE s2.slots[i] # Vacant
    <2>3. s2.slots[i] \in e .. e + Window - 1
      BY <1>3, <2>2 DEF Placed
    <2>4. s2.slots[i] < limit
      <3>1. CASE i = p
        BY <1>2, <3>1
      <3>2. CASE i # p
        BY <1>2, <2>2, <3>2 DEF filled, SoundStates
      <3> QED
        BY <3>1, <3>2
    <2> QED
      BY <2>3, <2>4, WindowFacts
  <1>5. PICK r \in 0 .. Window : r = run(s2)
    BY RunIs, Zenon
  <1>6. /\ s3 \in SoundStates /\ Placed(s3, e + r)
        /\ emitted(s2) = RunOf(e, r, s2.discontinuity)
        /\ s3.discontinuity = (s2.discontinuity /\ r = 0) /\ s3.ready = s2.ready
        /\ NoNewPacket(s3, s2)
        /\ r > 0 => \E i \in 0 .. Window - 1 : s2.slots[i] = e + r - 1
    <2>1. /\ emit_ready(s2) \in SoundStates /\ Placed(emit_ready(s2), e + run(s2))
          /\ emitted(s2) = [i \in 1 .. run(s2) |->
                              [id |-> e + i - 1, gap |-> i = 1 /\ s2.discontinuity]]
          /\ emit_ready(s2).discontinuity = (s2.discontinuity /\ run(s2) = 0)
          /\ emit_ready(s2).ready = s2.ready
          /\ \A i \in 0 .. Window - 1 : emit_ready(s2).slots[i] \in {Vacant, s2.slots[i]}
          /\ run(s2) > 0 => \E i \in 0 .. Window - 1 : s2.slots[i] = e + run(s2) - 1
      BY <1>2, <1>3, EmitReady, Zenon
    <2> QED
      BY <1>5, <2>1, Zenon DEF NoNewPacket, RunOf
  <1> HIDE DEF s3
  <1>7. Cardinality(filled(s3)) \in Nat /\ Cardinality(filled(s3)) <= Threshold
        /\ IsFiniteSet(filled(s3)) /\ Threshold \in Nat
    <2>1. filled(s3) \subseteq filled(s) \cup {p}
      BY <1>2, <1>6 DEF filled, SoundStates, NoNewPacket
    <2>2. NoNewPacket(s, s)
      BY DEF NoNewPacket
    <2>3. IsFiniteSet(filled(s)) /\ Cardinality(filled(s)) \in Nat
      BY <2>2, FilledFewer
    <2>4. IsFiniteSet(filled(s) \cup {p})
      BY <2>3, FS_AddElement
    <2>5. Cardinality(filled(s) \cup {p}) <= Cardinality(filled(s)) + 1
          /\ Cardinality(filled(s) \cup {p}) \in Nat
      <3>1. Cardinality(filled(s) \cup {p}) =
              IF p \in filled(s) THEN Cardinality(filled(s)) ELSE Cardinality(filled(s)) + 1
        BY <2>3, FS_AddElement
      <3> QED
        BY <2>3, <3>1
    <2>6. IsFiniteSet(filled(s3)) /\ Cardinality(filled(s3)) <= Cardinality(filled(s) \cup {p})
      BY <2>1, <2>4, FS_Subset
    <2>7. Cardinality(filled(s3)) \in Nat
      BY <2>6, FS_CardinalityType
    <2> QED
      BY <2>3, <2>5, <2>6, <2>7, WindowFacts
  <1>8. PICK e3 \in Nat : e3 = e + r
    OBVIOUS
  <1>9. PICK e4 \in Nat :
             /\ e3 <= e4 /\ s4 \in SoundStates /\ Placed(s4, e4)
             /\ s4.slots = s3.slots /\ s4.ready = s3.ready
             /\ s4.discontinuity = (s3.discontinuity \/ e4 # e3)
             /\ e4 # e3 => \E i \in 0 .. Window - 1 : s3.slots[i] = e4
             /\ Cardinality(filled(s3)) >= Threshold =>
                  /\ holds(s4, 0)
                  /\ s4.expected % Window \in filled(s3)
             /\ Cardinality(filled(s3)) < Threshold => s4 = s3
    <2>1. s3 \in SoundStates /\ Placed(s3, e3) /\ Cardinality(filled(s3)) \in Nat /\ s4 = skip_gap(s3)
      BY <1>6, <1>7, <1>8 DEF s3
    <2>2. \E x \in Nat :
             /\ e3 <= x /\ skip_gap(s3) \in SoundStates /\ Placed(skip_gap(s3), x)
             /\ skip_gap(s3).slots = s3.slots /\ skip_gap(s3).ready = s3.ready
             /\ skip_gap(s3).discontinuity = (s3.discontinuity \/ x # e3)
             /\ x # e3 => \E i \in 0 .. Window - 1 : s3.slots[i] = x
             /\ Cardinality(filled(s3)) >= Threshold =>
                  /\ holds(skip_gap(s3), 0)
                  /\ skip_gap(s3).expected % Window \in filled(s3)
             /\ Cardinality(filled(s3)) < Threshold => skip_gap(s3) = s3
      BY <2>1, SkipGap, Zenon
    <2>3. s4 = skip_gap(s3)
      BY <2>1
    <2> HIDE DEF s3
    <2> QED
      BY <2>2, <2>3, Zenon
  <1>10. PICK t \in 0 .. Window : t = run(s4)
    BY RunIs, Zenon
  <1>11. /\ s5 \in SoundStates /\ Placed(s5, e4 + t)
         /\ emitted(s4) = RunOf(e4, t, s4.discontinuity)
         /\ s5.discontinuity = (s4.discontinuity /\ t = 0) /\ s5.ready = s4.ready
         /\ NoNewPacket(s5, s4)
         /\ t > 0 => \E i \in 0 .. Window - 1 : s4.slots[i] = e4 + t - 1
         /\ holds(s4, 0) => s5.slots[s4.expected % Window] = Vacant
    <2>1. /\ emit_ready(s4) \in SoundStates /\ Placed(emit_ready(s4), e4 + run(s4))
          /\ emitted(s4) = [i \in 1 .. run(s4) |->
                              [id |-> e4 + i - 1, gap |-> i = 1 /\ s4.discontinuity]]
          /\ emit_ready(s4).discontinuity = (s4.discontinuity /\ run(s4) = 0)
          /\ emit_ready(s4).ready = s4.ready
          /\ \A i \in 0 .. Window - 1 : emit_ready(s4).slots[i] \in {Vacant, s4.slots[i]}
          /\ run(s4) > 0 => \E i \in 0 .. Window - 1 : s4.slots[i] = e4 + run(s4) - 1
          /\ holds(s4, 0) => emit_ready(s4).slots[s4.expected % Window] = Vacant
      BY <1>9, EmitReady, Zenon
    <2> QED
      BY <1>10, <2>1, Zenon DEF NoNewPacket, RunOf
  <1>12. PICK f \in Nat : f = e4 + t
    OBVIOUS
  <1>13. \A i \in 0 .. Window - 1 :
             /\ s4.slots[i] # Vacant => s4.slots[i] < limit /\ s4.slots[i] < e + Window
             /\ s5.slots[i] # Vacant => s5.slots[i] < limit
    BY <1>4, <1>6, <1>9, <1>11 DEF NoNewPacket
  <1>14. e3 <= limit /\ e3 <= e + Window
    <2>1. CASE r = 0
      BY <1>8, <2>1, WindowFacts
    <2>2. CASE r > 0
      <3>1. PICK i \in 0 .. Window - 1 : s2.slots[i] = e + r - 1
        BY <1>6, <2>2
      <3>2. e + r - 1 # Vacant
        BY <2>2 DEF Vacant
      <3>3. e + r - 1 < limit /\ e + r - 1 < e + Window
        BY <1>4, <3>1, <3>2
      <3> QED
        BY <1>8, <3>3, WindowFacts
    <2> QED
      BY <2>1, <2>2
  <1>15. e4 <= limit /\ e4 <= e + Window
    <2>1. CASE e4 = e3
      BY <1>14, <2>1
    <2>2. CASE e4 # e3
      <3>1. PICK i \in 0 .. Window - 1 : s4.slots[i] = e4
        BY <1>9, <2>2
      <3>2. e4 # Vacant
        BY DEF Vacant
      <3> QED
        BY <1>13, <3>1, <3>2, WindowFacts
    <2> QED
      BY <2>1, <2>2
  <1>16. f <= limit /\ f <= e + Window /\ e <= f
    <2>1. CASE t = 0
      BY <1>8, <1>9, <1>12, <1>15, <2>1
    <2>2. CASE t > 0
      <3>1. PICK i \in 0 .. Window - 1 : s4.slots[i] = e4 + t - 1
        BY <1>11, <2>2
      <3>2. e4 + t - 1 # Vacant
        BY <2>2 DEF Vacant
      <3>3. e4 + t - 1 < limit /\ e4 + t - 1 < e + Window
        BY <1>13, <3>1, <3>2
      <3> QED
        BY <1>8, <1>9, <1>12, <3>3, WindowFacts
    <2> QED
      BY <2>1, <2>2
  <1>17. Cardinality(filled(s5)) < Threshold
    <2>1. NoNewPacket(s5, s3)
      BY <1>9, <1>11 DEF NoNewPacket
    <2>2. /\ filled(s5) \subseteq filled(s3) /\ Cardinality(filled(s5)) \in Nat
          /\ Cardinality(filled(s5)) <= Cardinality(filled(s3))
      BY <1>6, <1>11, <2>1, FilledFewer
    <2>3. CASE Cardinality(filled(s3)) < Threshold
      BY <1>7, <2>2, <2>3
    <2>4. CASE ~(Cardinality(filled(s3)) < Threshold)
      <3>1. Cardinality(filled(s3)) >= Threshold
        BY <1>7, <2>4
      <3>2. s4.expected % Window \in filled(s3) /\ s5.slots[s4.expected % Window] = Vacant
        BY <1>9, <1>11, <3>1
      <3>3. s4.expected % Window \notin filled(s5)
        BY <3>2 DEF filled
      <3>4. filled(s5) # filled(s3)
        BY <3>2, <3>3
      <3>5. Cardinality(filled(s5)) < Cardinality(filled(s3))
        BY <1>7, <2>2, <3>4, FS_Subset
      <3> QED
        BY <1>7, <2>2, <3>5
    <2> QED
      BY <2>3, <2>4
  <1>18. ASSUME NEW h \in Seq(Frames), Ordered(h), EndsBefore(h, e, s.discontinuity)
         PROVE  /\ h \o (emitted(s2) \o emitted(s4)) \in Seq(Frames)
                /\ Ordered(h \o (emitted(s2) \o emitted(s4)))
                /\ EndsBefore(h \o (emitted(s2) \o emitted(s4)), f, s5.discontinuity)
    <2> DEFINE g == h \o RunOf(e, r, s2.discontinuity)
    <2>1. s2.discontinuity \in BOOLEAN /\ s3.discontinuity \in BOOLEAN /\ s4.discontinuity \in BOOLEAN
      BY <1>2, <1>6, <1>9 DEF SoundStates
    <2>7. r \in Nat /\ t \in Nat
      OBVIOUS
    <2>2. g \in Seq(Frames) /\ Ordered(g) /\ EndsBefore(g, e + r, s2.discontinuity /\ r = 0)
      <3>1. EndsBefore(h, e, s2.discontinuity)
        BY <1>2, <1>18
      <3> QED
        BY <1>18, <2>1, <2>7, <3>1, HeardGrows, Zenon
    <2>3. EndsBefore(g, e3, s3.discontinuity)
      BY <1>6, <1>8, <2>2
    <2> HIDE DEF g
    <2>4. EndsBefore(g, e4, s4.discontinuity)
      <3>1. (s3.discontinuity => s4.discontinuity) /\ (e4 # e3 => s4.discontinuity) /\ e3 <= e4
        BY <1>9
      <3> QED
        BY <2>2, <2>3, <3>1, HeardWaits
    <2>5. /\ g \o RunOf(e4, t, s4.discontinuity) \in Seq(Frames)
          /\ Ordered(g \o RunOf(e4, t, s4.discontinuity))
          /\ EndsBefore(g \o RunOf(e4, t, s4.discontinuity), e4 + t, s4.discontinuity /\ t = 0)
      BY <2>1, <2>2, <2>4, <2>7, HeardGrows
    <2>6. g \o RunOf(e4, t, s4.discontinuity) = h \o (emitted(s2) \o emitted(s4))
      <3>1. RunOf(e, r, s2.discontinuity) \in Seq(Frames) /\ RunOf(e4, t, s4.discontinuity) \in Seq(Frames)
        BY <2>1, <2>7, RunOfType
      <3>2. g \o RunOf(e4, t, s4.discontinuity)
            = h \o (RunOf(e, r, s2.discontinuity) \o RunOf(e4, t, s4.discontinuity))
        BY <3>1, FramesJoin DEF g
      <3> QED
        BY <1>6, <1>11, <3>2
    <2> QED
      BY <1>11, <1>12, <2>5, <2>6
  <1>19. /\ Placed(s5, f) /\ s5.ready = s.ready
         /\ \A i \in filled(s5) : s5.slots[i] < limit
    BY <1>2, <1>6, <1>9, <1>11, <1>12, <1>13 DEF filled, SoundStates
  <1> WITNESS f \in Nat
  <1> QED
    BY <1>11, <1>16, <1>17, <1>18, <1>19

\* A stream that has heard nothing is a state of the stream.
LEMMA NoSoundType ==
    /\ NoSound \in SoundStates /\ NoSound.expected = 0 /\ ~NoSound.ready
    /\ \A i \in 0 .. Window - 1 : NoSound.slots[i] = Vacant
  <1>1. [i \in 0 .. Window - 1 |-> Vacant] \in [0 .. Window - 1 -> Int]
    BY DEF Vacant
  <1> QED
    BY <1>1 DEF NoSound, SoundStates

\* Empty slots do not reach the threshold.
LEMMA NoneFilled ==
    ASSUME NEW s \in SoundStates, \A i \in 0 .. Window - 1 : s.slots[i] = Vacant
    PROVE  filled(s) = {} /\ Cardinality(filled(s)) < Threshold
  <1>1. filled(s) = {}
    BY DEF filled, SoundStates
  <1>2. Cardinality(filled(s)) = 0
    BY <1>1, FS_EmptySet
  <1> QED
    BY <1>1, <1>2, WindowFacts

-----------------------------------------------------------------------------
(* The inductive invariant of a receiver. *)

SocketNames == {"listener", "client", "data", "control"}
ReceiverStates ==
    [kind : Kinds, at : {"none", "up", "destroy", "close", "join", "gone"},
     running : BOOLEAN, recording : BOOLEAN, open : SUBSET SocketNames,
     own : SUBSET SocketNames, thread : {"none", "wait", "done", "accepted", "client"}]
PictureStates ==
    [config : VideoConfigs \cup {"none"}, waiting : BOOLEAN, has_last : BOOLEAN, last : Nat,
     shown : BOOLEAN]
SourceStates ==
    [sounds : 0 .. MaxSound, heard : Nat, connections : Nat, pictures : Nat,
     config : VideoConfigs \cup {"none"}, linked : BOOLEAN, orderly : BOOLEAN]

\* Every open socket has an owner that closes it, but for a client that was
\* accepted and is not yet published; each stage of the destruction has closed
\* what it is for.
SocketsHeld ==
    /\ receiver.open \subseteq Sockets(receiver.kind)
    /\ receiver.thread = "accepted" =>
          receiver.open = receiver.own \cup {"client"} /\ "client" \notin receiver.own
    /\ receiver.thread # "accepted" => receiver.open = receiver.own
    /\ receiver.thread \in {"accepted", "client"} => receiver.kind = "video"
    /\ receiver.thread \in {"none", "wait", "done"} => "client" \notin receiver.open
    /\ receiver.at = "none" => receiver.open = {}
    /\ receiver.at \in {"none", "gone"} => receiver.thread = "none"
    /\ receiver.running => receiver.at = "up"
    /\ receiver.at \in {"close", "join", "gone"} => "data" \notin receiver.open
    /\ receiver.at \in {"join", "gone"} =>
          "listener" \notin receiver.open /\ "control" \notin receiver.open

\* While a client is served, the decoder has the sender's parameter sets, and
\* what an orderly sender gave it is an unbroken run unless a keyframe is
\* waited for.
PicturesLinked ==
    /\ source.orderly => picture.shown
    /\ receiver.thread = "accepted" => source.config = "none"
    /\ receiver.thread = "client" =>
         /\ source.config # "none" => picture.config = source.config
         /\ ~picture.waiting => receiver.recording
         /\ ~picture.waiting /\ source.orderly => source.linked /\ source.config # "none"

\* The window waits for the packet source.heard, and what was heard ends before
\* it.  A window that is not ready was never used, or its receiver is gone.
SoundPlaced ==
    /\ heard \in Seq(Frames) /\ Ordered(heard)
    /\ heard # <<>> => receiver.recording
    /\ Cardinality(filled(sound)) < Threshold
    /\ source.heard <= source.sounds
    /\ sound.ready =>
         /\ receiver.kind = "audio" /\ Placed(sound, source.heard)
         /\ source.sounds <= source.heard + SequenceSpace
         /\ \A i \in filled(sound) : sound.slots[i] < source.sounds
         /\ EndsBefore(heard, source.heard, sound.discontinuity)
    /\ ~sound.ready => /\ \A i \in 0 .. Window - 1 : sound.slots[i] = Vacant
                       /\ sound.expected \in 0 .. SequenceSpace - 1
                       /\ heard = <<>> \/ receiver.at = "gone"

MediaTypes ==
    /\ receiver \in ReceiverStates /\ sound \in SoundStates
    /\ picture \in PictureStates /\ source \in SourceStates

MediaInv == MediaTypes /\ SocketsHeld /\ PicturesLinked /\ SoundPlaced

\* The invariant holds before the first packet.
LEMMA MediaInitial ==
    ASSUME MirrorMediaInit
    PROVE  MediaInv
  <1>1. receiver \in ReceiverStates /\ SocketsHeld
    BY DEF MirrorMediaInit, ReceiverStates, SocketsHeld, SocketNames
  <1>2. picture \in PictureStates /\ source \in SourceStates
    BY WindowFacts DEF MirrorMediaInit, PictureStates, SourceStates, NoPicture
  <1>3. PicturesLinked
    BY DEF MirrorMediaInit, PicturesLinked, NoPicture
  <1>4. sound \in SoundStates /\ sound.expected = 0 /\ ~sound.ready
        /\ \A i \in 0 .. Window - 1 : sound.slots[i] = Vacant
    BY NoSoundType DEF MirrorMediaInit
  <1>5. SoundPlaced
    <2>1. Cardinality(filled(sound)) < Threshold
      BY <1>4, NoneFilled
    <2>2. heard = <<>> /\ source.heard = 0 /\ source.sounds = 0
      BY DEF MirrorMediaInit
    <2>3. heard \in Seq(Frames) /\ Ordered(heard)
      BY <2>2 DEF Ordered
    <2> QED
      BY <1>4, <2>1, <2>2, <2>3, WindowFacts DEF SoundPlaced
  <1> QED
    BY <1>1, <1>2, <1>3, <1>4, <1>5 DEF MediaInv, MediaTypes

\* The sound is not touched.
SoundSame ==
    /\ sound' = sound /\ heard' = heard
    /\ source'.heard = source.heard /\ source'.sounds = source.sounds
    /\ receiver'.kind = receiver.kind
    /\ receiver.recording => receiver'.recording
    /\ receiver.at = "gone" => receiver'.at = "gone"

\* A step that leaves the sound alone keeps its part of the invariant.
LEMMA SoundKept ==
    ASSUME SoundPlaced, SoundSame
    PROVE  SoundPlaced'
  BY DEF SoundPlaced, SoundSame, Placed, EndsBefore, Ordered, filled

\* The sound step: a packet, first or again, in time or late.
LEMMA SoundStep ==
    ASSUME MediaInv, audio_thread
    PROVE  sound' \in SoundStates /\ source' \in SourceStates /\ SoundPlaced'
  <1> DEFINE SS == SequenceSpace
  <1>1. PICK n \in (IF source.sounds > MaxLate THEN source.sounds - MaxLate ELSE 0)
                      .. source.sounds - 1, ok \in BOOLEAN :
          /\ process_packet(n, ok)
          /\ source' = [source EXCEPT !.heard =
                LET from == IF sound.ready THEN @ ELSE n
                IN  CHOOSE m \in from .. from + SequenceSpace - 1 :
                      sequence(m) = sound'.expected]
    BY DEF audio_thread
  <1>2. /\ receiver \in ReceiverStates /\ sound \in SoundStates /\ source \in SourceStates
        /\ receiver' = receiver /\ receiver.kind = "audio" /\ receiver.at # "gone"
        /\ SoundPlaced /\ heard \in Seq(Frames) /\ Ordered(heard)
    BY DEF MediaInv, MediaTypes, audio_thread, SocketsHeld, SoundPlaced
  <1>3. PICK limit \in Nat, h0 \in Nat : limit = source.sounds /\ h0 = source.heard
    BY <1>2 DEF SourceStates
  <1>4. n \in Nat /\ n < limit /\ limit - n <= MaxLate /\ h0 <= limit /\ limit <= MaxSound
    BY <1>1, <1>2, <1>3, WindowFacts DEF SourceStates, SoundPlaced
  <1>5. PICK e0 \in Nat : e0 = IF sound.ready THEN h0 ELSE n
    BY <1>4
  <1> DEFINE s0 == IF sound.ready THEN sound ELSE [sound EXCEPT !.ready = TRUE, !.expected = sequence(n)]
             s1 == restarted(s0, n)
             s2 == [freed(s1, n) EXCEPT !.slots[n % Window] = n]
             s3 == emit_ready(s2)
             s4 == skip_gap(s3)
             frames == emitted(s2) \o emitted(s4)
             all == IF receiver.recording THEN heard \o frames ELSE heard
             old == distance(n, s0.expected) >= SequenceSpace \div 2
             double == s1.slots[n % Window] # Vacant
                          /\ sequence(s1.slots[n % Window]) = sequence(n)
             last == SubSeq(all, IF Len(all) > Threshold + 1 THEN Len(all) - Threshold ELSE 1, Len(all))
  <1>6. \/ (old \/ double) /\ sound' = s0 /\ heard' = heard
        \/ ~old /\ ~double /\ ~ok /\ sound' = freed(s1, n) /\ heard' = heard
        \/ ~old /\ ~double /\ ok /\ sound' = emit_ready(s4) /\ heard' = last
    BY <1>1, Zenon DEF process_packet
  <1>7. /\ s0 \in SoundStates /\ s0.ready /\ Placed(s0, e0) /\ e0 <= limit /\ limit <= e0 + SS
        /\ \A i \in filled(s0) : s0.slots[i] < limit
        /\ Cardinality(filled(s0)) < Threshold /\ NoNewPacket(s0, sound)
        /\ EndsBefore(heard, e0, s0.discontinuity)
    <2>1. CASE sound.ready
      <3>1. s0 = sound /\ e0 = h0
        BY <1>5, <2>1
      <3> HIDE DEF s0
      <3>2. NoNewPacket(sound, sound)
        BY DEF NoNewPacket
      <3> QED
        BY <1>2, <1>3, <2>1, <3>1, <3>2 DEF SoundPlaced
    <2>2. CASE ~sound.ready
      <3>1. s0 = [sound EXCEPT !.ready = TRUE, !.expected = n % SS] /\ e0 = n
        BY <1>5, <2>2 DEF sequence
      <3>2. n % SS \in Int
        BY <1>4, WindowFacts
      <3> HIDE DEF s0, SS
      <3>3. s0 \in SoundStates /\ s0.ready /\ s0.expected = n % SS /\ s0.slots = sound.slots
        BY <1>2, <3>1, <3>2 DEF SoundStates
      <3>4. \A i \in 0 .. Window - 1 : s0.slots[i] = Vacant
        BY <1>2, <2>2, <3>3 DEF SoundPlaced
      <3>5. filled(s0) = {} /\ Cardinality(filled(s0)) < Threshold
        BY <3>3, <3>4, NoneFilled
      <3>6. Placed(s0, e0) /\ NoNewPacket(s0, sound)
        BY <3>1, <3>3, <3>4 DEF Placed, NoNewPacket, SS
      <3>7. heard = <<>>
        BY <1>2, <2>2 DEF SoundPlaced
      <3>8. e0 <= limit /\ limit <= e0 + SequenceSpace
        BY <1>4, <3>1, WindowFacts
      <3>9. EndsBefore(heard, e0, s0.discontinuity)
        BY <3>7 DEF EndsBefore
      <3> QED
        BY <3>3, <3>5, <3>6, <3>8, <3>9 DEF SS
    <2> QED
      BY <2>1, <2>2
  <1> HIDE DEF s0
  \* A window that waits for packet f is a good next state.
  <1>8. ASSUME NEW f \in Nat, e0 <= f, f < e0 + SS, f <= limit,
               sound' \in SoundStates, sound'.ready, Placed(sound', f),
               \A i \in filled(sound') : sound'.slots[i] < limit,
               Cardinality(filled(sound')) < Threshold,
               heard' \in Seq(Frames), Ordered(heard'), heard' # <<>> => receiver.recording,
               EndsBefore(heard', f, sound'.discontinuity)
        PROVE  sound' \in SoundStates /\ source' \in SourceStates /\ SoundPlaced'
    <2>1. source'.heard = f /\ source'.sounds = source.sounds /\ source' \in SourceStates
      <3>1. sound'.expected = f % SS
        BY <1>8 DEF Placed
      <3>2. source' = [source EXCEPT !.heard = CHOOSE m \in e0 .. e0 + SS - 1 : m % SS = f % SS]
        BY <1>1, <1>2, <1>3, <1>5, <3>1 DEF sequence, SourceStates
      <3>3. \A m \in e0 .. e0 + SS - 1 : m % SS = f % SS => m = f
        <4>1. TAKE m \in e0 .. e0 + SS - 1
        <4>2. m \in Int /\ f \in Int /\ SS \in Nat \ {0} /\ m - f < SS /\ f - m < SS
          BY <1>8, WindowFacts
        <4> HIDE DEF SS
        <4> QED
          BY <4>2, RemaindersApart, Zenon
      <3>4. f \in e0 .. e0 + SS - 1
        BY <1>8, WindowFacts
      <3> HIDE DEF SS
      <3>5. (CHOOSE m \in e0 .. e0 + SS - 1 : m % SS = f % SS) = f
        BY <3>3, <3>4, Zenon
      <3>6. source' = [source EXCEPT !.heard = f]
        BY <3>2, <3>5, Zenon
      <3> QED
        BY <1>2, <3>6 DEF SourceStates
    <2>2. f <= source.sounds /\ source.sounds <= f + SequenceSpace
      BY <1>3, <1>7, <1>8, WindowFacts
    <2> QED
      BY <1>2, <1>3, <1>8, <2>1, <2>2 DEF SoundPlaced
  <1>9. CASE (old \/ double) /\ sound' = s0 /\ heard' = heard
    <2>1. e0 < e0 + SS /\ e0 <= e0
      BY WindowFacts
    <2>2. heard # <<>> => receiver.recording
      BY <1>2 DEF SoundPlaced
    <2> QED
      BY <1>2, <1>7, <1>8, <1>9, <2>1, <2>2
  <1>10. ASSUME ~old
         PROVE  e0 <= n /\ 2 * (n - e0) < SS
    <2>1. s0.expected = e0 % SS
      BY <1>7 DEF Placed
    <2>2. /\ n \in Int /\ n - e0 < SequenceSpace /\ 2 * (e0 - n) <= SequenceSpace
      BY <1>4, <1>7, WindowFacts
    <2>3. /\ n >= e0 => distance(n, e0 % SequenceSpace) = n - e0
          /\ n < e0 => distance(n, e0 % SequenceSpace) >= SequenceSpace \div 2
      BY <2>2, DistanceIs, Zenon
    <2>4. ~(n < e0)
      BY <1>10, <2>1, <2>3
    <2>5. ~(n - e0 >= SequenceSpace \div 2)
      BY <1>4, <1>10, <2>1, <2>3, <2>4
    <2> QED
      BY <1>4, <2>4, <2>5, WindowFacts
  <1>11. ASSUME ~old
         PROVE  \E f \in Nat :
                  /\ e0 <= f /\ f <= n /\ n < f + Window
                  /\ s1 \in SoundStates /\ Placed(s1, f)
                  /\ NoNewPacket(s1, s0) /\ s1.ready = s0.ready
                  /\ s0.discontinuity \/ f # e0 => s1.discontinuity
    <2>1. e0 <= n /\ n - e0 < SequenceSpace
      BY <1>4, <1>10, <1>11, WindowFacts
    <2> QED
      BY <1>4, <1>7, <2>1, Restarts, Zenon
  <1> HIDE DEF s1
  <1>12. CASE ~old /\ ~double
    <2>1. PICK f \in Nat :
            /\ e0 <= f /\ f <= n /\ n < f + Window
            /\ s1 \in SoundStates /\ Placed(s1, f)
            /\ NoNewPacket(s1, s0) /\ s1.ready = s0.ready
            /\ s0.discontinuity \/ f # e0 => s1.discontinuity
      BY <1>11, <1>12
    <2>2. s1.slots[n % Window] = Vacant /\ freed(s1, n) = s1
      <3>1. s1.slots[n % Window] # Vacant => s1.slots[n % Window] = n
        BY <1>4, <2>1, PlaceTaken, Zenon
      <3>2. s1.slots[n % Window] = Vacant
        BY <1>12, <3>1, Zenon
      <3> QED
        BY <3>2, Zenon DEF freed
    <2>3. (\A i \in filled(s1) : s1.slots[i] < limit) /\ Cardinality(filled(s1)) < Threshold
      <3>1. /\ filled(s1) \subseteq filled(s0) /\ Cardinality(filled(s0)) \in Nat
            /\ Cardinality(filled(s1)) \in Nat /\ Cardinality(filled(s1)) <= Cardinality(filled(s0))
            /\ filled(s0) \subseteq 0 .. Window - 1
        BY <1>7, <2>1, FilledFewer
      <3>2. Cardinality(filled(s1)) < Threshold
        BY <1>7, <3>1, WindowFacts
      <3>3. \A i \in filled(s1) : s1.slots[i] = s0.slots[i]
        BY <2>1, <3>1 DEF filled, NoNewPacket
      <3> QED
        BY <1>7, <3>1, <3>2, <3>3
    <2>4. EndsBefore(heard, f, s1.discontinuity)
      BY <1>2, <1>7, <2>1, HeardWaits
    <2>5. f < e0 + SS /\ f <= limit /\ f + Window < e0 + SS + 1
      BY <1>4, <1>10, <1>12, <2>1, WindowFacts
    <2>6. CASE ~ok /\ sound' = freed(s1, n) /\ heard' = heard
      <3>1. sound' = s1 /\ heard' = heard /\ (heard # <<>> => receiver.recording)
        BY <1>2, <2>2, <2>6 DEF SoundPlaced
      <3> QED
        BY <1>2, <1>7, <1>8, <2>1, <2>3, <2>4, <2>5, <3>1
    <2>7. CASE ok /\ sound' = emit_ready(s4) /\ heard' = last
      <3>1. s2 = [s1 EXCEPT !.slots[n % Window] = n]
        BY <2>2, Zenon
      <3> HIDE DEF s2
      <3>2. s4 = skip_gap(emit_ready(s2))
        OBVIOUS
      <3> HIDE DEF s3, s4
      <3>3. PICK g \in Nat :
             /\ f <= g /\ g <= limit /\ g <= f + Window
             /\ sound' \in SoundStates /\ Placed(sound', g) /\ sound'.ready = s1.ready
             /\ \A i \in filled(sound') : sound'.slots[i] < limit
             /\ Cardinality(filled(sound')) < Threshold
             /\ \A h \in Seq(Frames) : Ordered(h) /\ EndsBefore(h, f, s1.discontinuity) =>
                  /\ h \o frames \in Seq(Frames)
                  /\ Ordered(h \o frames)
                  /\ EndsBefore(h \o frames, g, sound'.discontinuity)
        BY <1>4, <2>1, <2>3, <2>7, <3>1, <3>2, PacketTaken, ZenonT(60)
      <3> HIDE DEF frames
      <3>4. /\ all \in Seq(Frames) /\ Ordered(all) /\ (all # <<>> => receiver.recording)
            /\ EndsBefore(all, g, sound'.discontinuity)
        <4>1. CASE receiver.recording
          <5>1. all = heard \o frames
            BY <4>1
          <5> QED
            BY <1>2, <2>4, <3>3, <4>1, <5>1
        <4>2. CASE ~receiver.recording
          <5>1. all = heard /\ heard = <<>>
            BY <1>2, <4>2 DEF SoundPlaced
          <5> QED
            BY <1>2, <5>1 DEF EndsBefore
        <4> QED
          BY <4>1, <4>2
      <3> HIDE DEF all
      <3>5. PICK m \in 1 .. Len(all) + 1 :
              /\ m = IF Len(all) > Threshold + 1 THEN Len(all) - Threshold ELSE 1
              /\ m <= Len(all) \/ all = <<>>
        <4>1. Len(all) \in Nat /\ (Len(all) = 0 => all = <<>>)
          BY <3>4
        <4> DEFINE first == IF Len(all) > Threshold + 1 THEN Len(all) - Threshold ELSE 1
        <4>2. /\ first = IF Len(all) > Threshold + 1 THEN Len(all) - Threshold ELSE 1
              /\ Threshold \in Nat
          BY WindowFacts
        <4> HIDE DEF first, last
        <4>3. first \in 1 .. Len(all) + 1
          BY <4>1, <4>2
        <4>4. first <= Len(all) \/ all = <<>>
          BY <4>1, <4>2
        <4> QED
          BY <4>2, <4>3, <4>4
      <3>6. /\ last \in Seq(Frames) /\ Ordered(last)
            /\ EndsBefore(last, g, sound'.discontinuity)
        <4>1. last = SubSeq(all, m, Len(all))
          BY <3>5
        <4> HIDE DEF last
        <4> QED
          BY <3>4, <3>5, <4>1, HeardForgets
      <3>7. last # <<>> => receiver.recording
        <4>1. ASSUME all = <<>> PROVE last = <<>>
          BY <4>1, WindowFacts
        <4> QED
          BY <3>4, <4>1
      <3> HIDE DEF last
      <3>8. e0 <= g /\ g < e0 + SS + 1
        BY <2>1, <2>5, <3>3, WindowFacts
      <3>9. g < e0 + SS
        <4>1. CASE f = e0
          BY <3>3, <4>1, WindowFacts
        <4>2. CASE f # e0
          BY <1>4, <1>10, <1>12, <2>1, <3>3, WindowFacts
        <4> QED
          BY <4>1, <4>2
      <3> QED
        BY <1>7, <1>8, <2>1, <2>7, <3>3, <3>6, <3>7, <3>8, <3>9
    <2> QED
      BY <1>6, <1>12, <2>6, <2>7
  <1> QED
    BY <1>6, <1>9, <1>12

\* The steps of the receiver's life.
LEMMA LifeStep ==
    ASSUME MediaInv,
           \/ session_create \/ audio_create \/ timing_create
           \/ receiver_set_recording \/ receiver_destroy
           \/ destroy_closes \/ destroy_joins \/ thread_ends
    PROVE  MediaInv'
  <1>1. /\ receiver \in ReceiverStates /\ sound \in SoundStates
        /\ picture \in PictureStates /\ source \in SourceStates
        /\ SocketsHeld /\ PicturesLinked /\ SoundPlaced
    BY DEF MediaInv, MediaTypes
  <1>2. source' = source
    BY DEF session_create, audio_create, timing_create, creates, receiver_set_recording,
           receiver_destroy, destroy_closes, destroy_joins, thread_ends
  <1>3. ASSUME receiver' \in ReceiverStates, SocketsHeld', receiver'.kind = receiver.kind,
               receiver.recording => receiver'.recording,
               receiver.at = "gone" => receiver'.at = "gone", UNCHANGED <<sound, heard, picture>>,
               receiver'.thread \in {"accepted", "client"} => receiver'.thread = receiver.thread
        PROVE  MediaInv'
    <2>1. SoundPlaced'
      BY <1>1, <1>2, <1>3, SoundKept DEF SoundSame
    <2>2. PicturesLinked'
      BY <1>1, <1>2, <1>3 DEF PicturesLinked
    <2> QED
      BY <1>1, <1>2, <1>3, <2>1, <2>2 DEF MediaInv, MediaTypes
  <1>4. ASSUME NEW kind \in Kinds, NEW made \in SUBSET SocketNames, creates(kind, made),
               made \subseteq Sockets(kind), "client" \notin made
        PROVE  MediaInv'
    <2>1. receiver' \in ReceiverStates
      BY <1>1, <1>4 DEF creates, ReceiverStates
    <2>2. SocketsHeld'
      <3>1. receiver.thread = "none" /\ receiver.kind = kind /\ ~receiver.running
        BY <1>1, <1>4 DEF creates, SocketsHeld, ReceiverStates
      <3>2. PICK some \in SUBSET made :
              /\ receiver'.open = some /\ receiver'.own = some /\ receiver'.kind = kind
              /\ receiver'.at \in {"up", "destroy"} /\ receiver'.thread \in {"none", "wait"}
              /\ receiver'.running => receiver'.at = "up"
        <4>1. CASE receiver' = [receiver EXCEPT !.at = "up", !.running = TRUE,
                                  !.open = made, !.own = made, !.thread = "wait"]
          BY <1>1, <3>1, <4>1 DEF ReceiverStates
        <4>2. ASSUME NEW some \in SUBSET made,
                     receiver' = [receiver EXCEPT !.at = "destroy", !.open = some, !.own = some]
              PROVE  /\ receiver'.open = some /\ receiver'.own = some /\ receiver'.kind = kind
                     /\ receiver'.at = "destroy" /\ receiver'.thread = "none" /\ ~receiver'.running
          BY <1>1, <3>1, <4>2 DEF ReceiverStates
        <4> QED
          BY <1>4, <4>1, <4>2 DEF creates
      <3> QED
        BY <1>4, <3>2 DEF SocketsHeld
    <2> QED
      BY <1>1, <1>3, <1>4, <2>1, <2>2 DEF creates, ReceiverStates
  <1>5. CASE session_create
    BY <1>4, <1>5 DEF session_create, Kinds, SocketNames, Sockets
  <1>6. CASE audio_create
    BY <1>4, <1>6 DEF audio_create, Kinds, SocketNames, Sockets
  <1>7. CASE timing_create
    BY <1>4, <1>7 DEF timing_create, Kinds, SocketNames, Sockets
  <1>8. CASE receiver_set_recording
    <2>1. receiver' \in ReceiverStates /\ SocketsHeld'
      BY <1>1, <1>8 DEF receiver_set_recording, ReceiverStates, SocketsHeld
    <2> QED
      BY <1>1, <1>3, <1>8, <2>1 DEF receiver_set_recording, ReceiverStates
  <1>9. CASE receiver_destroy
    <2>1. receiver' \in ReceiverStates /\ SocketsHeld'
      BY <1>1, <1>9 DEF receiver_destroy, ReceiverStates, SocketsHeld
    <2> QED
      BY <1>1, <1>3, <1>9, <2>1 DEF receiver_destroy, ReceiverStates
  <1>10. CASE thread_ends
    <2>1. receiver' \in ReceiverStates /\ SocketsHeld'
      BY <1>1, <1>10 DEF thread_ends, ReceiverStates, SocketsHeld
    <2> QED
      BY <1>1, <1>3, <1>10, <2>1 DEF thread_ends, ReceiverStates
  <1>11. CASE destroy_closes
    <2>1. CASE receiver.at = "destroy"
      <3>1. PICK x \in SocketNames : x = IF receiver.kind = "video" THEN "client" ELSE "data"
        BY DEF SocketNames
      <3>2. receiver' = [close_owned(receiver, x) EXCEPT !.at = "close"]
        BY <1>11, <2>1, <3>1 DEF destroy_closes
      <3>3. /\ receiver' \in ReceiverStates /\ receiver'.at = "close"
            /\ receiver'.open = IF x \in receiver.own THEN receiver.open \ {x} ELSE receiver.open
            /\ receiver'.own = receiver.own \ {x}
            /\ receiver'.kind = receiver.kind /\ receiver'.thread = receiver.thread
            /\ receiver'.recording = receiver.recording /\ receiver'.running = receiver.running
        BY <1>1, <3>2 DEF close_owned, ReceiverStates
      <3>4. SocketsHeld'
        BY <1>1, <2>1, <3>1, <3>3 DEF SocketsHeld, Sockets, Kinds, ReceiverStates
      <3> QED
        BY <1>3, <1>11, <2>1, <3>3, <3>4 DEF destroy_closes
    <2>2. CASE receiver.at = "close"
      <3>1. PICK x \in SocketNames : x = IF receiver.kind = "video" THEN "listener" ELSE "control"
        BY DEF SocketNames
      <3>2. receiver' = [close_owned(receiver, x) EXCEPT !.at = "join"]
        BY <1>11, <2>2, <3>1 DEF destroy_closes
      <3>3. /\ receiver' \in ReceiverStates /\ receiver'.at = "join"
            /\ receiver'.open = IF x \in receiver.own THEN receiver.open \ {x} ELSE receiver.open
            /\ receiver'.own = receiver.own \ {x}
            /\ receiver'.kind = receiver.kind /\ receiver'.thread = receiver.thread
            /\ receiver'.recording = receiver.recording /\ receiver'.running = receiver.running
        BY <1>1, <3>2 DEF close_owned, ReceiverStates
      <3>4. SocketsHeld'
        BY <1>1, <2>2, <3>1, <3>3 DEF SocketsHeld, Sockets, Kinds, ReceiverStates
      <3> QED
        BY <1>3, <1>11, <2>2, <3>3, <3>4 DEF destroy_closes
    <2> QED
      BY <1>11, <2>1, <2>2 DEF destroy_closes
  <1>12. CASE destroy_joins
    <2>1. /\ receiver' \in ReceiverStates /\ receiver'.at = "gone" /\ receiver'.thread = "none"
          /\ receiver'.kind = receiver.kind /\ receiver'.recording = receiver.recording
          /\ receiver'.open = receiver.open /\ receiver'.own = receiver.own
          /\ receiver'.running = receiver.running
          /\ receiver.at = "join" /\ receiver.thread \in {"none", "done"}
      BY <1>1, <1>12 DEF destroy_joins, ReceiverStates
    <2>2. SocketsHeld'
      BY <1>1, <2>1 DEF SocketsHeld, ReceiverStates
    <2>3. /\ sound' \in SoundStates /\ ~sound'.ready /\ sound'.expected = 0 /\ heard' = heard
          /\ \A i \in 0 .. Window - 1 : sound'.slots[i] = Vacant
      BY <1>12, NoSoundType DEF destroy_joins
    <2>4. Cardinality(filled(sound')) < Threshold
      BY <2>3, NoneFilled
    <2>5. SoundPlaced'
      <3>1. 0 \in 0 .. SequenceSpace - 1
        BY WindowFacts
      <3> QED
        BY <1>1, <1>2, <2>1, <2>3, <2>4, <3>1 DEF SoundPlaced
    <2>6. picture' \in PictureStates /\ PicturesLinked'
      BY <1>1, <1>12, <2>1 DEF destroy_joins, PictureStates, NoPicture, PicturesLinked
    <2> QED
      BY <1>1, <1>2, <2>1, <2>2, <2>3, <2>5, <2>6 DEF MediaInv, MediaTypes
  <1> QED
    BY <1>5, <1>6, <1>7, <1>8, <1>9, <1>10, <1>11, <1>12

\* The steps of a client and of the pictures it sends.
LEMMA PictureStep ==
    ASSUME MediaInv,
           \/ mirror_accepts \/ process_client \/ client_left
           \/ process_config \/ process_access_unit \/ access_unit_refused
    PROVE  MediaInv'
  <1>1. /\ receiver \in ReceiverStates /\ sound \in SoundStates
        /\ picture \in PictureStates /\ source \in SourceStates
        /\ SocketsHeld /\ PicturesLinked /\ SoundPlaced
    BY DEF MediaInv, MediaTypes
  <1>2. UNCHANGED <<sound, heard>>
    BY DEF mirror_accepts, process_client, client_left, process_config, config_refused,
           process_access_unit, access_unit_refused, pictures
  <1>3. ASSUME receiver' \in ReceiverStates, SocketsHeld', receiver'.kind = receiver.kind,
               receiver'.recording = receiver.recording, receiver'.at = receiver.at,
               source' \in SourceStates, source'.heard = source.heard,
               source'.sounds = source.sounds, picture' \in PictureStates, PicturesLinked'
        PROVE  MediaInv'
    <2>1. SoundPlaced'
      BY <1>1, <1>2, <1>3, SoundKept DEF SoundSame
    <2> QED
      BY <1>1, <1>2, <1>3, <2>1 DEF MediaInv, MediaTypes
  \* The end of a connection.
  <1>4. receiver.thread = "client" =>
          /\ client_ends \in ReceiverStates /\ client_ends.kind = receiver.kind
          /\ client_ends.recording = receiver.recording /\ client_ends.at = receiver.at
          /\ client_ends.thread = "wait" /\ client_ends.running = receiver.running
          /\ client_ends.open = receiver.open \ {"client"} /\ client_ends.own = client_ends.open
    BY <1>1 DEF client_ends, close_owned, ReceiverStates, SocketsHeld
  <1>5. ASSUME receiver' = client_ends, receiver.thread = "client"
        PROVE  receiver' \in ReceiverStates /\ SocketsHeld' /\ receiver'.thread = "wait"
    BY <1>1, <1>4, <1>5 DEF SocketsHeld, ReceiverStates
  <1>6. ASSUME NEW next \in SourceStates, receives(next)
        PROVE  /\ receiver.thread = "client" /\ source' \in SourceStates
               /\ source'.heard = next.heard /\ source'.sounds = next.sounds
               /\ source'.config = next.config /\ source'.linked = next.linked
               /\ source'.orderly = next.orderly
    BY <1>6 DEF receives, SourceStates
  <1>7. CASE mirror_accepts
    <2>1. /\ receiver' \in ReceiverStates /\ receiver'.kind = receiver.kind
          /\ receiver'.thread = "accepted" /\ receiver'.open = receiver.open \cup {"client"}
          /\ receiver'.own = receiver.own /\ receiver'.at = receiver.at
          /\ receiver'.recording = receiver.recording /\ receiver'.running = receiver.running
          /\ receiver.kind = "video" /\ receiver.thread = "wait" /\ receiver.running
      BY <1>1, <1>7 DEF mirror_accepts, pictures, ReceiverStates, SocketNames
    <2>2. SocketsHeld'
      BY <1>1, <2>1 DEF SocketsHeld, Sockets
    <2>3. /\ source' \in SourceStates /\ source'.heard = source.heard
          /\ source'.sounds = source.sounds /\ source'.config = "none"
      <3>1. source' = [source EXCEPT !.connections = source.connections + 1, !.config = "none",
                                     !.linked = FALSE, !.orderly = TRUE]
        BY <1>7 DEF mirror_accepts
      <3>2. source.connections + 1 \in Nat
        BY <1>1 DEF SourceStates
      <3> QED
        BY <1>1, <3>1, <3>2 DEF SourceStates
    <2>4. picture' \in PictureStates /\ picture'.shown
      BY <1>1, <1>7 DEF mirror_accepts, PictureStates
    <2>5. PicturesLinked'
      BY <1>1, <2>1, <2>3, <2>4 DEF PicturesLinked
    <2> QED
      BY <1>1, <1>3, <2>1, <2>2, <2>3, <2>4, <2>5
  <1>8. CASE process_client
    <2>1. /\ receiver' \in ReceiverStates /\ receiver'.kind = receiver.kind
          /\ receiver'.thread = "client" /\ receiver'.open = receiver.open
          /\ receiver'.own = receiver.own \cup {"client"} /\ receiver'.at = receiver.at
          /\ receiver'.recording = receiver.recording /\ receiver'.running = receiver.running
          /\ receiver.thread = "accepted"
      BY <1>1, <1>8 DEF process_client, pictures, ReceiverStates, SocketNames
    <2>2. SocketsHeld'
      BY <1>1, <2>1 DEF SocketsHeld
    <2>3. /\ picture' \in PictureStates /\ picture'.waiting /\ picture'.shown = picture.shown
          /\ picture'.config = picture.config
      BY <1>1, <1>8 DEF process_client, video_reset, PictureStates
    <2>4. source' = source
      BY <1>8 DEF process_client
    <2>5. source.config = "none"
      BY <1>1, <2>1 DEF PicturesLinked
    <2>6. PicturesLinked'
      BY <1>1, <2>3, <2>4, <2>5 DEF PicturesLinked
    <2> QED
      BY <1>1, <1>3, <2>1, <2>2, <2>3, <2>4, <2>6
  <1>9. CASE client_left
    <2>1. receiver.thread = "client" /\ receiver' = client_ends /\ UNCHANGED <<picture, source>>
      BY <1>9 DEF client_left, pictures
    <2>2. receiver' \in ReceiverStates /\ SocketsHeld' /\ receiver'.thread = "wait"
      BY <1>5, <2>1
    <2>3. PicturesLinked'
      BY <1>1, <2>1, <2>2 DEF PicturesLinked
    <2> QED
      BY <1>1, <1>3, <1>4, <2>1, <2>2, <2>3
  <1>10. ASSUME NEW next \in SourceStates, receives(next), next.heard = source.heard,
                next.sounds = source.sounds, next.orderly = source.orderly,
                receiver' = client_ends, picture' = picture
         PROVE  MediaInv'
    <2>1. /\ receiver.thread = "client" /\ source' \in SourceStates
          /\ source'.heard = source.heard /\ source'.sounds = source.sounds
          /\ source'.orderly = source.orderly
      BY <1>6, <1>10
    <2>2. receiver' \in ReceiverStates /\ SocketsHeld' /\ receiver'.thread = "wait"
      BY <1>5, <1>10, <2>1
    <2>3. PicturesLinked'
      BY <1>1, <1>10, <2>1, <2>2 DEF PicturesLinked
    <2> QED
      BY <1>1, <1>3, <1>4, <1>10, <2>1, <2>2, <2>3
  <1>11. CASE config_refused
    BY <1>1, <1>10, <1>11 DEF config_refused, pictures
  <1>12. CASE access_unit_refused
    <2> DEFINE next == [source EXCEPT !.linked = FALSE]
    <2>1. /\ next \in SourceStates /\ next.heard = source.heard /\ next.sounds = source.sounds
          /\ next.orderly = source.orderly
      BY <1>1 DEF SourceStates
    <2>2. receives(next) /\ receiver' = client_ends /\ picture' = picture
      BY <1>12 DEF access_unit_refused, pictures
    <2> HIDE DEF next
    <2> QED
      BY <1>10, <2>1, <2>2
  <1>13. ASSUME NEW c \in VideoConfigs,
                receives([source EXCEPT !.config = c, !.linked = @ /\ c = source.config]),
                picture' = [picture EXCEPT !.config = c, !.waiting = @ \/ c # picture.config],
                receiver' = receiver
         PROVE  MediaInv'
    <2> DEFINE next == [source EXCEPT !.config = c, !.linked = @ /\ c = source.config]
    <2>1. /\ next \in SourceStates
          /\ next.heard = source.heard /\ next.sounds = source.sounds
          /\ next.config = c /\ next.linked = (source.linked /\ c = source.config)
          /\ next.orderly = source.orderly
      BY <1>1 DEF SourceStates
    <2>6. receives(next)
      BY <1>13
    <2> HIDE DEF next
    <2>2. /\ receiver.thread = "client" /\ source' \in SourceStates
          /\ source'.heard = source.heard /\ source'.sounds = source.sounds
          /\ source'.config = c /\ source'.linked = (source.linked /\ c = source.config)
          /\ source'.orderly = source.orderly
      BY <1>6, <2>1, <2>6
    <2>3. /\ picture' \in PictureStates /\ picture'.config = c /\ picture'.shown = picture.shown
          /\ picture'.waiting = (picture.waiting \/ c # picture.config)
      BY <1>1, <1>13 DEF PictureStates
    <2>4. PicturesLinked'
      BY <1>1, <1>13, <2>2, <2>3 DEF PicturesLinked
    <2>5. SocketsHeld'
      BY <1>1, <1>13 DEF SocketsHeld
    <2> QED
      BY <1>1, <1>3, <1>13, <2>2, <2>3, <2>4, <2>5
  <1>14. CASE process_config
    BY <1>11, <1>13, <1>14 DEF process_config, pictures
  <1>15. CASE process_access_unit
    <2>1. PICK key \in BOOLEAN, timestamp \in Nat, late \in BOOLEAN, give \in BOOLEAN :
            /\ late = (picture.has_last /\ timestamp < picture.last)
            /\ give = (receiver.recording
                        /\ ~(picture.config = "none" \/ late \/ (picture.waiting /\ ~key)))
            /\ receives([source EXCEPT
                  !.linked = give /\ (key \/ @),
                  !.orderly = source.config # "none" /\ ~late /\ (@ \/ (give /\ key))])
            /\ picture' = IF ~give THEN picture
                          ELSE [picture EXCEPT
                                  !.waiting = FALSE, !.has_last = TRUE, !.last = timestamp,
                                  !.shown = IF key THEN picture.config = source.config
                                            ELSE source.linked]
      <3>1. \A x : (receiver.recording /\ ~x) \in BOOLEAN
        OBVIOUS
      <3>2. \A t : (picture.has_last /\ t < picture.last) \in BOOLEAN
        OBVIOUS
      <3> QED
        BY <1>15, <3>1, <3>2 DEF process_access_unit
    <2>2. receiver' = receiver
      BY <1>15 DEF process_access_unit, pictures
    <2> DEFINE orderly == source.config # "none" /\ ~late /\ (source.orderly \/ (give /\ key))
               next == [source EXCEPT !.linked = give /\ (key \/ @), !.orderly = orderly]
    <2>3. /\ next \in SourceStates
          /\ next.heard = source.heard /\ next.sounds = source.sounds
          /\ next.config = source.config /\ next.linked = (give /\ (key \/ source.linked))
          /\ next.orderly = orderly
      BY <1>1 DEF SourceStates
    <2>11. receives(next)
      BY <2>1
    <2> HIDE DEF next
    <2>4. /\ receiver.thread = "client" /\ source' \in SourceStates
          /\ source'.heard = source.heard /\ source'.sounds = source.sounds
          /\ source'.config = source.config /\ source'.linked = (give /\ (key \/ source.linked))
          /\ source'.orderly = orderly
      BY <1>6, <2>3, <2>11
    <2>5. /\ source.config # "none" => picture.config = source.config
          /\ ~picture.waiting => receiver.recording
          /\ ~picture.waiting /\ source.orderly => source.linked /\ source.config # "none"
          /\ source.orderly => picture.shown
      BY <1>1, <2>4 DEF PicturesLinked
    <2>6. give => (picture.waiting => key)
      BY <2>1
    <2>7. source.config # "none" /\ ~late /\ ~picture.waiting => give
      BY <2>1, <2>5
    <2>8. /\ picture' \in PictureStates /\ picture'.config = picture.config
          /\ picture'.waiting = (picture.waiting /\ ~give)
          /\ picture'.shown = IF give THEN (IF key THEN picture.config = source.config ELSE source.linked)
                              ELSE picture.shown
      <3>1. CASE give
        <4>1. (IF key THEN picture.config = source.config ELSE source.linked) \in BOOLEAN
          BY <1>1 DEF SourceStates
        <4> QED
          BY <1>1, <2>1, <3>1, <4>1 DEF PictureStates
      <3>2. CASE ~give
        BY <1>1, <2>1, <3>2 DEF PictureStates
      <3> QED
        BY <3>1, <3>2
    <2>9. PicturesLinked'
      <3>1. orderly => picture'.shown
        BY <2>5, <2>6, <2>8
      <3>2. ~picture'.waiting => receiver.recording
        BY <2>1, <2>5, <2>8
      <3>3. ~picture'.waiting /\ orderly => give /\ (key \/ source.linked) /\ source.config # "none"
        BY <2>5, <2>6, <2>7, <2>8
      <3> QED
        BY <2>2, <2>4, <2>5, <2>8, <3>1, <3>2, <3>3 DEF PicturesLinked
    <2>10. SocketsHeld'
      BY <1>1, <2>2 DEF SocketsHeld
    <2> QED
      BY <1>1, <1>3, <2>2, <2>4, <2>8, <2>9, <2>10
  <1> QED
    BY <1>7, <1>8, <1>9, <1>12, <1>14, <1>15

\* Every step keeps the invariant.
LEMMA MediaStep ==
    ASSUME MediaInv, [MirrorMediaNext]_MirrorMediaVars
    PROVE  MediaInv'
  <1>1. /\ receiver \in ReceiverStates /\ sound \in SoundStates
        /\ picture \in PictureStates /\ source \in SourceStates
        /\ SocketsHeld /\ PicturesLinked /\ SoundPlaced
    BY DEF MediaInv, MediaTypes
  <1>2. CASE audio_thread
    <2>1. sound' \in SoundStates /\ source' \in SourceStates /\ SoundPlaced'
      BY <1>2, SoundStep
    <2>2. /\ UNCHANGED <<receiver, picture>> /\ source'.config = source.config
          /\ source'.linked = source.linked /\ source'.orderly = source.orderly
      BY <1>1, <1>2 DEF audio_thread, SourceStates
    <2>3. SocketsHeld' /\ PicturesLinked'
      BY <1>1, <2>2 DEF SocketsHeld, PicturesLinked
    <2> QED
      BY <1>1, <2>1, <2>2, <2>3 DEF MediaInv, MediaTypes
  <1>3. ASSUME UNCHANGED <<receiver, sound, heard, picture>>, source' \in SourceStates,
               source'.config = source.config, source'.linked = source.linked,
               source'.orderly = source.orderly, SoundPlaced'
        PROVE  MediaInv'
    BY <1>1, <1>3 DEF MediaInv, MediaTypes, SocketsHeld, PicturesLinked
  <1>4. CASE timing_request
    <2>1. /\ UNCHANGED <<receiver, sound, heard, picture>> /\ receiver.kind = "timing"
          /\ source' \in SourceStates /\ source'.config = source.config
          /\ source'.linked = source.linked /\ source'.heard <= source'.sounds
          /\ source'.orderly = source.orderly
      <3>1. /\ UNCHANGED <<receiver, sound, heard, picture>> /\ receiver.kind = "timing"
            /\ source.sounds < MaxSound
            /\ \/ source' = [source EXCEPT !.sounds = source.sounds + 1, !.heard = source.heard + 1]
               \/ source' = [source EXCEPT !.sounds = source.sounds + 1]
        BY <1>4 DEF timing_request
      <3>4. source.sounds \in 0 .. MaxSound /\ source.heard \in Nat
        BY <1>1 DEF SourceStates
      <3>5. source.heard <= source.sounds
        BY <1>1 DEF SoundPlaced
      <3>2. /\ source.sounds + 1 \in 0 .. MaxSound /\ source.heard + 1 \in Nat /\ source.heard \in Nat
            /\ source.heard <= source.sounds /\ source.sounds \in Nat
        BY <3>1, <3>4, <3>5, WindowFacts
      <3>3. PICK n \in 0 .. MaxSound, k \in Nat :
              source' = [source EXCEPT !.sounds = n, !.heard = k] /\ k <= n
        <4>1. [source EXCEPT !.sounds = source.sounds + 1]
              = [source EXCEPT !.sounds = source.sounds + 1, !.heard = source.heard]
          BY <1>1 DEF SourceStates
        <4>2. source.heard <= source.sounds + 1 /\ source.heard + 1 <= source.sounds + 1
          BY <3>2
        <4> QED
          BY <3>1, <3>2, <4>1, <4>2, Zenon
      <3> QED
        BY <1>1, <3>1, <3>3 DEF SourceStates
    <2>2. SoundPlaced'
      BY <1>1, <2>1 DEF SoundPlaced, filled, Ordered
    <2> QED
      BY <1>3, <2>1, <2>2
  <1>5. CASE sound_sent
    <2>1. /\ UNCHANGED <<receiver, sound, heard, picture>>
          /\ source' \in SourceStates /\ source'.config = source.config
          /\ source'.linked = source.linked /\ source'.heard = source.heard
          /\ source'.orderly = source.orderly
          /\ source'.sounds = source.sounds + 1 /\ source.sounds - source.heard < SequenceSpace
      BY <1>1, <1>5, WindowFacts DEF sound_sent, SourceStates
    <2>2. source.sounds \in Nat /\ source.heard \in Nat
      BY <1>1 DEF SourceStates
    <2>3. /\ source'.heard <= source'.sounds
          /\ source'.sounds <= source'.heard + SequenceSpace
      BY <1>1, <2>1, <2>2, WindowFacts DEF SoundPlaced
    <2>4. sound.ready => \A i \in filled(sound) : sound.slots[i] < source.sounds + 1
      <3>1. \A i \in filled(sound) : sound.slots[i] \in Int
        BY <1>1 DEF filled, SoundStates
      <3> QED
        BY <1>1, <2>2, <3>1 DEF SoundPlaced
    <2>5. SoundPlaced'
      BY <1>1, <2>1, <2>3, <2>4 DEF SoundPlaced
    <2> QED
      BY <1>3, <2>1, <2>5
  <1>6. CASE UNCHANGED MirrorMediaVars
    <2>1. UNCHANGED <<receiver, sound, heard, picture, source>>
      BY <1>6 DEF MirrorMediaVars
    <2>2. SoundPlaced'
      BY <1>1, <2>1, SoundKept DEF SoundSame
    <2> QED
      BY <1>1, <1>3, <2>1, <2>2
  <1> QED
    BY <1>2, <1>4, <1>5, <1>6, LifeStep, PictureStep DEF MirrorMediaNext

\* The invariant gives what the runs check.
LEMMA MediaInvImplies ==
    ASSUME MediaInv
    PROVE  StreamsWhole /\ MirrorMediaTypeOK
  <1>1. /\ receiver \in ReceiverStates /\ sound \in SoundStates
        /\ picture \in PictureStates /\ source \in SourceStates
        /\ SocketsHeld /\ PicturesLinked /\ SoundPlaced
    BY DEF MediaInv, MediaTypes
  <1>2. receiver.at = "gone" => receiver.open = {}
    BY <1>1 DEF ReceiverStates, SocketsHeld, Sockets, Kinds
  <1>3. StreamsWhole
    BY <1>1, <1>2 DEF StreamsWhole, SoundPlaced, Ordered, PicturesLinked
  <1>4. receiver.kind \in Kinds /\ receiver.own \subseteq receiver.open
        /\ receiver.open \subseteq Sockets(receiver.kind)
    BY <1>1 DEF ReceiverStates, SocketsHeld
  <1>5. sound.expected \in 0 .. SequenceSpace - 1
    <2>1. CASE sound.ready
      <3>1. PICK e \in Nat : e = source.heard
        BY <1>1 DEF SourceStates
      <3>2. sound.expected = e % SequenceSpace
        BY <1>1, <2>1, <3>1 DEF SoundPlaced, Placed
      <3>3. e \in Int /\ SequenceSpace \in Nat \ {0}
        BY WindowFacts
      <3>4. e % SequenceSpace \in 0 .. SequenceSpace - 1
        BY <3>3, DivMod, Zenon
      <3> QED
        BY <3>2, <3>4
    <2> QED
      BY <1>1, <2>1 DEF SoundPlaced
  <1>6. \A i \in DOMAIN sound.slots : sound.slots[i] \in {Vacant} \cup (0 .. MaxSound)
    <2>1. TAKE i \in DOMAIN sound.slots
    <2>2. i \in 0 .. Window - 1
      BY <1>1 DEF SoundStates
    <2>3. CASE sound.slots[i] # Vacant
      <3>1. sound.ready /\ i \in filled(sound)
        BY <1>1, <2>2, <2>3 DEF SoundPlaced, filled, SoundStates
      <3>2. PICK n \in Int : n = sound.slots[i]
        BY <1>1, <2>2 DEF SoundStates
      <3>3. n < source.sounds /\ n \in source.heard .. source.heard + Window - 1
        BY <1>1, <2>2, <2>3, <3>1, <3>2 DEF SoundPlaced, Placed
      <3>4. source.sounds \in 0 .. MaxSound /\ source.heard \in Nat
        BY <1>1 DEF SourceStates
      <3>5. n \in 0 .. MaxSound
        BY <3>3, <3>4, WindowFacts
      <3> QED
        BY <3>2, <3>5
    <2> QED
      BY <2>3
  <1>7. picture.config \in VideoConfigs \cup {"none"}
    BY <1>1 DEF PictureStates
  <1> QED
    BY <1>3, <1>4, <1>5, <1>6, <1>7 DEF MirrorMediaTypeOK

\* The receivers' fields have the values they may take.
THEOREM MediaTypeCorrect == MirrorMediaSpec => []MirrorMediaTypeOK
  <1>1. MirrorMediaInit => MediaInv
    BY MediaInitial
  <1>2. MediaInv /\ [MirrorMediaNext]_MirrorMediaVars => MediaInv'
    BY MediaStep
  <1>3. MediaInv => MirrorMediaTypeOK
    BY MediaInvImplies
  <1> QED
    BY <1>1, <1>2, <1>3, PTL DEF MirrorMediaSpec

\* Whatever the network loses, doubles or delays, and whenever the receiver is
\* destroyed, what is handed on is whole; of the pictures, those an orderly
\* sender gave.
THEOREM StreamsCorrect == MirrorMediaSpec => []StreamsWhole
  <1>1. MirrorMediaInit => MediaInv
    BY MediaInitial
  <1>2. MediaInv /\ [MirrorMediaNext]_MirrorMediaVars => MediaInv'
    BY MediaStep
  <1>3. MediaInv => StreamsWhole
    BY MediaInvImplies
  <1> QED
    BY <1>1, <1>2, <1>3, PTL DEF MirrorMediaSpec

-----------------------------------------------------------------------------
(* The clocks. *)

NtpValues == NtpTimes \cup {0}
RateValues == SampleRates \cup {0}
RtpValues == 0 .. RtpModulus - 1
Results == {"OK", "DISCONTINUITY"}
ClockStates ==
    [audio_only : BOOLEAN, video_ready : BOOLEAN, anchor_ntp : NtpValues, anchor_pts : Int,
     last_ntp : NtpValues, last_pts : Int, sample_rate : RateValues,
     sync_ready : BOOLEAN, sync_rtp : RtpValues, sync_ntp : NtpValues,
     adjust : Int, audio_ready : BOOLEAN, last_audio_pts : Int, result : Results]

\* The values a clock's fields take.
LEMMA ClockValues ==
    /\ NtpTimes \subseteq NtpValues /\ NtpValues \subseteq Int /\ 0 \in NtpValues
    /\ RateValues \subseteq Int /\ SampleRates \subseteq RateValues /\ 0 \in RateValues
    /\ \A r \in RateValues : r # 0 => r \in Nat \ {0}
    /\ RtpValues \subseteq Int /\ 0 \in RtpValues /\ "OK" \in Results /\ "DISCONTINUITY" \in Results
  BY ClockAssumption DEF NtpValues, RateValues, RtpValues, Results

\* A clock with pictures has times to anchor them to, and what a sync packet
\* left uncorrected is bounded.
ClockInv ==
    /\ video_clock \in ClockStates /\ audio_clock \in ClockStates
    /\ timeline = NoTimeline \/ timeline \in Timelines
    /\ video_clock.video_ready => video_clock.anchor_ntp \in NtpTimes /\ video_clock.last_ntp \in NtpTimes
    /\ absolute(audio_clock.adjust) <= SyncJump - MaxCorrection

\* What the clock's constants are assumed to be.
LEMMA ClockConstants ==
    /\ NtpTimes \subseteq Nat \ {0} /\ SampleRates \subseteq Nat \ {0} /\ RtpModulus \in Nat \ {0}
    /\ NtpPerTick \in Nat \ {0} /\ TimeBase \in Nat \ {0} /\ Deadband \in Nat /\ MaxCorrection \in Nat
    /\ SyncJump \in Nat /\ Deadband + MaxCorrection <= SyncJump
  BY ClockAssumption

\* C's truncating division of integers.
LEMMA TruncDivType ==
    ASSUME NEW a \in Int, NEW b \in Nat \ {0}
    PROVE  trunc_div(a, b) \in Int /\ trunc_div(0, b) = 0
  BY DEF trunc_div

\* The distance between two RTP times.
LEMMA RtpDeltaType ==
    ASSUME NEW x \in RtpValues, NEW y \in RtpValues
    PROVE  rtp_delta(x, y) \in Int /\ rtp_delta(x, x) = 0
  <1>1. PICK m \in Nat \ {0} : m = RtpModulus
    BY ClockConstants
  <1>2. \A d \in Int : d % m \in Int
    OBVIOUS
  <1>0. x \in Int /\ y \in Int
    BY ClockValues
  <1>3. PICK d \in Int : d = x - y
    BY <1>0
  <1>4. rtp_delta(x, y) \in Int
    BY <1>1, <1>2, <1>3 DEF rtp_delta
  <1>5. x - x = 0 /\ 0 % m = 0
    BY <1>0, <1>1
  <1> QED
    BY <1>1, <1>4, <1>5 DEF rtp_delta

\* The mappings give integers, and a sync point maps to its own time.
LEMMA MapTypes ==
    ASSUME NEW c \in ClockStates, NEW ntp \in NtpValues, NEW rtp \in RtpValues
    PROVE  /\ map_video_ntp(c, ntp) \in Int /\ ntp_delta(ntp, c.last_ntp) \in Int
           /\ c.sample_rate # 0 => map_rtp(c, rtp) \in Int
           /\ c.sample_rate # 0 => map_rtp(c, c.sync_rtp) = map_video_ntp(c, c.sync_ntp) + c.adjust
  <1>1. /\ ntp \in Int /\ c.anchor_ntp \in Int /\ c.last_ntp \in Int /\ c.sync_ntp \in Int
        /\ c.anchor_pts \in Int /\ c.adjust \in Int /\ c.sync_rtp \in RtpValues
        /\ c.sample_rate # 0 => c.sample_rate \in Nat \ {0}
    BY ClockValues DEF ClockStates
  <1>2. \A x, y \in Int : trunc_div(x - y, NtpPerTick) \in Int
    BY ClockConstants, TruncDivType
  <1>3. /\ ntp_delta(ntp, c.last_ntp) \in Int /\ ntp_delta(ntp, c.anchor_ntp) \in Int
        /\ ntp_delta(c.sync_ntp, c.anchor_ntp) \in Int
    BY <1>1, <1>2 DEF ntp_delta
  <1>4. map_video_ntp(c, ntp) \in Int /\ map_video_ntp(c, c.sync_ntp) \in Int
    BY <1>1, <1>3 DEF map_video_ntp
  <1>5. ASSUME c.sample_rate # 0, NEW x \in RtpValues
        PROVE  /\ trunc_div(rtp_delta(x, c.sync_rtp) * TimeBase, c.sample_rate) \in Int
               /\ trunc_div(rtp_delta(c.sync_rtp, c.sync_rtp) * TimeBase, c.sample_rate) = 0
    <2>1. rtp_delta(x, c.sync_rtp) \in Int /\ rtp_delta(c.sync_rtp, c.sync_rtp) = 0
      BY <1>1, RtpDeltaType
    <2>2. rtp_delta(x, c.sync_rtp) * TimeBase \in Int /\ 0 * TimeBase = 0
      BY <2>1, ClockConstants
    <2> QED
      BY <1>1, <1>5, <2>1, <2>2, TruncDivType
  <1>6. c.sample_rate # 0 => map_rtp(c, rtp) \in Int
    BY <1>1, <1>4, <1>5 DEF map_rtp
  <1>7. c.sample_rate # 0 => map_rtp(c, c.sync_rtp) = map_video_ntp(c, c.sync_ntp) + c.adjust
    BY <1>1, <1>4, <1>5 DEF map_rtp
  <1> QED
    BY <1>3, <1>4, <1>6, <1>7

\* What is applied of a correction is at most MAX_CORRECTION, and what is left
\* of one that is no jump is bounded.
LEMMA AppliedBounds ==
    ASSUME NEW x \in Int
    PROVE  /\ applied(x) \in Int /\ absolute(applied(x)) <= MaxCorrection
           /\ ~(absolute(x) > SyncJump) => absolute(applied(x) - x) <= SyncJump - MaxCorrection
           /\ absolute(0) <= SyncJump - MaxCorrection
  BY ClockConstants DEF applied, absolute

\* airplay_mirror_clock_update_audio_sync
LEMMA SyncStep ==
    ASSUME NEW clock \in ClockStates, clock.sample_rate # 0,
           absolute(clock.adjust) <= SyncJump - MaxCorrection,
           NEW rtp \in RtpValues, NEW ntp \in NtpTimes,
           NEW after, after = update_audio_sync(clock, rtp, ntp)
    PROVE  /\ after \in ClockStates /\ absolute(after.adjust) <= SyncJump - MaxCorrection
           /\ after.last_audio_pts = clock.last_audio_pts
           /\ clock.sync_ready /\ clock.video_ready /\ after.result # "DISCONTINUITY" =>
                absolute(map_rtp(after, after.sync_rtp) - map_rtp(clock, after.sync_rtp)) <= MaxCorrection
  <1>0. PICK zero \in Int : zero = 0
    OBVIOUS
  <1>00. ntp \in NtpValues
    BY ClockValues
  <1> DEFINE c == anchor_audio_only(clock, ntp)
             predicted == map_rtp(c, rtp)
             observed == map_video_ntp(c, ntp)
             correction == observed - predicted
             synced == [c EXCEPT !.sync_rtp = rtp, !.sync_ntp = ntp, !.sync_ready = TRUE, !.result = "OK"]
  <1>1. /\ c \in ClockStates /\ c.sample_rate = clock.sample_rate /\ c.adjust = clock.adjust
        /\ c.last_audio_pts = clock.last_audio_pts
        /\ clock.video_ready => c = clock
    <2>1. CASE clock.audio_only /\ ~clock.video_ready
      <3> DEFINE p == [clock EXCEPT !.video_ready = TRUE, !.anchor_ntp = ntp, !.anchor_pts = zero]
      <3>1. p \in ClockStates /\ p.sample_rate = clock.sample_rate /\ p.adjust = clock.adjust
            /\ p.last_audio_pts = clock.last_audio_pts
        BY <1>00 DEF ClockStates
      <3>2. c = [p EXCEPT !.last_ntp = ntp, !.last_pts = zero]
        BY <1>0, <2>1 DEF anchor_audio_only, ClockStates
      <3> HIDE DEF p, c
      <3> QED
        BY <1>00, <2>1, <3>1, <3>2 DEF ClockStates
    <2>2. CASE ~(clock.audio_only /\ ~clock.video_ready)
      BY <2>2 DEF anchor_audio_only
    <2> QED
      BY <2>1, <2>2
  <1> HIDE DEF c
  <1>2. /\ synced \in ClockStates /\ synced.adjust = c.adjust /\ synced.sample_rate = c.sample_rate
        /\ synced.last_audio_pts = c.last_audio_pts /\ synced.sync_rtp = rtp /\ synced.sync_ntp = ntp
        /\ synced.anchor_pts = c.anchor_pts /\ synced.anchor_ntp = c.anchor_ntp
    BY <1>00, <1>1, ClockValues DEF ClockStates
  <1>3. predicted \in Int /\ observed \in Int
    BY <1>00, <1>1, MapTypes
  <1>4. after = IF ~(c.sync_ready /\ c.video_ready) THEN synced
                ELSE IF absolute(correction) > SyncJump
                THEN [synced EXCEPT !.adjust = 0, !.audio_ready = FALSE, !.result = "DISCONTINUITY"]
                ELSE [synced EXCEPT !.adjust = predicted + applied(correction) - observed]
    BY Zenon DEF update_audio_sync, c
  <1> HIDE DEF synced, predicted, observed
  <1>5. CASE ~(c.sync_ready /\ c.video_ready)
    <2>1. ~(clock.sync_ready /\ clock.video_ready)
      BY <1>1, <1>5
    <2> QED
      BY <1>1, <1>2, <1>4, <1>5, <2>1
  <1>6. CASE (c.sync_ready /\ c.video_ready) /\ absolute(correction) > SyncJump
    <2>1. after = [synced EXCEPT !.adjust = zero, !.audio_ready = FALSE, !.result = "DISCONTINUITY"]
      BY <1>0, <1>4, <1>6
    <2>2. after \in ClockStates /\ after.adjust = 0 /\ after.result = "DISCONTINUITY"
          /\ after.last_audio_pts = synced.last_audio_pts
      BY <1>0, <1>2, <2>1, ClockValues DEF ClockStates
    <2> QED
      BY <1>1, <1>2, <2>2, AppliedBounds
  <1>7. CASE (c.sync_ready /\ c.video_ready) /\ ~(absolute(correction) > SyncJump)
    <2>1. PICK a \in Int : a = predicted + applied(correction) - observed
      BY <1>3, AppliedBounds
    <2>2. after = [synced EXCEPT !.adjust = a]
      BY <1>4, <1>7, <2>1
    <2>3. /\ after \in ClockStates /\ after.adjust = a /\ after.sync_rtp = rtp /\ after.sync_ntp = ntp
          /\ after.last_audio_pts = synced.last_audio_pts /\ after.sample_rate = synced.sample_rate
          /\ after.anchor_pts = synced.anchor_pts /\ after.anchor_ntp = synced.anchor_ntp
      BY <1>2, <2>2 DEF ClockStates
    <2>4. PICK x \in Int : x = correction
      BY <1>3
    <2>5. a = applied(x) - x /\ applied(x) \in Int
      BY <1>3, <2>1, <2>4, AppliedBounds
    <2>6. absolute(a) <= SyncJump - MaxCorrection
      BY <1>7, <2>4, <2>5, AppliedBounds
    <2>7. map_rtp(after, after.sync_rtp) = map_video_ntp(after, after.sync_ntp) + a
      BY <1>00, <1>1, <1>2, <2>3, MapTypes
    <2>8. map_video_ntp(after, ntp) = observed
      BY <1>2, <2>3 DEF map_video_ntp, observed
    <2>9. map_rtp(after, after.sync_rtp) - predicted = applied(x)
      BY <1>3, <2>3, <2>4, <2>5, <2>7, <2>8
    <2>10. clock.video_ready => map_rtp(clock, after.sync_rtp) = predicted
      BY <1>1, <2>3 DEF predicted
    <2> QED
      BY <1>1, <1>2, <2>3, <2>4, <2>6, <2>9, <2>10, AppliedBounds
  <1> QED
    BY <1>5, <1>6, <1>7

\* Resetting the sound's mapping forgets its correction, not the times given.
LEMMA ResetStates ==
    ASSUME NEW c \in ClockStates
    PROVE  /\ reset_audio_mapping(c) \in ClockStates /\ reset_audio_mapping(c).adjust = 0
           /\ ~reset_audio_mapping(c).sync_ready /\ ~reset_audio_mapping(c).audio_ready
           /\ reset_audio_mapping(c).last_audio_pts = c.last_audio_pts
           /\ reset_audio_mapping(c).last_pts = c.last_pts
           /\ reset_audio_mapping(c).video_ready = c.video_ready
  <1>1. PICK zero \in Int : zero = 0
    OBVIOUS
  <1>2. reset_audio_mapping(c) = [c EXCEPT !.sync_ready = FALSE, !.audio_ready = FALSE, !.adjust = zero]
    BY <1>1 DEF reset_audio_mapping
  <1> QED
    BY <1>1, <1>2 DEF ClockStates

\* airplay_mirror_clock_map_video
LEMMA PictureTimes ==
    ASSUME NEW c \in ClockStates, NEW ntp \in NtpTimes, NEW after, after = map_video(c, ntp)
    PROVE  /\ after \in ClockStates
           /\ after.anchor_ntp \in NtpTimes \/ after.anchor_ntp = c.anchor_ntp
           /\ ~c.video_ready => after.anchor_ntp \in NtpTimes
           /\ after.last_ntp \in NtpTimes
           /\ c.video_ready => after.last_pts > c.last_pts
  <1>0. PICK zero \in Int : zero = 0
    OBVIOUS
  <1>00. ntp \in NtpValues
    BY ClockValues
  <1>1. map_video_ntp(c, ntp) \in Int /\ c.last_pts \in Int
    <2>1. 0 \in RtpValues /\ ntp \in NtpValues
      BY ClockValues
    <2> QED
      BY <2>1, MapTypes DEF ClockStates
  <1>2. CASE ~c.video_ready
    <2> DEFINE p == [c EXCEPT !.video_ready = TRUE, !.anchor_ntp = ntp, !.anchor_pts = zero]
    <2>1. p \in ClockStates /\ p.anchor_ntp = ntp
      BY <1>00 DEF ClockStates
    <2>2. after = [p EXCEPT !.last_ntp = ntp, !.last_pts = zero]
      BY <1>0, <1>2 DEF map_video, ClockStates
    <2> HIDE DEF p
    <2>3. after \in ClockStates /\ after.anchor_ntp = ntp /\ after.last_ntp = ntp
      BY <1>00, <2>1, <2>2 DEF ClockStates
    <2> QED
      BY <1>2, <2>3
  <1>3. CASE c.video_ready /\ after = [reset_audio_mapping(c) EXCEPT
                !.anchor_ntp = ntp, !.anchor_pts = c.last_pts + 1, !.last_ntp = ntp,
                !.last_pts = c.last_pts + 1]
    <2> DEFINE r == reset_audio_mapping(c)
               p == [r EXCEPT !.anchor_ntp = ntp, !.anchor_pts = c.last_pts + 1]
    <2>1. r \in ClockStates
      BY ResetStates
    <2> HIDE DEF r
    <2>5. c.last_pts + 1 \in Int
      BY <1>1
    <2>2. p \in ClockStates /\ p.anchor_ntp = ntp
      BY <1>00, <2>5, <2>1 DEF ClockStates
    <2>3. after = [p EXCEPT !.last_ntp = ntp, !.last_pts = c.last_pts + 1]
      BY <1>3, <2>1 DEF ClockStates, r
    <2> HIDE DEF p
    <2>4. /\ after \in ClockStates /\ after.anchor_ntp = ntp /\ after.last_ntp = ntp
          /\ after.last_pts = c.last_pts + 1
      BY <1>00, <2>5, <2>2, <2>3 DEF ClockStates
    <2> QED
      BY <1>1, <1>3, <2>4
  <1>4. CASE c.video_ready /\ after = [c EXCEPT !.last_ntp = ntp,
                       !.last_pts = IF map_video_ntp(c, ntp) <= c.last_pts THEN c.last_pts + 1
                                    ELSE map_video_ntp(c, ntp)]
    <2>1. PICK x \in Int : x > c.last_pts /\ after = [c EXCEPT !.last_ntp = ntp, !.last_pts = x]
      <3>1. (IF map_video_ntp(c, ntp) <= c.last_pts THEN c.last_pts + 1 ELSE map_video_ntp(c, ntp)) \in Int
            /\ (IF map_video_ntp(c, ntp) <= c.last_pts THEN c.last_pts + 1
                ELSE map_video_ntp(c, ntp)) > c.last_pts
        BY <1>1
      <3> QED
        BY <1>4, <3>1
    <2>2. /\ after \in ClockStates /\ after.anchor_ntp = c.anchor_ntp /\ after.last_ntp = ntp
          /\ after.last_pts = x
      BY <1>00, <2>1 DEF ClockStates
    <2> QED
      BY <1>4, <2>1, <2>2
  <1> QED
    BY <1>2, <1>3, <1>4 DEF map_video

\* The invariant holds on the clocks airplay_mirror_clock_init makes.
LEMMA ClockInitial ==
    ASSUME ClockInit
    PROVE  ClockInv
  <1>1. PICK zero \in Int : zero = 0
    OBVIOUS
  <1>2. \A b \in BOOLEAN : clock_create(b) =
          [audio_only |-> b, video_ready |-> FALSE, anchor_ntp |-> zero, anchor_pts |-> zero,
           last_ntp |-> zero, last_pts |-> zero, sample_rate |-> zero, sync_ready |-> FALSE,
           sync_rtp |-> zero, sync_ntp |-> zero, adjust |-> zero, audio_ready |-> FALSE,
           last_audio_pts |-> zero, result |-> "OK"]
    BY <1>1 DEF clock_create
  <1>3. zero \in NtpValues /\ zero \in RateValues /\ zero \in RtpValues /\ "OK" \in Results
    BY <1>1, ClockValues
  <1>4. \A b \in BOOLEAN : /\ clock_create(b) \in ClockStates /\ clock_create(b).adjust = zero
                           /\ ~clock_create(b).video_ready
    <2>1. TAKE b \in BOOLEAN
    <2>2. PICK c : c = clock_create(b)
      OBVIOUS
    <2>3. c = [audio_only |-> b, video_ready |-> FALSE, anchor_ntp |-> zero, anchor_pts |-> zero,
               last_ntp |-> zero, last_pts |-> zero, sample_rate |-> zero, sync_ready |-> FALSE,
               sync_rtp |-> zero, sync_ntp |-> zero, adjust |-> zero, audio_ready |-> FALSE,
               last_audio_pts |-> zero, result |-> "OK"]
      BY <1>2, <2>2
    <2>4. c \in ClockStates /\ c.adjust = zero /\ ~c.video_ready
      BY <1>3, <2>3 DEF ClockStates
    <2> QED
      BY <2>2, <2>4
  <1>5. /\ video_clock \in ClockStates /\ audio_clock \in ClockStates /\ audio_clock.adjust = 0
        /\ ~video_clock.video_ready /\ timeline = NoTimeline
    BY <1>1, <1>4 DEF ClockInit
  <1> QED
    BY <1>5, AppliedBounds DEF ClockInv

\* Every step keeps the invariant and moves the clocks smoothly.
LEMMA ClockStep ==
    ASSUME ClockInv, [ClockNext]_ClockVars
    PROVE  ClockInv' /\ MovesSmoothly
  <1>1. /\ video_clock \in ClockStates /\ audio_clock \in ClockStates
        /\ timeline = NoTimeline \/ timeline \in Timelines
        /\ video_clock.video_ready => video_clock.anchor_ntp \in NtpTimes /\ video_clock.last_ntp \in NtpTimes
        /\ absolute(audio_clock.adjust) <= SyncJump - MaxCorrection
    BY DEF ClockInv
  \* A step of the audio clock that hands out no time and takes no sync packet.
  <1>2. ASSUME video_clock' = video_clock, audio_clock' \in ClockStates,
               timeline' = NoTimeline \/ timeline' \in Timelines,
               absolute(audio_clock'.adjust) <= SyncJump - MaxCorrection,
               audio_clock'.last_audio_pts = audio_clock.last_audio_pts,
               audio_clock'.sync_ready => /\ audio_clock'.sync_rtp = audio_clock.sync_rtp
                                          /\ audio_clock'.sync_ntp = audio_clock.sync_ntp
        PROVE  ClockInv' /\ MovesSmoothly
    <2>1. ClockInv'
      BY <1>1, <1>2 DEF ClockInv
    <2> QED
      BY <1>2, <2>1 DEF MovesSmoothly
  <1>3. ASSUME NEW ntp \in NtpTimes, Picture(ntp)
        PROVE  ClockInv' /\ MovesSmoothly
    <2>1. /\ video_clock' \in ClockStates
          /\ video_clock'.anchor_ntp \in NtpTimes \/ video_clock'.anchor_ntp = video_clock.anchor_ntp
          /\ ~video_clock.video_ready => video_clock'.anchor_ntp \in NtpTimes
          /\ video_clock'.last_ntp \in NtpTimes
          /\ video_clock.video_ready => video_clock'.last_pts > video_clock.last_pts
      BY <1>1, <1>3, PictureTimes DEF Picture
    <2>2. UNCHANGED <<audio_clock, timeline>>
      BY <1>3 DEF Picture
    <2>3. ClockInv'
      BY <1>1, <2>1, <2>2 DEF ClockInv
    <2> QED
      BY <2>1, <2>2, <2>3 DEF MovesSmoothly
  <1>4. ASSUME NEW rate \in SampleRates, SetRate(rate)
        PROVE  ClockInv' /\ MovesSmoothly
    <2>1. PICK c \in ClockStates :
            /\ audio_clock' = [c EXCEPT !.sample_rate = rate]
            /\ c = audio_clock \/ c = reset_audio_mapping(audio_clock)
      BY <1>1, <1>4, ResetStates DEF SetRate, set_audio_rate
    <2>2. /\ audio_clock' \in ClockStates /\ audio_clock'.adjust = c.adjust
          /\ audio_clock'.last_audio_pts = c.last_audio_pts /\ audio_clock'.sync_ready = c.sync_ready
          /\ audio_clock'.sync_rtp = c.sync_rtp /\ audio_clock'.sync_ntp = c.sync_ntp
      BY <2>1, ClockValues DEF ClockStates
    <2>3. /\ absolute(c.adjust) <= SyncJump - MaxCorrection
          /\ c.last_audio_pts = audio_clock.last_audio_pts
          /\ c.sync_ready => c = audio_clock
      BY <1>1, <2>1, ResetStates, AppliedBounds
    <2> QED
      BY <1>1, <1>2, <1>4, <2>2, <2>3 DEF SetRate
  <1>5. ASSUME NEW rtp \in RtpValues, NEW ntp \in NtpTimes, Sync(rtp, ntp)
        PROVE  ClockInv' /\ MovesSmoothly
    <2>1. /\ audio_clock' = update_audio_sync(audio_clock, rtp, ntp) /\ audio_clock.sample_rate # 0
          /\ UNCHANGED <<video_clock, timeline>>
      BY <1>5 DEF Sync
    <2>2. /\ audio_clock' \in ClockStates
          /\ absolute(audio_clock'.adjust) <= SyncJump - MaxCorrection
          /\ audio_clock'.last_audio_pts = audio_clock.last_audio_pts
          /\ audio_clock.sync_ready /\ audio_clock.video_ready /\ audio_clock'.result # "DISCONTINUITY" =>
               absolute(map_rtp(audio_clock', audio_clock'.sync_rtp)
                          - map_rtp(audio_clock, audio_clock'.sync_rtp)) <= MaxCorrection
      BY <1>1, <2>1, SyncStep
    <2>3. ClockInv'
      BY <1>1, <2>1, <2>2 DEF ClockInv
    <2> QED
      BY <2>1, <2>2, <2>3 DEF MovesSmoothly
  <1>6. CASE GetTimeline
    <2>1. /\ UNCHANGED <<video_clock, audio_clock>>
          /\ timeline' = [anchor_ntp |-> video_clock.anchor_ntp, anchor_pts |-> video_clock.anchor_pts,
                          last_ntp |-> video_clock.last_ntp, last_pts |-> video_clock.last_pts]
          /\ video_clock.video_ready
      BY <1>6 DEF GetTimeline
    <2>2. timeline' \in Timelines
      BY <1>1, <2>1 DEF Timelines, ClockStates
    <2> QED
      BY <1>1, <1>2, <2>1, <2>2
  <1>7. CASE SetTimeline
    <2>1. timeline \in Timelines /\ timeline' = NoTimeline /\ video_clock' = video_clock
          /\ audio_clock' = set_video_timeline(audio_clock, timeline)
      BY <1>1, <1>7 DEF SetTimeline
    <2>2. PICK c \in ClockStates :
            /\ audio_clock' = [c EXCEPT !.audio_only = FALSE, !.video_ready = TRUE,
                                        !.anchor_ntp = timeline.anchor_ntp,
                                        !.anchor_pts = timeline.anchor_pts,
                                        !.last_ntp = timeline.last_ntp, !.last_pts = timeline.last_pts]
            /\ c = audio_clock \/ c = reset_audio_mapping(audio_clock)
      BY <1>1, <2>1, ResetStates DEF set_video_timeline
    <2>3. /\ timeline.anchor_ntp \in NtpValues /\ timeline.last_ntp \in NtpValues
          /\ timeline.anchor_pts \in Int /\ timeline.last_pts \in Int
      BY <2>1, ClockValues DEF Timelines
    <2> DEFINE p == [c EXCEPT !.audio_only = FALSE, !.video_ready = TRUE,
                              !.anchor_ntp = timeline.anchor_ntp]
    <2>4. /\ p \in ClockStates /\ p.adjust = c.adjust
          /\ p.last_audio_pts = c.last_audio_pts /\ p.sync_ready = c.sync_ready
          /\ p.sync_rtp = c.sync_rtp /\ p.sync_ntp = c.sync_ntp
      BY <2>3 DEF ClockStates
    <2>5. audio_clock' = [p EXCEPT !.anchor_pts = timeline.anchor_pts,
                                   !.last_ntp = timeline.last_ntp, !.last_pts = timeline.last_pts]
      BY <2>2 DEF ClockStates
    <2> HIDE DEF p
    <2>6. /\ audio_clock' \in ClockStates /\ audio_clock'.adjust = p.adjust
          /\ audio_clock'.last_audio_pts = p.last_audio_pts /\ audio_clock'.sync_ready = p.sync_ready
          /\ audio_clock'.sync_rtp = p.sync_rtp /\ audio_clock'.sync_ntp = p.sync_ntp
      BY <2>3, <2>4, <2>5 DEF ClockStates
    <2>7. /\ absolute(c.adjust) <= SyncJump - MaxCorrection
          /\ c.last_audio_pts = audio_clock.last_audio_pts
          /\ c.sync_ready => c = audio_clock
      BY <1>1, <2>2, ResetStates, AppliedBounds
    <2> QED
      BY <1>2, <2>1, <2>4, <2>6, <2>7
  <1>8. CASE SetNotAudioOnly
    <2>1. /\ audio_clock' \in ClockStates /\ audio_clock'.adjust = audio_clock.adjust
          /\ audio_clock'.last_audio_pts = audio_clock.last_audio_pts
          /\ audio_clock'.sync_rtp = audio_clock.sync_rtp /\ audio_clock'.sync_ntp = audio_clock.sync_ntp
      BY <1>1, <1>8 DEF SetNotAudioOnly, ClockStates
    <2> QED
      BY <1>1, <1>2, <1>8, <2>1 DEF SetNotAudioOnly
  <1>9. ASSUME NEW rtp \in RtpValues, Sound(rtp)
        PROVE  ClockInv' /\ MovesSmoothly
    <2>1. map_rtp(audio_clock, rtp) \in Int /\ audio_clock.last_audio_pts \in Int
      <3>1. audio_clock.sample_rate # 0 /\ 0 \in NtpValues
        BY <1>9, ClockValues DEF Sound, audio_mappable
      <3> QED
        BY <1>1, <3>1, MapTypes DEF ClockStates
    <2>2. PICK x \in Int :
            /\ audio_clock' = [audio_clock EXCEPT !.audio_ready = TRUE, !.last_audio_pts = x]
            /\ audio_clock.audio_ready => x > audio_clock.last_audio_pts
      <3> DEFINE y == IF audio_clock.audio_ready /\ map_rtp(audio_clock, rtp) <= audio_clock.last_audio_pts
                      THEN audio_clock.last_audio_pts + 1 ELSE map_rtp(audio_clock, rtp)
      <3>1. y \in Int /\ (audio_clock.audio_ready => y > audio_clock.last_audio_pts)
        BY <2>1
      <3>2. audio_clock' = [audio_clock EXCEPT !.audio_ready = TRUE, !.last_audio_pts = y]
        BY <1>9 DEF Sound, map_audio
      <3> HIDE DEF y
      <3> QED
        BY <3>1, <3>2
    <2>3. /\ audio_clock' \in ClockStates /\ audio_clock'.adjust = audio_clock.adjust
          /\ audio_clock'.last_audio_pts = x
          /\ audio_clock'.sync_rtp = audio_clock.sync_rtp /\ audio_clock'.sync_ntp = audio_clock.sync_ntp
      BY <1>1, <2>2 DEF ClockStates
    <2>4. UNCHANGED <<video_clock, timeline>>
      BY <1>9 DEF Sound
    <2>5. ClockInv'
      BY <1>1, <2>3, <2>4 DEF ClockInv
    <2> QED
      BY <2>2, <2>3, <2>4, <2>5 DEF MovesSmoothly
  <1>10. CASE UNCHANGED ClockVars
    BY <1>1, <1>2, <1>10 DEF ClockVars
  <1> QED
    BY <1>3, <1>4, <1>5, <1>6, <1>7, <1>8, <1>9, <1>10 DEF ClockNext, RtpValues

\* The clocks' fields have the values they may take.
THEOREM ClockTypeCorrect == ClockSpec => []ClockTypeOK
  <1>1. ClockInit => ClockInv
    BY ClockInitial
  <1>2. ClockInv /\ [ClockNext]_ClockVars => ClockInv'
    BY ClockStep
  <1>3. ClockInv => ClockTypeOK
    BY DEF ClockInv, ClockTypeOK, ClockStates, NtpValues, RateValues, RtpValues
  <1> QED
    BY <1>1, <1>2, <1>3, PTL DEF ClockSpec

\* Presentation times only grow and sync packets move the sound a little at a
\* time, whatever times the sender gives and whatever clock is copied when.
THEOREM ClockSmooth == ClockSpec => ClockMovesSmoothly
  <1>1. ClockInit => ClockInv
    BY ClockInitial
  <1>2. ClockInv /\ [ClockNext]_ClockVars => ClockInv' /\ [MovesSmoothly]_ClockVars
    BY ClockStep
  <1>3. ClockInv => AdjustBounded
    BY DEF ClockInv, AdjustBounded
  <1> QED
    BY <1>1, <1>2, <1>3, PTL DEF ClockSpec, ClockMovesSmoothly

-----------------------------------------------------------------------------
(* MirrorControl: counting references. *)

One(x, b) == IF x = b THEN 1 ELSE 0

\* A name appended counts once more.
LEMMA CountAppend ==
    ASSUME NEW S, NEW s \in Seq(S), NEW x \in S, NEW b
    PROVE  Count(s, b) \in Nat /\ Count(Append(s, x), b) = Count(s, b) + One(x, b)
  <1> DEFINE A == {i \in DOMAIN s : s[i] = b}
             t == Append(s, x)
             B == {i \in DOMAIN t : t[i] = b}
  <1>1. IsFiniteSet(A) /\ Len(s) + 1 \notin A
    BY FS_Interval, FS_Subset
  <1>2. DOMAIN t = DOMAIN s \cup {Len(s) + 1} /\ t[Len(s) + 1] = x /\ \A i \in DOMAIN s : t[i] = s[i]
    OBVIOUS
  <1>3. (x = b) => B = A \cup {Len(s) + 1}
    BY <1>2
  <1>4. ~(x = b) => B = A
    BY <1>2
  <1> HIDE DEF A, B
  <1>6. Cardinality(A) \in Nat
    BY <1>1, FS_CardinalityType
  <1>7. Cardinality(B) = Cardinality(A) + (IF x = b THEN 1 ELSE 0)
    BY <1>1, <1>3, <1>4, <1>6, FS_AddElement
  <1>8. Count(s, b) = Cardinality(A) /\ Count(Append(s, x), b) = Cardinality(B)
    BY DEF Count, A, B
  <1> QED
    BY <1>6, <1>7, <1>8 DEF One

\* A queued command adds the reference it carries.
LEMMA InQueueAppend ==
    ASSUME NEW S, NEW s \in Seq(S), NEW x \in S, NEW b
    PROVE  InQueue(s, b) \in Nat /\ InQueue(Append(s, x), b) = InQueue(s, b) + One(x.bridge, b)
  <1> DEFINE A == {i \in DOMAIN s : s[i].bridge = b}
             t == Append(s, x)
             B == {i \in DOMAIN t : t[i].bridge = b}
  <1>1. IsFiniteSet(A) /\ Len(s) + 1 \notin A
    BY FS_Interval, FS_Subset
  <1>2. DOMAIN t = DOMAIN s \cup {Len(s) + 1} /\ t[Len(s) + 1] = x /\ \A i \in DOMAIN s : t[i] = s[i]
    OBVIOUS
  <1>3. (x.bridge = b) => B = A \cup {Len(s) + 1}
    BY <1>2
  <1>4. ~(x.bridge = b) => B = A
    BY <1>2
  <1> HIDE DEF A, B
  <1>6. Cardinality(A) \in Nat
    BY <1>1, FS_CardinalityType
  <1>7. Cardinality(B) = Cardinality(A) + (IF x.bridge = b THEN 1 ELSE 0)
    BY <1>1, <1>3, <1>4, <1>6, FS_AddElement
  <1>8. InQueue(s, b) = Cardinality(A) /\ InQueue(Append(s, x), b) = Cardinality(B)
    BY DEF InQueue, A, B
  <1> QED
    BY <1>6, <1>7, <1>8 DEF One

\* A command taken off the queue takes its reference along.
LEMMA InQueueTail ==
    ASSUME NEW S, NEW s \in Seq(S), s # <<>>, NEW b
    PROVE  InQueue(Tail(s), b) \in Nat /\ InQueue(s, b) = InQueue(Tail(s), b) + One(Head(s).bridge, b)
  <1> DEFINE t == Tail(s)
             A == {i \in DOMAIN t : t[i].bridge = b}
             C == {i \in DOMAIN s \ {1} : s[i].bridge = b}
             B == {i \in DOMAIN s : s[i].bridge = b}
             f == [i \in A |-> i + 1]
  <1>1. /\ DOMAIN s = 1 .. Len(s) /\ Len(s) \in Nat \ {0} /\ t \in Seq(S) /\ DOMAIN t = 1 .. Len(s) - 1
        /\ \A i \in DOMAIN t : t[i] = s[i + 1]
    OBVIOUS
  <1>2. IsFiniteSet(A)
    <2>1. IsFiniteSet(1 .. Len(s) - 1) /\ A \in SUBSET (1 .. Len(s) - 1)
      BY <1>1, FS_Interval
    <2> QED
      BY <2>1, FS_Subset
  <1>3. f \in [A -> C] /\ \A i, j \in A : f[i] = f[j] => i = j
    BY <1>1
  <1>4. \A j \in C : \E i \in A : f[i] = j
    <2> SUFFICES ASSUME NEW j \in C PROVE \E i \in A : f[i] = j
      OBVIOUS
    <2>1. j - 1 \in DOMAIN t /\ t[j - 1] = s[j]
      BY <1>1
    <2>2. j - 1 \in A /\ f[j - 1] = j
      BY <1>1, <2>1
    <2> QED
      BY <2>2
  <1>5. ExistsBijection(A, C)
    <2> HIDE DEF A, C
    <2> QED
      BY <1>3, <1>4 DEF ExistsBijection, Bijection, Injection, Surjection, IsInjective
  <1>6. IsFiniteSet(C) /\ Cardinality(C) = Cardinality(A) /\ 1 \notin C
    <2>1. 1 \notin C
      OBVIOUS
    <2> HIDE DEF A, C
    <2> QED
      BY <1>2, <1>5, <2>1, FS_Bijection
  <1>7. (Head(s).bridge = b) => B = C \cup {1}
    BY <1>1
  <1>8. ~(Head(s).bridge = b) => B = C
    BY <1>1
  <1> HIDE DEF A, B, C
  <1>9. Cardinality(A) \in Nat
    BY <1>2, FS_CardinalityType
  <1>10. Cardinality(B) = Cardinality(A) + (IF Head(s).bridge = b THEN 1 ELSE 0)
    BY <1>6, <1>7, <1>8, <1>9, FS_AddElement
  <1>11. InQueue(Tail(s), b) = Cardinality(A) /\ InQueue(s, b) = Cardinality(B)
    BY DEF InQueue, A, B
  <1> QED
    BY <1>9, <1>10, <1>11 DEF One

\* Counting names in short lists.
LEMMA CountNone ==
    ASSUME NEW b
    PROVE  Count(<<>>, b) = 0
  <1>1. {i \in DOMAIN <<>> : <<>>[i] = b} = {}
    OBVIOUS
  <1> QED
    BY <1>1, FS_EmptySet DEF Count

\* ... of one ...
LEMMA CountOne ==
    ASSUME NEW b, NEW v
    PROVE  Count(<<v>>, b) = One(v, b)
  <1> DEFINE S == {v}
             s == <<>>
             t == <<v>>
  <1>1. s \in Seq(S) /\ t = Append(s, v) /\ v \in S
    OBVIOUS
  <1>2. Count(s, b) = 0
    BY CountNone
  <1> HIDE DEF S, s, t
  <1>3. Count(t, b) = Count(s, b) + One(v, b)
    BY <1>1, CountAppend
  <1>4. One(v, b) \in Nat
    BY DEF One
  <1> QED
    BY <1>2, <1>3, <1>4 DEF t

\* ... of two ...
LEMMA CountTwo ==
    ASSUME NEW b, NEW v, NEW w
    PROVE  Count(<<v, w>>, b) = One(v, b) + One(w, b)
  <1> DEFINE S == {v, w}
             s == <<v>>
             t == <<v, w>>
  <1>1. s \in Seq(S) /\ t = Append(s, w) /\ w \in S
    OBVIOUS
  <1>2. Count(s, b) = One(v, b)
    BY CountOne
  <1> HIDE DEF S, s, t
  <1>3. Count(t, b) = Count(s, b) + One(w, b)
    BY <1>1, CountAppend
  <1>4. One(v, b) \in Nat /\ One(w, b) \in Nat
    BY DEF One
  <1> QED
    BY <1>2, <1>3, <1>4 DEF t

\* ... of three ...
LEMMA CountThree ==
    ASSUME NEW b, NEW v, NEW w, NEW x
    PROVE  Count(<<v, w, x>>, b) = One(v, b) + One(w, b) + One(x, b)
  <1> DEFINE S == {v, w, x}
             s == <<v, w>>
             t == <<v, w, x>>
  <1>1. s \in Seq(S) /\ t = Append(s, x) /\ x \in S
    OBVIOUS
  <1>2. Count(s, b) = One(v, b) + One(w, b)
    BY CountTwo
  <1> HIDE DEF S, s, t
  <1>3. Count(t, b) = Count(s, b) + One(x, b)
    BY <1>1, CountAppend
  <1>4. One(v, b) \in Nat /\ One(w, b) \in Nat /\ One(x, b) \in Nat
    BY DEF One
  <1> QED
    BY <1>2, <1>3, <1>4 DEF t

\* ... of four ...
LEMMA CountFour ==
    ASSUME NEW b, NEW v, NEW w, NEW x, NEW y
    PROVE  Count(<<v, w, x, y>>, b) = One(v, b) + One(w, b) + One(x, b) + One(y, b)
  <1> DEFINE S == {v, w, x, y}
             s == <<v, w, x>>
             t == <<v, w, x, y>>
  <1>1. s \in Seq(S) /\ t = Append(s, y) /\ y \in S
    OBVIOUS
  <1>2. Count(s, b) = One(v, b) + One(w, b) + One(x, b)
    BY CountThree
  <1> HIDE DEF S, s, t
  <1>3. Count(t, b) = Count(s, b) + One(y, b)
    BY <1>1, CountAppend
  <1>4. One(v, b) \in Nat /\ One(w, b) \in Nat /\ One(x, b) \in Nat /\ One(y, b) \in Nat
    BY DEF One
  <1> QED
    BY <1>2, <1>3, <1>4 DEF t

\* ... and of five.
LEMMA CountFive ==
    ASSUME NEW b, NEW v, NEW w, NEW x, NEW y, NEW z
    PROVE  Count(<<v, w, x, y, z>>, b) = One(v, b) + One(w, b) + One(x, b) + One(y, b) + One(z, b)
  <1> DEFINE S == {v, w, x, y, z}
             s == <<v, w, x, y>>
             t == <<v, w, x, y, z>>
  <1>1. s \in Seq(S) /\ t = Append(s, z) /\ z \in S
    OBVIOUS
  <1>2. Count(s, b) = One(v, b) + One(w, b) + One(x, b) + One(y, b)
    BY CountFour
  <1> HIDE DEF S, s, t
  <1>3. Count(t, b) = Count(s, b) + One(z, b)
    BY <1>1, CountAppend
  <1>4. One(v, b) \in Nat /\ One(w, b) \in Nat /\ One(x, b) \in Nat /\ One(y, b) \in Nat /\ One(z, b) \in Nat
    BY DEF One
  <1> QED
    BY <1>2, <1>3, <1>4 DEF t

\* A queue's references are a natural number.
LEMMA InQueueType ==
    ASSUME NEW S, NEW s \in Seq(S), NEW b
    PROVE  InQueue(s, b) \in Nat
  <1> DEFINE A == {i \in DOMAIN s : s[i].bridge = b}
  <1>1. IsFiniteSet(A)
    BY FS_Interval, FS_Subset
  <1> HIDE DEF A
  <1>2. Cardinality(A) \in Nat
    BY <1>1, FS_CardinalityType
  <1> QED
    BY <1>2 DEF InQueue, A

-----------------------------------------------------------------------------
(* MirrorControl: the inductive invariant. *)

Ids == BridgeIds \cup {0}
Peers == Connections \cup {"none"}
Statuses == {"IDLE", "PREPARING", "WAITING_KEYFRAME", "PLAYING", "ERROR", "DISCONNECTED"}
Runtimes == [mirror : Ids, audio : Ids, bridge : Ids, audio_bridge : Ids, transport : Peers,
             session : Peers, generation : Nat, status : Statuses, opening : BOOLEAN,
             recording : BOOLEAN, load_queued : BOOLEAN, play_queued : BOOLEAN,
             attach_queued : BOOLEAN, audio_only : BOOLEAN]

\* Commands that carry a reference, and those that carry none.
NoBridge == {0}
HoldingTypes == {"LOAD", "BOUND", "AUDIO"}
BareTypes == {"PLAY", "STOP"}
Holding == [type : HoldingTypes, generation : Nat, bridge : Ids]
Bare == [type : BareTypes, generation : Nat, bridge : NoBridge]
Notices == [type : {"NOTIFY"}, generation : Nat, bridge : NoBridge, status : Statuses]
CommandStates == Holding \cup Bare \cup Notices
Workers == CommandStates \cup {NoCommand}

ThreadStates == [live : BOOLEAN, recording : BOOLEAN, on : SUBSET BridgeIds,
                 waits : SUBSET BridgeIds, generation : Nat]
ContextStates == [initial : BOOLEAN, setup : SUBSET Streams, record : BOOLEAN,
                  started : SUBSET Streams, closed : BOOLEAN]

\* What a thread may be in the middle of.
Stopped == [at |-> "stopped"]
Plain == [at : {"idle", "failed", "claim", "stopped"}]
Opens == [at : {"open", "opening", "audio", "audio_opening", "record"}, todo : SUBSET Streams,
          bridge : Ids, audio_bridge : Ids, previous : Nat, promotion : BOOLEAN]
Claims == [at : {"claimed", "observe"}, generation : Nat]
Stops == [at : {"cancel", "join"}, mirror : Ids, audio : Ids, bridges : Ids \X Ids,
          next : {Idle, Stopped}]
CallStates == Plain \cup Opens \cup Claims \cup Stops

QueueTypes == commands \in Seq(CommandStates) /\ Len(commands) <= QueueCapacity
MirrorTypes ==
    /\ runtime \in Runtimes /\ QueueTypes /\ worker \in Workers
    /\ refs \in [BridgeIds -> Int] /\ cancelled \subseteq BridgeIds
    /\ threads \in [Streams \X BridgeIds -> ThreadStates]
    /\ context \in [Connections -> ContextStates]
    /\ call \in [Callers -> CallStates]
    /\ lease \in [token : Peers, generation : Nat] /\ player \in [video : Ids, audio : Ids]

\* Only the callers that have made a request are busy.
FewBusy(f) == IsFiniteSet({c \in Callers : f[c].at # "idle"})
FewCalls == FewBusy(call)

\* What the runtime keeps belongs together: with no session there are no
\* streams; the sound's own bridge is there beside pictures only.
RuntimeLinked ==
    /\ runtime.session = "none" =>
          /\ runtime.mirror = 0 /\ runtime.audio = 0
          /\ runtime.bridge = 0 /\ runtime.audio_bridge = 0
    /\ runtime.session # "none" => runtime.transport = runtime.session
    /\ runtime.mirror # 0 => runtime.bridge # 0
    /\ runtime.audio_bridge # 0 =>
          runtime.mirror # 0 /\ runtime.audio # 0 /\ runtime.audio_bridge # runtime.bridge
    /\ runtime.bridge # 0 /\ runtime.mirror = 0 => runtime.audio # 0
    /\ runtime.audio_only => runtime.mirror = 0 /\ runtime.audio # 0
    /\ runtime.load_queued => runtime.mirror # 0
TransportInitial == runtime.transport # "none" => context[runtime.transport].initial

\* An open in progress keeps the bridges it made, and knows its session.
OpenLinked(k) ==
    /\ k.at = "opening" =>
          /\ k.bridge # 0 /\ k.audio_bridge # k.bridge
          /\ k.promotion <=> k.audio_bridge # 0
    /\ k.at = "audio_opening" => k.audio_bridge # 0 /\ k.audio_bridge # k.bridge
CallsLinked ==
    /\ call["app"] \in Plain \cup Stops
    /\ \A c \in Connections :
          /\ call[c].at \in {"open", "opening", "audio", "audio_opening"} => context[c].initial
          /\ OpenLinked(call[c])

\* The receiver thread that a call will publish or join.
Owns(k, s) ==
    CASE k.at = "opening" -> IF s = "video" THEN k.bridge ELSE 0
      [] k.at = "audio_opening" -> IF s = "audio" THEN k.audio_bridge ELSE 0
      [] k.at \in {"cancel", "join"} -> IF s = "video" THEN k.mirror ELSE k.audio
      [] OTHER -> 0
RuntimeOwns(s) == IF s = "video" THEN runtime.mirror ELSE runtime.audio

\* A receiver thread lives as long as the runtime or one call has it.
ThreadsOwned ==
    \A s \in Streams :
       /\ \A b \in BridgeIds :
             threads[<<s, b>>].live <=> RuntimeOwns(s) = b \/ \E c \in Callers : Owns(call[c], s) = b
       /\ \A c \in Callers : Owns(call[c], s) # 0 =>
             /\ Owns(call[c], s) # RuntimeOwns(s)
             /\ \A d \in Callers : Owns(call[d], s) = Owns(call[c], s) => c = d

\* It delivers nothing before it is published and told to record.
ThreadsQuiet ==
    \A t \in Streams \X BridgeIds :
       /\ ~threads[t].live => ~threads[t].recording
       /\ ~threads[t].recording => threads[t].on = {}
       /\ threads[t].waits \subseteq threads[t].on
OpensQuiet ==
    \A c \in Connections :
       /\ call[c].at = "opening" => ~threads[<<"video", call[c].bridge>>].recording
       /\ call[c].at = "audio_opening" => ~threads[<<"audio", call[c].audio_bridge>>].recording

\* Streams are kept from opening only by a call that will let them again.
Frees(k, c) ==
    \/ k.at = "opening" /\ k.previous = runtime.generation
    \/ /\ k.at = "audio_opening" /\ k.previous = runtime.generation
       /\ runtime.transport = c
    \/ /\ k = Stopped \/ (k \in Stops /\ k.next = Stopped)
       /\ runtime.transport = c
OpeningOwned == runtime.opening => \E c \in Connections : Frees(call[c], c)

MirrorInv ==
    /\ MirrorTypes /\ FewCalls /\ RefsBalanced
    /\ RuntimeLinked /\ TransportInitial /\ CallsLinked
    /\ ThreadsOwned /\ ThreadsQuiet /\ OpensQuiet /\ WaitsEnd /\ OpeningOwned

-----------------------------------------------------------------------------
(* MirrorControl: who holds a bridge. *)

\* CallHolds and the sets of Holders, of any calls and threads.
CallHold(k, b) ==
    CASE k.at \in {"opening", "audio_opening"} -> Count(<<k.bridge, k.audio_bridge>>, b)
      [] k.at \in {"cancel", "join"} -> Count(k.bridges, b)
      [] OTHER -> 0
CallsHeld(f, b) ==
    Cardinality({c \in Callers : CallHold(f[c], b) > 0})
    + Cardinality({c \in Callers : CallHold(f[c], b) > 1})
ThreadsHeld(f, b) == Cardinality({t \in DOMAIN f : b \in f[t].on})

\* The holders of a bridge, added up ...
LEMMA HoldersNow ==
    ASSUME NEW b
    PROVE  Holders(b) =
             One(runtime.bridge, b) + One(runtime.audio_bridge, b) + One(player.video, b)
             + One(player.audio, b) + One(worker.bridge, b) + InQueue(commands, b)
             + ThreadsHeld(threads, b) + CallsHeld(call, b)
  <1>1. \A c : CallHolds(c, b) = CallHold(call[c], b)
    BY DEF CallHolds, CallHold
  <1>2. CallsHeld(call, b) = Cardinality({c \in Callers : CallHolds(c, b) > 0})
                          + Cardinality({c \in Callers : CallHolds(c, b) > 1})
    BY <1>1 DEF CallsHeld
  <1>3. Count(<<runtime.bridge, runtime.audio_bridge, player.video, player.audio,
               worker.bridge>>, b)
          = One(runtime.bridge, b) + One(runtime.audio_bridge, b) + One(player.video, b)
            + One(player.audio, b) + One(worker.bridge, b)
    BY CountFive
  <1> QED
    BY <1>2, <1>3, Zenon DEF Holders, ThreadsHeld

\* ... and after a step.
LEMMA HoldersNext ==
    ASSUME NEW b
    PROVE  Holders(b)' =
             One(runtime'.bridge, b) + One(runtime'.audio_bridge, b) + One(player'.video, b)
             + One(player'.audio, b) + One(worker'.bridge, b) + InQueue(commands', b)
             + ThreadsHeld(threads', b) + CallsHeld(call', b)
  <1>1. \A c : CallHolds(c, b)' = CallHold(call'[c], b)
    BY DEF CallHolds, CallHold
  <1>2. CallsHeld(call', b) = Cardinality({c \in Callers : CallHolds(c, b)' > 0})
                          + Cardinality({c \in Callers : CallHolds(c, b)' > 1})
    BY <1>1 DEF CallsHeld
  <1>3. Count(<<runtime'.bridge, runtime'.audio_bridge, player'.video, player'.audio,
               worker'.bridge>>, b)
          = One(runtime'.bridge, b) + One(runtime'.audio_bridge, b) + One(player'.video, b)
            + One(player'.audio, b) + One(worker'.bridge, b)
    BY CountFive
  <1> QED
    BY <1>2, <1>3, Zenon DEF Holders, ThreadsHeld

\* A bridge's name is never the 0 that stands for none.
LEMMA BridgesPositive == BridgeIds \subseteq Nat /\ 0 \notin BridgeIds /\ IsFiniteSet(BridgeIds)
  BY MirrorAssumption

\* Two sets that differ in one element at most.
LEMMA OnePoint ==
    ASSUME NEW A, NEW B, NEW x, IsFiniteSet(A), A \ {x} = B \ {x}
    PROVE  /\ IsFiniteSet(B) /\ Cardinality(A) \in Nat /\ Cardinality(B) \in Nat
           /\ Cardinality(B) + (IF x \in A THEN 1 ELSE 0) = Cardinality(A) + (IF x \in B THEN 1 ELSE 0)
  <1> DEFINE C == A \ {x}
  <1>1. IsFiniteSet(C) /\ Cardinality(C) \in Nat /\ x \notin C
    BY FS_RemoveElement, FS_CardinalityType
  <1>2. A = (IF x \in A THEN C \cup {x} ELSE C) /\ B = (IF x \in B THEN C \cup {x} ELSE C)
    OBVIOUS
  <1> HIDE DEF C
  <1>3. /\ IsFiniteSet(A) /\ Cardinality(A) = Cardinality(C) + (IF x \in A THEN 1 ELSE 0)
    BY <1>1, <1>2, FS_AddElement
  <1>4. /\ IsFiniteSet(B) /\ Cardinality(B) = Cardinality(C) + (IF x \in B THEN 1 ELSE 0)
    BY <1>1, <1>2, FS_AddElement
  <1> QED
    BY <1>1, <1>3, <1>4

\* What a call holds.
LEMMA CallHoldIs ==
    ASSUME NEW k \in CallStates, NEW b
    PROVE  /\ CallHold(k, b) \in 0 .. 2
           /\ k.at \in {"opening", "audio_opening"} =>
                 CallHold(k, b) = One(k.bridge, b) + One(k.audio_bridge, b)
           /\ k.at \in {"cancel", "join"} =>
                 CallHold(k, b) = One(k.bridges[1], b) + One(k.bridges[2], b)
           /\ k.at \notin {"opening", "audio_opening", "cancel", "join"} => CallHold(k, b) = 0
  <1>1. \A x : One(x, b) \in 0 .. 1
    BY DEF One
  <1>2. CASE k.at \in {"opening", "audio_opening"}
    <2>1. CallHold(k, b) = Count(<<k.bridge, k.audio_bridge>>, b)
      BY <1>2 DEF CallHold
    <2>2. Count(<<k.bridge, k.audio_bridge>>, b) = One(k.bridge, b) + One(k.audio_bridge, b)
      BY CountTwo
    <2> QED
      BY <1>1, <1>2, <2>1, <2>2
  <1>3. CASE k.at \in {"cancel", "join"}
    <2>1. CallHold(k, b) = Count(k.bridges, b)
      BY <1>3 DEF CallHold
    <2>2. k \in Stops
      BY <1>3 DEF CallStates, Plain, Opens, Claims
    <2>3. k.bridges = <<k.bridges[1], k.bridges[2]>>
      BY <2>2 DEF Stops
    <2>4. Count(<<k.bridges[1], k.bridges[2]>>, b) = One(k.bridges[1], b) + One(k.bridges[2], b)
      BY CountTwo
    <2>5. CallHold(k, b) = One(k.bridges[1], b) + One(k.bridges[2], b)
      BY <2>1, <2>3, <2>4, Zenon
    <2> QED
      BY <1>1, <1>3, <2>5
  <1>4. CASE k.at \notin {"opening", "audio_opening", "cancel", "join"}
    BY <1>4 DEF CallHold
  <1> QED
    BY <1>2, <1>3, <1>4

\* A caller moves on: only its own references count anew.
CallMoves(f, g, who, k) ==
    /\ f \in [Callers -> CallStates] /\ FewBusy(f) /\ who \in Callers /\ k \in CallStates
    /\ g = [f EXCEPT ![who] = k]
\* When one call moves, what all calls hold changes by what it holds.
LEMMA CallsMove ==
    ASSUME NEW f, NEW g, NEW who, NEW k, CallMoves(f, g, who, k), NEW b
    PROVE  /\ g \in [Callers -> CallStates] /\ FewBusy(g)
           /\ CallsHeld(f, b) \in Nat /\ CallHold(f[who], b) \in Nat /\ CallHold(k, b) \in Nat
           /\ CallsHeld(g, b) = CallsHeld(f, b) - CallHold(f[who], b) + CallHold(k, b)
           /\ \A c \in Callers : CallHold(f[c], b) <= CallsHeld(f, b)
  <1> DEFINE Busy(h) == {c \in Callers : h[c].at # "idle"}
             Some(h) == {c \in Callers : CallHold(h[c], b) > 0}
             Two(h) == {c \in Callers : CallHold(h[c], b) > 1}
  <1>0. f \in [Callers -> CallStates] /\ FewBusy(f) /\ who \in Callers /\ k \in CallStates
    BY DEF CallMoves
  <1>1. g \in [Callers -> CallStates] /\ g[who] = k /\ \A c \in Callers \ {who} : g[c] = f[c]
    BY DEF CallMoves
  <1>2. Busy(f) \ {who} = Busy(g) \ {who}
    BY <1>1
  <1>3. Some(f) \ {who} = Some(g) \ {who}
    BY <1>1
  <1>4. Two(f) \ {who} = Two(g) \ {who}
    BY <1>1
  <1>5. Some(f) \in SUBSET Busy(f) /\ Two(f) \in SUBSET Busy(f)
    <2>1. \A c \in Callers : f[c].at = "idle" => CallHold(f[c], b) = 0
      BY <1>0 DEF CallHold
    <2> QED
      BY <2>1
  <1>6. IsFiniteSet(Some(f)) /\ IsFiniteSet(Two(f)) /\ IsFiniteSet(Busy(f))
    BY <1>0, <1>5, FS_Subset DEF FewBusy
  <1>7. IsFiniteSet(Busy(g))
    <2> HIDE DEF Busy
    <2> QED
      BY <1>2, <1>6, OnePoint
  <1>8. /\ Cardinality(Some(f)) \in Nat /\ Cardinality(Some(g)) \in Nat
        /\ Cardinality(Some(g)) + (IF who \in Some(f) THEN 1 ELSE 0)
             = Cardinality(Some(f)) + (IF who \in Some(g) THEN 1 ELSE 0)
    <2> HIDE DEF Some
    <2> QED
      BY <1>3, <1>6, OnePoint
  <1>9. /\ Cardinality(Two(f)) \in Nat /\ Cardinality(Two(g)) \in Nat
        /\ Cardinality(Two(g)) + (IF who \in Two(f) THEN 1 ELSE 0)
             = Cardinality(Two(f)) + (IF who \in Two(g) THEN 1 ELSE 0)
    <2> HIDE DEF Two
    <2> QED
      BY <1>4, <1>6, OnePoint
  <1>10. /\ who \in Some(f) <=> CallHold(f[who], b) > 0
         /\ who \in Some(g) <=> CallHold(k, b) > 0
         /\ who \in Two(f) <=> CallHold(f[who], b) > 1
         /\ who \in Two(g) <=> CallHold(k, b) > 1
    BY <1>0, <1>1
  <1>11. f[who] \in CallStates /\ CallHold(f[who], b) \in 0 .. 2 /\ CallHold(k, b) \in 0 .. 2
    BY <1>0, CallHoldIs
  <1>12. CallsHeld(f, b) = Cardinality(Some(f)) + Cardinality(Two(f))
    BY DEF CallsHeld
  <1>13. CallsHeld(g, b) = Cardinality(Some(g)) + Cardinality(Two(g))
    BY DEF CallsHeld
  <1>14. ASSUME NEW c \in Callers PROVE CallHold(f[c], b) <= CallsHeld(f, b)
    <2>1. CallHold(f[c], b) \in 0 .. 2
      BY <1>0, CallHoldIs
    <2>2. c \in Some(f) => Cardinality(Some(f)) # 0
      BY <1>6, FS_EmptySet
    <2>3. c \in Two(f) => Cardinality(Two(f)) # 0
      BY <1>6, FS_EmptySet
    <2>4. (c \in Some(f) <=> CallHold(f[c], b) > 0) /\ (c \in Two(f) <=> CallHold(f[c], b) > 1)
      OBVIOUS
    <2> HIDE DEF Some, Two
    <2> QED
      BY <1>8, <1>9, <1>12, <2>1, <2>2, <2>3, <2>4
  <1> HIDE DEF Some, Two
  <1>15. CallsHeld(g, b) = CallsHeld(f, b) - CallHold(f[who], b) + CallHold(k, b)
    BY <1>8, <1>9, <1>10, <1>11, <1>12, <1>13
  <1> QED
    BY <1>1, <1>7, <1>8, <1>9, <1>11, <1>12, <1>14, <1>15 DEF FewBusy

\* A callback begins or ends: only its own references count anew.
ThreadMoves(f, g, t, k) ==
    /\ f \in [Streams \X BridgeIds -> ThreadStates] /\ t \in Streams \X BridgeIds
    /\ k \in ThreadStates /\ g = [f EXCEPT ![t] = k]
\* When one thread moves, what all threads hold changes by what it holds.
LEMMA ThreadsMove ==
    ASSUME NEW f, NEW g, NEW t, NEW k, ThreadMoves(f, g, t, k), NEW b
    PROVE  /\ g \in [Streams \X BridgeIds -> ThreadStates] /\ ThreadsHeld(f, b) \in Nat
           /\ ThreadsHeld(g, b) \in Nat
           /\ ThreadsHeld(g, b) + (IF b \in f[t].on THEN 1 ELSE 0)
                = ThreadsHeld(f, b) + (IF b \in k.on THEN 1 ELSE 0)
           /\ \A u \in Streams \X BridgeIds : b \in f[u].on => ThreadsHeld(f, b) >= 1
  <1> DEFINE D == Streams \X BridgeIds
             A == {u \in DOMAIN f : b \in f[u].on}
             B == {u \in DOMAIN g : b \in g[u].on}
  <1>1. /\ g \in [D -> ThreadStates] /\ DOMAIN f = D /\ DOMAIN g = D
        /\ t \in D /\ g[t] = k /\ \A u \in D \ {t} : g[u] = f[u]
    BY DEF ThreadMoves
  <1>2. IsFiniteSet(D)
    <2>1. IsFiniteSet(Streams)
      <3>1. Streams = {"video"} \cup {"audio"}
        BY DEF Streams
      <3> QED
        BY <3>1, FS_Singleton, FS_AddElement
    <2> QED
      BY <2>1, BridgesPositive, FS_Product
  <1>3. A \in SUBSET D /\ A \ {t} = B \ {t}
    BY <1>1
  <1>4. IsFiniteSet(A)
    <2> HIDE DEF A, D
    <2> QED
      BY <1>2, <1>3, FS_Subset
  <1>5. (t \in A <=> b \in f[t].on) /\ (t \in B <=> b \in k.on)
    BY <1>1
  <1>6. ASSUME NEW u \in D, b \in f[u].on PROVE Cardinality(A) # 0
    BY <1>1, <1>4, <1>6, FS_EmptySet
  <1>7. ThreadsHeld(f, b) = Cardinality(A) /\ ThreadsHeld(g, b) = Cardinality(B)
    BY DEF ThreadsHeld
  <1> HIDE DEF A, B
  <1>8. /\ Cardinality(A) \in Nat /\ Cardinality(B) \in Nat
        /\ Cardinality(B) + (IF t \in A THEN 1 ELSE 0) = Cardinality(A) + (IF t \in B THEN 1 ELSE 0)
    BY <1>3, <1>4, OnePoint
  <1>9. ThreadsHeld(g, b) + (IF b \in f[t].on THEN 1 ELSE 0)
          = ThreadsHeld(f, b) + (IF b \in k.on THEN 1 ELSE 0)
    BY <1>5, <1>7, <1>8
  <1>10. \A u \in D : b \in f[u].on => ThreadsHeld(f, b) >= 1
    BY <1>6, <1>7, <1>8
  <1> QED
    BY <1>1, <1>7, <1>8, <1>9, <1>10

\* Threads that hold the same bridges hold as many.
LEMMA ThreadsSame ==
    ASSUME NEW f \in [Streams \X BridgeIds -> ThreadStates],
           NEW g \in [Streams \X BridgeIds -> ThreadStates],
           \A t \in Streams \X BridgeIds : g[t].on = f[t].on, NEW b
    PROVE  ThreadsHeld(g, b) = ThreadsHeld(f, b)
  <1>1. {u \in DOMAIN f : b \in f[u].on} = {u \in DOMAIN g : b \in g[u].on}
    OBVIOUS
  <1> QED
    BY <1>1 DEF ThreadsHeld

-----------------------------------------------------------------------------
(* MirrorControl: the queue. *)

\* The commands, and the bridge each carries.
LEMMA CommandsTyped ==
    ASSUME NEW g \in Nat, NEW b \in Ids, NEW s \in Statuses
    PROVE  /\ LoadCommand(g, b) \in CommandStates /\ AudioCommand(g, b) \in CommandStates
           /\ PlayCommand(g) \in CommandStates /\ StopCommand(g) \in CommandStates
           /\ NotifyCommand(g, s) \in CommandStates
           /\ PlayCommand(g).bridge = 0 /\ StopCommand(g).bridge = 0 /\ NotifyCommand(g, s).bridge = 0
           /\ LoadCommand(g, b).bridge = b /\ AudioCommand(g, b).bridge = b
  <1>1. LoadCommand(g, b) \in Holding /\ AudioCommand(g, b) \in Holding
    BY DEF LoadCommand, AudioCommand, Holding, HoldingTypes
  <1>2. PlayCommand(g) \in Bare /\ StopCommand(g) \in Bare
    BY DEF PlayCommand, StopCommand, Bare, BareTypes, NoBridge
  <1>3. NotifyCommand(g, s) \in Notices
    BY DEF NotifyCommand, Notices, NoBridge
  <1>4. PlayCommand(g).bridge = 0 /\ StopCommand(g).bridge = 0 /\ NotifyCommand(g, s).bridge = 0
    BY DEF PlayCommand, StopCommand, NotifyCommand
  <1>5. LoadCommand(g, b).bridge = b /\ AudioCommand(g, b).bridge = b
    BY DEF LoadCommand, AudioCommand
  <1> QED
    BY <1>1, <1>2, <1>3, <1>4, <1>5 DEF CommandStates

Queues == {q \in Seq(CommandStates) : Len(q) <= QueueCapacity}

\* A command that carries no bridge changes no count.
LEMMA Enqueued ==
    ASSUME NEW q \in Queues, NEW k \in CommandStates
    PROVE  /\ enqueue(q, k) \in Queues
           /\ k.bridge = 0 => \A b \in BridgeIds : InQueue(enqueue(q, k), b) = InQueue(q, b)
  <1>0. QueueCapacity \in Nat
    BY MirrorAssumption
  <1>1. CASE Len(q) = QueueCapacity
    BY <1>1 DEF enqueue
  <1>2. CASE Len(q) # QueueCapacity
    <2>1. enqueue(q, k) = Append(q, k) /\ q \in Seq(CommandStates)
      BY <1>2 DEF enqueue, Queues
    <2>2. Append(q, k) \in Queues
      BY <1>0, <1>2 DEF Queues
    <2>3. ASSUME k.bridge = 0, NEW b \in BridgeIds PROVE InQueue(Append(q, k), b) = InQueue(q, b)
      <3>1. InQueue(q, b) \in Nat /\ InQueue(Append(q, k), b) = InQueue(q, b) + One(k.bridge, b)
        BY <2>1, InQueueAppend
      <3>2. One(k.bridge, b) = 0
        BY <2>3, BridgesPositive DEF One
      <3> QED
        BY <3>1, <3>2
    <2> QED
      BY <2>1, <2>2, <2>3
  <1> QED
    BY <1>1, <1>2

\* A change of status moves no reference.
LEMMA StatusSet ==
    ASSUME NEW q \in Queues, NEW r, r.generation \in Nat, NEW s \in Statuses
    PROVE  /\ set_status(q, r, s) \in Queues
           /\ \A b \in BridgeIds : InQueue(set_status(q, r, s), b) = InQueue(q, b)
  <1> DEFINE k == NotifyCommand(r.generation, s)
  <1>1. k \in CommandStates /\ k.bridge = 0
    <2>1. 0 \in Ids
      BY DEF Ids
    <2> QED
      BY <2>1, CommandsTyped
  <1> HIDE DEF k
  <1>2. /\ enqueue(q, k) \in Queues
        /\ \A b \in BridgeIds : InQueue(enqueue(q, k), b) = InQueue(q, b)
    BY <1>1, Enqueued
  <1> QED
    BY <1>2 DEF set_status, k

-----------------------------------------------------------------------------
(* MirrorControl: steps that move no reference. *)

Special == {"opening", "audio_opening", "cancel", "join"}

\* A call that neither opens nor stops changes no reference and no owner.
LEMMA PlainStep ==
    ASSUME MirrorInv, NEW c \in Callers, NEW k \in CallStates, Step(c, k),
           call[c].at \notin Special, k.at \notin Special
    PROVE  /\ call' \in [Callers -> CallStates] /\ FewCalls'
           /\ \A b : CallsHeld(call', b) = CallsHeld(call, b)
           /\ \A s \in Streams, d \in Callers : Owns(call'[d], s) = Owns(call[d], s)
           /\ BeingCancelled' = BeingCancelled
           /\ call'[c] = k /\ \A d \in Callers \ {c} : call'[d] = call[d]
  <1>1. call \in [Callers -> CallStates] /\ FewBusy(call)
    BY DEF MirrorInv, MirrorTypes, FewCalls
  <1>2. ASSUME NEW b
        PROVE  /\ call' \in [Callers -> CallStates] /\ FewBusy(call')
               /\ CallsHeld(call', b) = CallsHeld(call, b)
    <2>1. /\ call' \in [Callers -> CallStates] /\ FewBusy(call')
          /\ CallsHeld(call, b) \in Nat
          /\ CallsHeld(call', b) = CallsHeld(call, b) - CallHold(call[c], b) + CallHold(k, b)
      <3>1. CallMoves(call, call', c, k)
        BY <1>1 DEF CallMoves, Step
      <3> QED
        BY <3>1, CallsMove
    <2>2. CallHold(call[c], b) = 0 /\ CallHold(k, b) = 0
      <3>1. call[c] \in CallStates
        BY <1>1
      <3> QED
        BY <3>1, CallHoldIs DEF Special
    <2> QED
      BY <2>1, <2>2
  <1>3. \A b : CallsHeld(call', b) = CallsHeld(call, b)
    BY <1>2
  <1>4. call'[c] = k /\ \A d \in Callers \ {c} : call'[d] = call[d]
    BY <1>1 DEF Step
  <1>5. \A s \in Streams : Owns(call[c], s) = 0 /\ Owns(k, s) = 0
    BY DEF Special, Owns
  <1>6. {w \in Callers : call'[w].at = "cancel"} = {w \in Callers : call[w].at = "cancel"}
    BY <1>4 DEF Special
  <1>7. BeingCancelled' = BeingCancelled
    <2>1. c \notin {w \in Callers : call[w].at = "cancel"}
      BY DEF Special
    <2>2. \A w \in {w \in Callers : call[w].at = "cancel"} : call'[w] = call[w]
      BY <1>4, <2>1
    <2> QED
      BY <1>6, <2>2 DEF BeingCancelled
  <1>8. FewCalls'
    BY <1>2 DEF FewCalls
  <1>9. \A s \in Streams, d \in Callers : Owns(call'[d], s) = Owns(call[d], s)
    BY <1>4, <1>5
  <1> QED
    BY <1>2, <1>3, <1>4, <1>7, <1>8, <1>9

\* What calls and threads hold is a natural number.
LEMMA HeldTypes ==
    ASSUME MirrorInv, NEW b
    PROVE  ThreadsHeld(threads, b) \in Nat /\ CallsHeld(call, b) \in Nat
  <1>1. ThreadsHeld(threads, b) \in Nat
    <2>1. CASE BridgeIds = {}
      <3>1. {t \in DOMAIN threads : b \in threads[t].on} = {}
        BY <2>1 DEF MirrorInv, MirrorTypes
      <3> QED
        BY <3>1, FS_EmptySet DEF ThreadsHeld
    <2>2. CASE BridgeIds # {}
      <3>1. PICK x \in BridgeIds : TRUE
        BY <2>2
      <3>2. <<"video", x>> \in Streams \X BridgeIds
        BY DEF Streams
      <3>3. PICK t \in Streams \X BridgeIds : t = <<"video", x>>
        BY <3>2
      <3>4. ThreadMoves(threads, [threads EXCEPT ![t] = threads[t]], t, threads[t])
        BY DEF ThreadMoves, MirrorInv, MirrorTypes
      <3> QED
        BY <3>4, ThreadsMove
    <2> QED
      BY <2>1, <2>2
  <1>2. CallsHeld(call, b) \in Nat
    <2>1. CallMoves(call, [call EXCEPT !["app"] = call["app"]], "app", call["app"])
      BY DEF CallMoves, MirrorInv, MirrorTypes, FewCalls, Callers
    <2> QED
      BY <2>1, CallsMove
  <1> QED
    BY <1>1, <1>2

\* The runtime's streams and who owns them are as they were.
SameStreams ==
    /\ runtime'.mirror = runtime.mirror /\ runtime'.audio = runtime.audio
    /\ runtime'.bridge = runtime.bridge /\ runtime'.audio_bridge = runtime.audio_bridge
    /\ runtime'.session = runtime.session /\ runtime'.generation = runtime.generation
    /\ runtime'.audio_only = runtime.audio_only
    /\ runtime'.opening => runtime.opening
    /\ runtime'.transport = runtime.transport \/ runtime.transport = "none"
    /\ runtime'.load_queued => runtime.load_queued \/ runtime.mirror # 0
SameOwners ==
    /\ \A s \in Streams, d \in Callers : Owns(call'[d], s) = Owns(call[d], s)
    /\ \A d \in Connections :
          /\ runtime'.opening /\ Frees(call[d], d) => call'[d] = call[d] \/ Frees(call[d], d)'
          /\ call'[d].at \in {"opening", "audio_opening"} => call'[d] = call[d]
SameThreads ==
    \A t \in Streams \X BridgeIds :
       /\ threads'[t].live = threads[t].live
       /\ threads'[t].recording => threads[t].recording \/ t \in Receivers

\* With streams, owners and threads unchanged, the links between them hold.
LEMMA LinksKept ==
    ASSUME MirrorInv, MirrorTypes', FewCalls', RefsBalanced', SameStreams, SameOwners, SameThreads,
           TransportInitial', CallsLinked', ThreadsQuiet', WaitsEnd'
    PROVE  MirrorInv'
  <1>1. RuntimeLinked'
    BY DEF MirrorInv, RuntimeLinked, SameStreams
  <1>2. ThreadsOwned'
    <2>1. \A s \in Streams : RuntimeOwns(s)' = RuntimeOwns(s)
      BY DEF RuntimeOwns, SameStreams
    <2>2. \A s \in Streams, b \in BridgeIds : <<s, b>> \in Streams \X BridgeIds
      OBVIOUS
    <2>3. \A s \in Streams, b \in BridgeIds : threads'[<<s, b>>].live = threads[<<s, b>>].live
      BY <2>2 DEF SameThreads
    <2>4. \A s \in Streams, d \in Callers : Owns(call'[d], s) = Owns(call[d], s)
      BY DEF SameOwners
    <2> QED
      BY <2>1, <2>3, <2>4 DEF MirrorInv, ThreadsOwned
  <1>3. OpensQuiet'
    <2> SUFFICES ASSUME NEW c \in Connections, NEW s \in Streams, NEW b,
                        \/ call'[c].at = "opening" /\ s = "video" /\ b = call'[c].bridge
                        \/ call'[c].at = "audio_opening" /\ s = "audio" /\ b = call'[c].audio_bridge
                 PROVE  ~threads'[<<s, b>>].recording
      BY DEF OpensQuiet, Streams
    <2>1. call'[c] = call[c] /\ c \in Callers /\ call[c] \in CallStates
      BY DEF SameOwners, Callers, MirrorInv, MirrorTypes
    <2>2. call[c] \in Opens
      BY <2>1 DEF CallStates, Plain, Opens, Claims, Stops
    <2>3. b # 0 /\ b \in BridgeIds
      BY <2>1, <2>2 DEF MirrorInv, CallsLinked, OpenLinked, Opens, Ids
    <2>4. Owns(call[c], s) = b
      BY <2>1 DEF Owns, Streams
    <2>5. b # RuntimeOwns(s)
      BY <2>1, <2>3, <2>4 DEF MirrorInv, ThreadsOwned
    <2>6. <<s, b>> \notin Receivers
      BY <2>5 DEF Receivers, RuntimeOwns, Streams
    <2>7. ~threads[<<s, b>>].recording
      BY <2>1 DEF MirrorInv, OpensQuiet
    <2>8. <<s, b>> \in Streams \X BridgeIds
      BY <2>3
    <2> QED
      BY <2>6, <2>7, <2>8 DEF SameThreads
  <1>4. OpeningOwned'
    <2> SUFFICES ASSUME runtime'.opening PROVE \E c \in Connections : Frees(call[c], c)'
      BY DEF OpeningOwned
    <2>1. PICK c \in Connections : Frees(call[c], c)
      BY DEF MirrorInv, OpeningOwned, SameStreams
    <2>2. call'[c] = call[c] \/ Frees(call[c], c)'
      BY <2>1 DEF SameOwners
    <2>3. c # "none"
      BY MirrorAssumption
    <2>4. call'[c] = call[c] => Frees(call[c], c)'
      BY <2>1, <2>3 DEF Frees, SameStreams
    <2> QED
      BY <2>2, <2>4
  <1> QED
    BY <1>1, <1>2, <1>3, <1>4 DEF MirrorInv

\* References change with the queue only.
LEMMA BalancedKept ==
    ASSUME MirrorInv, MirrorTypes', \A b \in BridgeIds : CallsHeld(call', b) = CallsHeld(call, b),
           \A b \in BridgeIds : ThreadsHeld(threads', b) = ThreadsHeld(threads, b),
           runtime'.bridge = runtime.bridge, runtime'.audio_bridge = runtime.audio_bridge,
           player' = player, worker'.bridge = worker.bridge,
           \A b \in BridgeIds : refs'[b] = refs[b] + (InQueue(commands', b) - InQueue(commands, b))
    PROVE  RefsBalanced'
  <1> SUFFICES ASSUME NEW b \in BridgeIds PROVE refs'[b] = Holders(b)'
    BY DEF RefsBalanced
  <1> DEFINE rest == One(runtime.bridge, b) + One(runtime.audio_bridge, b) + One(player.video, b)
                     + One(player.audio, b) + One(worker.bridge, b)
             others == ThreadsHeld(threads, b) + CallsHeld(call, b)
  <1>1. refs[b] = Holders(b) /\ InQueue(commands, b) \in Nat /\ InQueue(commands', b) \in Nat
    BY InQueueType DEF MirrorInv, MirrorTypes, QueueTypes, RefsBalanced
  <1>2. rest \in Nat
    BY DEF One
  <1>3. ThreadsHeld(threads, b) \in Int /\ CallsHeld(call, b) \in Int
    BY HeldTypes
  <1> QED
    BY <1>1, <1>2, <1>3, HoldersNow, HoldersNext

\* Receiver threads may only be told to record.
OnlyRecord ==
    \A t \in Streams \X BridgeIds :
       /\ threads'[t].live = threads[t].live /\ threads'[t].on = threads[t].on
       /\ threads'[t].waits = threads[t].waits
       /\ threads[t].recording => threads'[t].recording
       /\ threads'[t].recording => threads[t].recording \/ t \in Receivers

\* Starting or pausing receivers changes only whether they record.
LEMMA RecordingSet ==
    ASSUME MirrorTypes, NEW ts, ts \cap DOMAIN threads \subseteq Receivers, NEW on \in BOOLEAN,
           threads' = set_recording(ts, on)
    PROVE  threads' \in [Streams \X BridgeIds -> ThreadStates] /\ OnlyRecord
  <1>1. threads \in [Streams \X BridgeIds -> ThreadStates] /\ DOMAIN threads = Streams \X BridgeIds
    BY DEF MirrorTypes
  <1>2. \A t \in Streams \X BridgeIds :
           threads'[t] = IF on /\ t \in ts THEN [threads[t] EXCEPT !.recording = TRUE] ELSE threads[t]
    BY <1>1 DEF set_recording
  <1>3. \A t \in Streams \X BridgeIds :
           LET k == [threads[t] EXCEPT !.recording = TRUE]
           IN  /\ k \in ThreadStates /\ k.recording /\ k.live = threads[t].live
               /\ k.on = threads[t].on /\ k.waits = threads[t].waits
    BY <1>1 DEF ThreadStates
  <1>4. threads' \in [Streams \X BridgeIds -> ThreadStates]
    BY <1>1, <1>2, <1>3 DEF set_recording
  <1>5. \A t \in Streams \X BridgeIds : t \in ts => t \in Receivers
    BY <1>1
  <1> QED
    BY <1>2, <1>3, <1>4, <1>5 DEF OnlyRecord

\* A receiver that somebody owns runs.
LEMMA OwnedLives ==
    ASSUME MirrorInv, NEW t \in Receivers
    PROVE  t \in Streams \X BridgeIds /\ threads[t].live
  <1>1. DOMAIN threads = Streams \X BridgeIds
    BY DEF MirrorInv, MirrorTypes
  <1>2. PICK s \in Streams, b \in BridgeIds : t = <<s, b>>
    BY <1>1 DEF Receivers
  <1>3. RuntimeOwns(s) = b
    BY <1>1, <1>2 DEF Receivers, RuntimeOwns, Streams
  <1>4. threads[<<s, b>>].live
    BY <1>3 DEF MirrorInv, ThreadsOwned
  <1> QED
    BY <1>2, <1>4

\* A caller goes from one plain place to another: no reference moves.
LEMMA PlainKept ==
    ASSUME MirrorInv, NEW c \in Callers, NEW k \in CallStates, Step(c, k),
           call[c].at \notin Special, k.at \notin Special,
           call[c].at = "stopped" /\ runtime'.opening => runtime.transport # c,
           c = "app" => k = Idle,
           runtime' \in Runtimes, QueueTypes', refs' \in [BridgeIds -> Int],
           threads' \in [Streams \X BridgeIds -> ThreadStates],
           context' \in [Connections -> ContextStates],
           lease' \in [token : Peers, generation : Nat],
           worker' = worker, player' = player, cancelled' = cancelled,
           SameStreams, OnlyRecord, TransportInitial',
           k.at \in {"open", "audio"} => context'[c].initial,
           \A d \in Connections \ {c} : context'[d].initial = context[d].initial,
           \A b \in BridgeIds : refs'[b] = refs[b] + (InQueue(commands', b) - InQueue(commands, b))
    PROVE  MirrorInv'
  <1>1. /\ call' \in [Callers -> CallStates] /\ FewCalls'
        /\ \A b : CallsHeld(call', b) = CallsHeld(call, b)
        /\ \A s \in Streams, d \in Callers : Owns(call'[d], s) = Owns(call[d], s)
        /\ BeingCancelled' = BeingCancelled
        /\ call'[c] = k /\ \A d \in Callers \ {c} : call'[d] = call[d]
    BY PlainStep
  <1>2. MirrorTypes'
    BY <1>1 DEF MirrorInv, MirrorTypes
  <1>3. RefsBalanced'
    <2>1. \A b \in BridgeIds : ThreadsHeld(threads', b) = ThreadsHeld(threads, b)
      BY ThreadsSame DEF MirrorInv, MirrorTypes, OnlyRecord
    <2> QED
      BY <1>1, <1>2, <2>1, BalancedKept, ZenonT(60) DEF SameStreams
  <1>4. SameOwners
    <2>1. c \in Connections /\ runtime'.opening => ~Frees(call[c], c)
      <3>1. call[c] = Stopped => call[c].at = "stopped"
        BY DEF Stopped
      <3>2. call[c] \notin Stops
        BY DEF Special, Stops
      <3> QED
        BY <3>1, <3>2 DEF Frees, Special
    <2>2. ASSUME NEW d \in Connections,
                 (runtime'.opening /\ Frees(call[d], d)) \/ call'[d].at \in {"opening", "audio_opening"}
          PROVE  call'[d] = call[d]
      BY <1>1, <2>1, <2>2 DEF Special, Callers
    <2> QED
      BY <1>1, <2>2 DEF SameOwners
  <1>5. SameThreads
    BY DEF SameThreads, OnlyRecord
  <1>6. CallsLinked'
    <2>1. call'["app"] \in Plain \cup Stops
      <3>1. Idle \in Plain
        BY DEF Idle, Plain
      <3>2. "app" \in Callers
        BY DEF Callers
      <3> QED
        BY <1>1, <3>1, <3>2 DEF MirrorInv, CallsLinked
    <2>2. ASSUME NEW d \in Connections
          PROVE  /\ call'[d].at \in {"open", "opening", "audio", "audio_opening"} => context'[d].initial
                 /\ OpenLinked(call'[d])
      <3>1. d \in Callers
        BY DEF Callers
      <3>2. CASE d = c
        BY <1>1, <3>2 DEF OpenLinked, Special
      <3>3. CASE d # c
        BY <1>1, <3>1, <3>3 DEF MirrorInv, CallsLinked
      <3> QED
        BY <3>2, <3>3
    <2> QED
      BY <2>1, <2>2 DEF CallsLinked
  <1>7. ThreadsQuiet'
    <2>1. \A t \in Receivers : t \in Streams \X BridgeIds /\ threads[t].live
      BY OwnedLives
    <2> QED
      BY <2>1 DEF MirrorInv, ThreadsQuiet, OnlyRecord
  <1>8. WaitsEnd'
    <2>1. DOMAIN threads = Streams \X BridgeIds /\ DOMAIN threads' = Streams \X BridgeIds
      BY DEF MirrorInv, MirrorTypes
    <2> QED
      BY <1>1, <2>1 DEF MirrorInv, WaitsEnd, OnlyRecord, SameStreams
  <1> QED
    BY <1>1, <1>2, <1>3, <1>4, <1>5, <1>6, <1>7, <1>8, LinksKept

\* What a step leaves alone keeps its part of the invariant.
LEMMA Unmoved ==
    ASSUME MirrorInv
    PROVE  /\ threads' = threads =>
                 threads' \in [Streams \X BridgeIds -> ThreadStates] /\ OnlyRecord
           /\ runtime' = runtime => runtime' \in Runtimes /\ SameStreams
           /\ commands' = commands /\ refs' = refs =>
                 /\ QueueTypes' /\ refs' \in [BridgeIds -> Int]
                 /\ \A b \in BridgeIds : refs'[b] = refs[b] + (InQueue(commands', b) - InQueue(commands, b))
           /\ lease' = lease => lease' \in [token : Peers, generation : Nat]
           /\ context' = context => context' \in [Connections -> ContextStates]
           /\ runtime' = runtime /\ context' = context => TransportInitial'
  <1>1. threads' = threads =>
                 threads' \in [Streams \X BridgeIds -> ThreadStates] /\ OnlyRecord
    BY DEF MirrorInv, MirrorTypes, OnlyRecord
  <1>2. runtime' = runtime => runtime' \in Runtimes /\ SameStreams
    BY DEF MirrorInv, MirrorTypes, SameStreams
  <1>3. ASSUME commands' = commands, refs' = refs
        PROVE  /\ QueueTypes' /\ refs' \in [BridgeIds -> Int]
               /\ \A b \in BridgeIds : refs'[b] = refs[b] + (InQueue(commands', b) - InQueue(commands, b))
    <2>1. QueueTypes' /\ refs \in [BridgeIds -> Int]
      BY <1>3 DEF MirrorInv, MirrorTypes, QueueTypes
    <2>2. \A b \in BridgeIds : InQueue(commands, b) \in Nat
      BY InQueueType DEF MirrorInv, MirrorTypes, QueueTypes
    <2>3. \A b \in BridgeIds : refs[b] = refs[b] + (InQueue(commands, b) - InQueue(commands, b))
      BY <2>1, <2>2
    <2> QED
      BY <1>3, <2>1, <2>3
  <1>4. lease' = lease => lease' \in [token : Peers, generation : Nat]
    BY DEF MirrorInv, MirrorTypes
  <1>5. context' = context => context' \in [Connections -> ContextStates]
    BY DEF MirrorInv, MirrorTypes
  <1>6. runtime' = runtime /\ context' = context => TransportInitial'
    BY DEF MirrorInv, TransportInitial
  <1> QED
    BY <1>1, <1>2, <1>3, <1>4, <1>5, <1>6

\* Records of a call's places.
LEMMA PlacesTyped ==
    ASSUME NEW c \in Connections
    PROVE  /\ Idle \in CallStates /\ [at |-> "failed"] \in CallStates /\ [at |-> "claim"] \in CallStates
           /\ \A todo \in SUBSET Streams, at \in {"open", "audio", "record"} : NewCall(at, todo) \in CallStates
           /\ \A at, todo : NewCall(at, todo).at = at
           /\ Idle.at = "idle" /\ c \in Callers /\ c # "app" /\ c \in Peers /\ c # "none"
  <1>1. Idle \in Plain /\ [at |-> "failed"] \in Plain /\ [at |-> "claim"] \in Plain /\ Idle.at = "idle"
    BY DEF Plain, Idle
  <1>2. \A todo \in SUBSET Streams, at \in {"open", "audio", "record"} : NewCall(at, todo) \in Opens
    BY DEF NewCall, Opens, Ids
  <1>3. \A at, todo : NewCall(at, todo).at = at
    BY DEF NewCall
  <1>4. c \in Callers /\ c # "app" /\ c \in Peers /\ c # "none"
    BY MirrorAssumption DEF Callers, Peers
  <1> QED
    BY <1>1, <1>2, <1>3, <1>4 DEF CallStates

\* The state of a connection is reset, or one of its flags set.
LEMMA ContextsTyped ==
    ASSUME MirrorInv, NEW c \in Connections
    PROVE  /\ FreshContext \in ContextStates /\ ~FreshContext.initial
           /\ [FreshContext EXCEPT !.closed = TRUE] \in ContextStates
           /\ ~[FreshContext EXCEPT !.closed = TRUE].initial
           /\ context \in [Connections -> ContextStates]
  BY DEF MirrorInv, MirrorTypes, FreshContext, ContextStates

\* A SETUP request keeps the invariant.
LEMMA SetupStep ==
    ASSUME MirrorInv, NEW c \in Connections, NEW initial \in BOOLEAN, NEW streams \in SUBSET Streams,
           handle_setup(c, initial, streams)
    PROVE  MirrorInv'
  <1>1. /\ call[c].at = "idle" /\ c \in Callers /\ c # "app" /\ call[c].at \notin Special \cup {"stopped"}
        /\ UNCHANGED <<commands, worker, refs, cancelled, threads, lease, player>>
    BY PlacesTyped DEF handle_setup, Request, Special
  <1>2. CASE (IF initial THEN ~context[c].initial /\ transport_free ELSE context[c].initial)
    <2> DEFINE at == IF "video" \in streams THEN "open" ELSE IF "audio" \in streams THEN "audio" ELSE "record"
               k == NewCall(at, streams)
    <2>1. /\ context' = [context EXCEPT ![c].initial = TRUE]
          /\ runtime' = [runtime EXCEPT !.transport = IF initial THEN c ELSE @] /\ Step(c, k)
      BY <1>2 DEF handle_setup
    <2>2. k \in CallStates /\ k.at \notin Special
      BY PlacesTyped DEF Special
    <2>3. /\ context' \in [Connections -> ContextStates] /\ context'[c].initial
          /\ \A d \in Connections \ {c} : context'[d].initial = context[d].initial
      BY <2>1, ContextsTyped DEF ContextStates
    <2>4. runtime' \in Runtimes /\ SameStreams /\ (runtime'.transport = runtime.transport \/ runtime'.transport = c)
      <3>1. runtime \in Runtimes /\ c \in Peers
        BY PlacesTyped DEF MirrorInv, MirrorTypes
      <3>2. CASE initial
        <4>1. runtime' = [runtime EXCEPT !.transport = c] /\ runtime.transport = "none"
          BY <1>2, <2>1, <3>2 DEF transport_free
        <4>2. runtime' \in Runtimes
          BY <3>1, <4>1 DEF Runtimes
        <4> QED
          BY <3>1, <4>1, <4>2 DEF SameStreams, Runtimes
      <3>3. CASE ~initial
        <4>1. runtime' = runtime
          BY <2>1, <3>1, <3>3 DEF Runtimes
        <4> QED
          BY <4>1, Unmoved
      <3> QED
        BY <3>2, <3>3
    <2>5. TransportInitial'
      <3>1. \A d \in Connections : context[d].initial => context'[d].initial
        BY <2>3
      <3>2. runtime.transport \in Connections \cup {"none"}
        BY DEF MirrorInv, MirrorTypes, Runtimes, Peers
      <3> QED
        BY <2>3, <2>4, <3>1, <3>2 DEF MirrorInv, TransportInitial
    <2> HIDE DEF k
    <2> QED
      BY <1>1, <2>1, <2>2, <2>3, <2>4, <2>5, PlainKept, Unmoved
  <1>3. CASE ~(IF initial THEN ~context[c].initial /\ transport_free ELSE context[c].initial)
    <2>1. Step(c, [at |-> "failed"]) /\ context' = context /\ runtime' = runtime
      BY <1>3 DEF handle_setup
    <2>2. PICK k \in CallStates : k = [at |-> "failed"]
      BY PlacesTyped
    <2>3. k.at \notin Special \cup {"open", "audio"} /\ Step(c, k)
      BY <2>1, <2>2 DEF Special
    <2> QED
      BY <1>1, <2>1, <2>3, PlainKept, Unmoved
  <1> QED
    BY <1>2, <1>3

\* A request is refused, or a caller reads the status.
LEMMA RefusedStep ==
    ASSUME MirrorInv, NEW c \in Connections, open_refused(c) \/ audio_refused(c)
    PROVE  MirrorInv'
  <1>1. /\ c \in Callers /\ c # "app" /\ call[c].at \notin Special \cup {"stopped"}
        /\ UNCHANGED <<runtime, commands, worker, refs, cancelled, threads, context, lease, player>>
        /\ Step(c, [at |-> "failed"])
    BY PlacesTyped DEF open_refused, audio_refused, Special
  <1>2. PICK k \in CallStates : k = [at |-> "failed"]
    BY PlacesTyped
  <1>3. k.at \notin Special \cup {"open", "audio"} /\ Step(c, k)
    BY <1>1, <1>2 DEF Special
  <1> QED
    BY <1>1, <1>3, PlainKept, Unmoved

\* So does a RECORD request ...
LEMMA RecordStep ==
    ASSUME MirrorInv, NEW c \in Connections, handle_record(c)
    PROVE  MirrorInv'
  <1>1. /\ c \in Callers /\ c # "app" /\ call[c].at \notin Special \cup {"stopped"}
        /\ UNCHANGED <<runtime, commands, worker, refs, cancelled, threads, lease, player>>
        /\ Step(c, NewCall("record", {})) /\ context' = [context EXCEPT ![c].record = TRUE]
    BY PlacesTyped DEF handle_record, Request, Special
  <1>2. PICK k \in CallStates : k = NewCall("record", {})
    BY PlacesTyped
  <1>3. k.at \notin Special \cup {"open", "audio"} /\ Step(c, k)
    BY <1>1, <1>2, PlacesTyped DEF Special
  <1>4. /\ context' \in [Connections -> ContextStates]
        /\ \A d \in Connections : context'[d].initial = context[d].initial
    BY <1>1, ContextsTyped DEF ContextStates
  <1>5. TransportInitial'
    BY <1>1, <1>4 DEF MirrorInv, TransportInitial, MirrorTypes, Runtimes, Peers
  <1> QED
    BY <1>1, <1>3, <1>4, <1>5, PlainKept, Unmoved

\* The bridges a stop is about to cancel.
Bridges(k) == {k.bridges[i] : i \in 1 .. 2}

\* A caller moves on, whatever it holds.
LEMMA CallChanged ==
    ASSUME MirrorInv, NEW who \in Callers, NEW k \in CallStates, Step(who, k)
    PROVE  /\ call' \in [Callers -> CallStates] /\ FewCalls'
           /\ call'[who] = k /\ \A d \in Callers \ {who} : call'[d] = call[d]
           /\ \A b : /\ CallsHeld(call', b) = CallsHeld(call, b) - CallHold(call[who], b) + CallHold(k, b)
                     /\ CallsHeld(call, b) \in Nat /\ CallHold(call[who], b) \in Nat
                     /\ CallHold(k, b) \in Nat
           /\ call[who].at # "cancel" => BeingCancelled \subseteq BeingCancelled'
           /\ call[who].at = "cancel" => BeingCancelled \subseteq BeingCancelled' \cup Bridges(call[who])
           /\ k.at = "cancel" => Bridges(k) \subseteq BeingCancelled'
  <1>1. call \in [Callers -> CallStates] /\ FewBusy(call) /\ call[who] \in CallStates
    BY DEF MirrorInv, MirrorTypes, FewCalls
  <1>2. CallMoves(call, call', who, k)
    BY <1>1 DEF CallMoves, Step
  <1>3. call'[who] = k /\ \A d \in Callers \ {who} : call'[d] = call[d]
    BY <1>1 DEF Step
  <1>4. ASSUME NEW b
        PROVE  /\ call' \in [Callers -> CallStates] /\ FewBusy(call')
               /\ CallsHeld(call', b) = CallsHeld(call, b) - CallHold(call[who], b) + CallHold(k, b)
               /\ CallsHeld(call, b) \in Nat /\ CallHold(call[who], b) \in Nat
               /\ CallHold(k, b) \in Nat
    BY <1>2, CallsMove
  <1>5. \A x : x \in BeingCancelled <=> \E w \in Callers : call[w].at = "cancel" /\ x \in Bridges(call[w])
    BY DEF BeingCancelled, Bridges
  <1>6. \A x : x \in BeingCancelled' <=> \E w \in Callers : call'[w].at = "cancel" /\ x \in Bridges(call'[w])
    BY DEF BeingCancelled, Bridges
  <1>7. call[who].at # "cancel" => BeingCancelled \subseteq BeingCancelled'
    <2> HIDE DEF BeingCancelled, Bridges
    <2> QED
      BY <1>3, <1>5, <1>6
  <1>8. call[who].at = "cancel" => BeingCancelled \subseteq BeingCancelled' \cup Bridges(call[who])
    BY <1>3, <1>5, <1>6
  <1>9. k.at = "cancel" => Bridges(k) \subseteq BeingCancelled'
    BY <1>3, <1>6
  <1>10. FewCalls'
    BY <1>4 DEF FewCalls
  <1> QED
    BY <1>3, <1>4, <1>7, <1>8, <1>9, <1>10

\* The critical section of a stop, of a session that is there.
LEMMA StopQueue ==
    ASSUME MirrorInv, NEW who, NEW token, stop_applies(token), stop_runtime(who, token, Idle)
    PROVE  /\ QueueTypes' /\ \A b \in BridgeIds : InQueue(commands', b) = InQueue(commands, b)
           /\ runtime' \in Runtimes
           /\ runtime'.mirror = 0 /\ runtime'.audio = 0 /\ runtime'.bridge = 0 /\ runtime'.audio_bridge = 0
           /\ runtime'.transport = "none" /\ runtime'.session = "none" /\ ~runtime'.opening
           /\ ~runtime'.load_queued /\ ~runtime'.audio_only
  <1> DEFINE stop == StopCommand(runtime.generation)
             queue == IF runtime.load_queued THEN enqueue(commands, stop) ELSE commands
             had == runtime.session # "none"
  <1>1. runtime \in Runtimes /\ commands \in Queues /\ runtime.generation \in Nat
    BY DEF MirrorInv, MirrorTypes, QueueTypes, Queues, Runtimes
  <1>2. stop \in CommandStates /\ stop.bridge = 0
    <2>1. 0 \in Ids /\ "ERROR" \in Statuses
      BY DEF Ids, Statuses
    <2> QED
      BY <1>1, <2>1, CommandsTyped
  <1>3. commands' = IF had THEN set_status(queue, runtime, "DISCONNECTED") ELSE queue
    BY DEF stop_runtime
  <1> HIDE DEF stop
  <1>4. queue \in Queues /\ \A b \in BridgeIds : InQueue(queue, b) = InQueue(commands, b)
    BY <1>1, <1>2, Enqueued
  <1> HIDE DEF queue
  <1>5. commands' \in Queues /\ \A b \in BridgeIds : InQueue(commands', b) = InQueue(commands, b)
    <2>1. "DISCONNECTED" \in Statuses
      BY DEF Statuses
    <2> QED
      BY <1>1, <1>3, <1>4, <2>1, StatusSet
  <1>6. QueueTypes'
    BY <1>5 DEF QueueTypes, Queues
  <1> DEFINE first == [runtime EXCEPT !.mirror = 0, !.audio = 0, !.bridge = 0, !.audio_bridge = 0]
             second == [first EXCEPT !.transport = "none", !.session = "none", !.opening = FALSE,
                                     !.recording = FALSE]
             third == [second EXCEPT !.load_queued = FALSE, !.play_queued = FALSE,
                                     !.attach_queued = FALSE, !.audio_only = FALSE]
  <1>7. first \in Runtimes /\ first.mirror = 0 /\ first.audio = 0 /\ first.bridge = 0 /\ first.audio_bridge = 0
        /\ first.status = runtime.status
    <2>1. PICK zero \in Ids : zero = 0
      BY DEF Ids
    <2> QED
      BY <1>1, <2>1 DEF Runtimes
  <1>8. runtime' = [third EXCEPT !.status = IF had THEN "DISCONNECTED" ELSE @]
    BY <1>1 DEF stop_runtime
  <1> HIDE DEF first
  <1>9. /\ second \in Runtimes /\ second.mirror = first.mirror /\ second.audio = first.audio
        /\ second.bridge = first.bridge /\ second.audio_bridge = first.audio_bridge
        /\ second.transport = "none" /\ second.session = "none" /\ second.opening = FALSE
    <2>1. PICK none \in Peers : none = "none"
      BY DEF Peers
    <2> QED
      BY <1>7, <2>1 DEF Runtimes
  <1> HIDE DEF second
  <1>10. /\ third \in Runtimes /\ third.mirror = second.mirror /\ third.audio = second.audio
         /\ third.bridge = second.bridge /\ third.audio_bridge = second.audio_bridge
         /\ third.transport = second.transport /\ third.session = second.session
         /\ third.opening = second.opening /\ ~third.load_queued /\ ~third.audio_only
    BY <1>9 DEF Runtimes
  <1> HIDE DEF third
  <1>11. /\ runtime' \in Runtimes /\ runtime'.mirror = third.mirror /\ runtime'.audio = third.audio
         /\ runtime'.bridge = third.bridge /\ runtime'.audio_bridge = third.audio_bridge
         /\ runtime'.transport = third.transport /\ runtime'.session = third.session
         /\ runtime'.opening = third.opening /\ runtime'.load_queued = third.load_queued
         /\ runtime'.audio_only = third.audio_only
    <2>1. PICK s \in Statuses : s = IF had THEN "DISCONNECTED" ELSE third.status
      BY <1>10 DEF Statuses, Runtimes
    <2>2. runtime' = [third EXCEPT !.status = s]
      BY <1>8, <2>1
    <2> QED
      BY <1>10, <2>2 DEF Runtimes
  <1> QED
    BY <1>5, <1>6, <1>7, <1>9, <1>10, <1>11

\* airplay_mirror_runtime_stop as far as its critical section: what the
\* runtime owned, the caller owns now.
LEMMA StopKept ==
    ASSUME MirrorInv, NEW who \in Callers, call[who].at \notin Special \cup {"stopped"},
           NEW token, stop_runtime(who, token, Idle),
           context' \in [Connections -> ContextStates],
           \A d \in Connections \ {who} : context'[d].initial = context[d].initial,
           runtime.transport \notin {"none", token} => context'[runtime.transport].initial,
           UNCHANGED <<worker, refs, cancelled, threads, lease, player>>
    PROVE  MirrorInv'
  <1>0. Idle \in CallStates /\ Idle.at \notin Special \cup {"open", "audio"}
    BY DEF Idle, CallStates, Plain, Special
  <1>1. CASE ~stop_applies(token)
    <2>1. UNCHANGED <<commands, runtime>> /\ Step(who, Idle)
      BY <1>1 DEF stop_runtime
    <2>2. TransportInitial'
      BY <1>1, <2>1 DEF stop_applies, TransportInitial
    <2>3. /\ threads' \in [Streams \X BridgeIds -> ThreadStates] /\ OnlyRecord
          /\ runtime' \in Runtimes /\ SameStreams /\ QueueTypes' /\ refs' \in [BridgeIds -> Int]
          /\ \A b \in BridgeIds : refs'[b] = refs[b] + (InQueue(commands', b) - InQueue(commands, b))
          /\ lease' \in [token : Peers, generation : Nat]
      BY <2>1, Unmoved
    <2>4. call[who].at \notin Special \cup {"stopped"} /\ worker' = worker /\ player' = player
          /\ cancelled' = cancelled
      OBVIOUS
    <2> QED
      BY <1>0, <2>1, <2>2, <2>3, <2>4, PlainKept
  <1>2. CASE stop_applies(token)
    <2> DEFINE k == [at |-> "cancel", mirror |-> runtime.mirror, audio |-> runtime.audio,
                     bridges |-> <<runtime.bridge, runtime.audio_bridge>>, next |-> Idle]
    <2>1. Step(who, k)
      BY <1>2 DEF stop_runtime
    <2>2. /\ QueueTypes' /\ \A b \in BridgeIds : InQueue(commands', b) = InQueue(commands, b)
          /\ runtime' \in Runtimes
          /\ runtime'.mirror = 0 /\ runtime'.audio = 0 /\ runtime'.bridge = 0 /\ runtime'.audio_bridge = 0
          /\ runtime'.transport = "none" /\ runtime'.session = "none" /\ ~runtime'.opening
          /\ ~runtime'.load_queued /\ ~runtime'.audio_only
      BY <1>2, StopQueue
    <2>3. runtime.mirror \in Ids /\ runtime.audio \in Ids /\ runtime.bridge \in Ids /\ runtime.audio_bridge \in Ids
      BY DEF MirrorInv, MirrorTypes, Runtimes
    <2>4. k \in Stops /\ k \in CallStates /\ k.at = "cancel" /\ k.mirror = runtime.mirror /\ k.audio = runtime.audio
          /\ k.bridges[1] = runtime.bridge /\ k.bridges[2] = runtime.audio_bridge
      BY <2>3 DEF Stops, CallStates
    <2>5. Bridges(k) = {runtime.bridge, runtime.audio_bridge}
      BY <2>4 DEF Bridges
    <2> HIDE DEF k
    <2>6. /\ call' \in [Callers -> CallStates] /\ FewCalls'
          /\ call'[who] = k /\ \A d \in Callers \ {who} : call'[d] = call[d]
          /\ \A b : /\ CallsHeld(call', b) = CallsHeld(call, b) - CallHold(call[who], b) + CallHold(k, b)
                    /\ CallsHeld(call, b) \in Nat /\ CallHold(call[who], b) \in Nat
                    /\ CallHold(k, b) \in Nat
          /\ BeingCancelled \subseteq BeingCancelled'
          /\ Bridges(k) \subseteq BeingCancelled'
      <3>1. call[who].at # "cancel"
        BY DEF Special
      <3> QED
        BY <2>1, <2>4, <3>1, CallChanged
    <2>7. MirrorTypes'
      BY <2>2, <2>6 DEF MirrorInv, MirrorTypes
    <2>8. RefsBalanced'
      <3> SUFFICES ASSUME NEW b \in BridgeIds PROVE refs'[b] = Holders(b)'
        BY DEF RefsBalanced
      <3>1. CallHold(call[who], b) = 0 /\ CallHold(k, b) = One(runtime.bridge, b) + One(runtime.audio_bridge, b)
        <4>1. call[who] \in CallStates /\ call[who].at \notin Special
          BY DEF MirrorInv, MirrorTypes
        <4> QED
          BY <2>4, <4>1, CallHoldIs DEF Special
      <3>2. One(runtime'.bridge, b) = 0 /\ One(runtime'.audio_bridge, b) = 0
        BY <2>2, BridgesPositive DEF One
      <3>3. ThreadsHeld(threads', b) = ThreadsHeld(threads, b) /\ ThreadsHeld(threads, b) \in Nat
        BY HeldTypes
      <3>4. \A x : One(x, b) \in Nat
        BY DEF One
      <3>5. InQueue(commands, b) \in Nat /\ refs[b] = Holders(b)
        BY InQueueType DEF MirrorInv, MirrorTypes, QueueTypes, RefsBalanced
      <3>6. CallsHeld(call', b) = CallsHeld(call, b) + One(runtime.bridge, b) + One(runtime.audio_bridge, b)
        BY <2>6, <3>1, <3>4
      <3>7. Holders(b)' = One(player.video, b) + One(player.audio, b) + One(worker.bridge, b)
                          + InQueue(commands, b) + ThreadsHeld(threads, b) + CallsHeld(call', b)
        BY <2>2, <3>2, <3>3, <3>4, HoldersNext
      <3>8. CallsHeld(call, b) \in Nat
        BY <2>6
      <3> QED
        BY <3>3, <3>4, <3>5, <3>6, <3>7, <3>8, HoldersNow
    <2>9. RuntimeLinked' /\ TransportInitial' /\ OpeningOwned'
      BY <2>2 DEF RuntimeLinked, TransportInitial, OpeningOwned
    <2>10. CallsLinked'
      <3>1. call'["app"] \in Plain \cup Stops
        <4>1. "app" \in Callers
          BY DEF Callers
        <4> QED
          BY <2>4, <2>6, <4>1 DEF MirrorInv, CallsLinked
      <3>2. ASSUME NEW d \in Connections
            PROVE  /\ call'[d].at \in {"open", "opening", "audio", "audio_opening"} => context'[d].initial
                   /\ OpenLinked(call'[d])
        <4>1. d \in Callers
          BY DEF Callers
        <4>2. CASE d = who
          BY <2>4, <2>6, <4>2 DEF OpenLinked
        <4>3. CASE d # who
          BY <2>6, <4>1, <4>3 DEF MirrorInv, CallsLinked
        <4> QED
          BY <4>2, <4>3
      <3> QED
        BY <3>1, <3>2 DEF CallsLinked
    <2>11. ThreadsOwned'
      <3>1. \A s \in Streams : Owns(call[who], s) = 0 /\ Owns(k, s) = RuntimeOwns(s) /\ RuntimeOwns(s)' = 0
        BY <2>2, <2>4 DEF Owns, RuntimeOwns, Special, Streams
      <3>2. \A s \in Streams, d \in Callers \ {who} : Owns(call'[d], s) = Owns(call[d], s)
        BY <2>6
      <3>3. \A s \in Streams : Owns(call'[who], s) = RuntimeOwns(s)
        BY <2>6, <3>1
      <3>4. \A t : threads'[t].live = threads[t].live
        OBVIOUS
      <3> QED
        BY <3>1, <3>2, <3>3, <3>4, BridgesPositive DEF MirrorInv, ThreadsOwned
    <2>12. ThreadsQuiet' /\ WaitsEnd'
      <3>1. ThreadsQuiet'
        BY DEF MirrorInv, ThreadsQuiet
      <3>2. WaitsEnd'
        BY <2>5, <2>6 DEF MirrorInv, WaitsEnd
      <3> QED
        BY <3>1, <3>2
    <2>13. OpensQuiet'
      <3>1. \A d \in Connections : call'[d].at \in {"opening", "audio_opening"} => call'[d] = call[d]
        BY <2>4, <2>6 DEF Callers
      <3> QED
        BY <3>1 DEF MirrorInv, OpensQuiet
    <2> QED
      BY <2>6, <2>7, <2>8, <2>9, <2>10, <2>11, <2>12, <2>13 DEF MirrorInv
  <1> QED
    BY <1>1, <1>2

\* A call that goes on in place.
LEMMA SamePlace ==
    ASSUME MirrorInv, NEW c \in Callers, call' = call
    PROVE  Step(c, call[c])
  BY DEF Step, MirrorInv, MirrorTypes

\* A connection's state is reset, its request failed or it closed.
LEMMA ResetStep ==
    ASSUME MirrorInv, NEW c \in Connections, fails(c) \/ session_closed(c)
    PROVE  MirrorInv'
  <1>1. PICK fresh \in ContextStates : context' = [context EXCEPT ![c] = fresh] /\ ~fresh.initial
    BY ContextsTyped DEF fails, session_closed
  <1>2. /\ c \in Callers /\ c # "app" /\ call[c].at \notin Special \cup {"stopped"}
        /\ call[c].at \in {"failed", "idle"}
        /\ UNCHANGED <<worker, refs, cancelled, threads, lease, player>>
    BY PlacesTyped DEF fails, session_closed, Special
  <1>3. /\ context' \in [Connections -> ContextStates]
        /\ \A d \in Connections \ {c} : context'[d].initial = context[d].initial
    BY <1>1, ContextsTyped
  <1>4. runtime.transport \notin {"none", c} => context'[runtime.transport].initial
    BY <1>3 DEF MirrorInv, TransportInitial, MirrorTypes, Runtimes, Peers
  <1>5. CASE context[c].initial
    <2>1. stop_runtime(c, c, Idle)
      BY <1>5 DEF fails, session_closed
    <2> QED
      BY <1>2, <1>3, <1>4, <2>1, StopKept
  <1>6. CASE ~context[c].initial
    <2>1. /\ runtime' = runtime /\ commands' = commands
          /\ Step(c, Idle) \/ call' = call
      BY <1>6 DEF fails, session_closed
    <2>2. PICK k \in {Idle, call[c]} : Step(c, k)
      BY <1>2, <2>1, SamePlace
    <2>3. k \in CallStates /\ k.at \notin Special \cup {"open", "audio"}
      BY <1>2, PlacesTyped DEF MirrorInv, MirrorTypes, Special
    <2>4. TransportInitial'
      BY <1>4, <1>6, <2>1 DEF TransportInitial, MirrorInv
    <2>5. /\ threads' \in [Streams \X BridgeIds -> ThreadStates] /\ OnlyRecord
          /\ runtime' \in Runtimes /\ SameStreams /\ QueueTypes' /\ refs' \in [BridgeIds -> Int]
          /\ \A b \in BridgeIds : refs'[b] = refs[b] + (InQueue(commands', b) - InQueue(commands, b))
          /\ lease' \in [token : Peers, generation : Nat]
      BY <1>2, <2>1, Unmoved
    <2> QED
      BY <1>2, <1>3, <2>2, <2>3, <2>4, <2>5, PlainKept
  <1> QED
    BY <1>5, <1>6

\* ... the application's stop ...
LEMMA StopActiveStep ==
    ASSUME MirrorInv, stop_active_media
    PROVE  MirrorInv'
  <1>1. /\ "app" \in Callers /\ call["app"].at \notin Special \cup {"stopped"}
        /\ stop_runtime("app", lease.token, Idle) /\ context' = context
        /\ UNCHANGED <<worker, refs, cancelled, threads, lease, player>>
    BY DEF stop_active_media, Callers, Special
  <1>2. /\ context' \in [Connections -> ContextStates]
        /\ runtime.transport \notin {"none", lease.token} => context'[runtime.transport].initial
        /\ \A d \in Connections \ {"app"} : context'[d].initial = context[d].initial
    BY <1>1, Unmoved DEF MirrorInv, TransportInitial
  <1> QED
    BY <1>1, <1>2, StopKept

\* The integration's claim, and what it does with it.
LEMMA ClaimStep ==
    ASSUME MirrorInv, NEW c \in Connections, NEW ok \in BOOLEAN, mirror_claims(c, ok)
    PROVE  MirrorInv'
  <1>1. /\ c \in Callers /\ c # "app" /\ call[c].at \notin Special \cup {"stopped"}
        /\ UNCHANGED <<worker, refs, cancelled, threads, context, lease, player>>
    BY PlacesTyped DEF mirror_claims, Special
  <1>2. CASE ok /\ runtime.status = "PREPARING" /\ runtime.generation # 0
    <2>1. runtime' = runtime /\ commands' = commands /\ Step(c, [at |-> "claimed", generation |-> runtime.generation])
      BY <1>2 DEF mirror_claims
    <2>2. PICK k \in CallStates : k = [at |-> "claimed", generation |-> runtime.generation]
      BY DEF CallStates, Claims, MirrorInv, MirrorTypes, Runtimes
    <2>3. k.at \notin Special \cup {"open", "audio"} /\ Step(c, k)
      BY <2>1, <2>2 DEF Special
    <2> QED
      BY <1>1, <2>1, <2>3, PlainKept, Unmoved
  <1>3. CASE ~(ok /\ runtime.status = "PREPARING" /\ runtime.generation # 0)
    <2>1. stop_runtime(c, c, Idle)
      BY <1>3 DEF mirror_claims
    <2>2. /\ context' \in [Connections -> ContextStates]
          /\ runtime.transport \notin {"none", c} => context'[runtime.transport].initial
          /\ \A d \in Connections \ {c} : context'[d].initial = context[d].initial
      BY <1>1, Unmoved DEF MirrorInv, TransportInitial
    <2> QED
      BY <1>1, <2>1, <2>2, StopKept
  <1> QED
    BY <1>2, <1>3

\* ... and the status poll after a claim.
LEMMA ObserveStep ==
    ASSUME MirrorInv, NEW c \in Connections, mirror_observes(c)
    PROVE  MirrorInv'
  <1>1. /\ c \in Callers /\ c # "app" /\ call[c].at \notin Special \cup {"stopped"}
        /\ UNCHANGED <<runtime, commands, worker, refs, cancelled, threads, context, player>>
        /\ Step(c, Idle) /\ lease' \in {NoLease, lease}
        /\ Idle \in CallStates /\ Idle.at \notin Special \cup {"open", "audio"}
    BY PlacesTyped DEF mirror_observes, Special
  <1>2. lease' \in [token : Peers, generation : Nat]
    BY <1>1 DEF NoLease, Peers, MirrorInv, MirrorTypes
  <1> QED
    BY <1>1, <1>2, PlainKept, Unmoved

\* The runtime records: the queue takes a reference of its own.
LEMMA MirrorRecordsStep ==
    ASSUME MirrorInv, NEW c \in Connections, mirror_records(c)
    PROVE  MirrorInv'
  <1>1. /\ c \in Callers /\ c # "app" /\ call[c].at \notin Special \cup {"stopped"}
        /\ UNCHANGED <<worker, cancelled, context, player>> /\ call[c].at = "claimed"
        /\ refs' = counted(commands', <<>>, <<>>) /\ runtime_record(c)
        /\ lease' = [token |-> c, generation |-> call[c].generation]
        /\ Step(c, [call[c] EXCEPT !.at = "observe"])
    BY PlacesTyped DEF mirror_records, Special
  <1>2. call[c] \in Claims
    BY <1>1 DEF MirrorInv, MirrorTypes, CallStates, Plain, Opens, Stops
  <1> DEFINE k == [call[c] EXCEPT !.at = "observe"]
  <1>3. k \in CallStates /\ k.at = "observe"
    <2>1. PICK at \in {"claimed", "observe"} : at = "observe"
      OBVIOUS
    <2>2. k = [call[c] EXCEPT !.at = at]
      BY <2>1
    <2>3. k \in Claims
      BY <1>2, <2>2 DEF Claims
    <2>4. k.at = at
      BY <1>2, <2>2 DEF Claims
    <2> QED
      BY <2>1, <2>3, <2>4 DEF CallStates
  <1> HIDE DEF k
  <1>4. k.at \notin Special \cup {"open", "audio"} /\ Step(c, k)
    BY <1>1, <1>3 DEF Special, k
  <1>5. lease' \in [token : Peers, generation : Nat]
    BY <1>1, <1>2, PlacesTyped DEF Claims
  <1>6. /\ runtime' \in Runtimes /\ SameStreams /\ QueueTypes' /\ runtime'.transport = runtime.transport
        /\ threads' \in [Streams \X BridgeIds -> ThreadStates] /\ OnlyRecord
    <2>1. CASE ~(runtime.session = c /\ runtime.bridge # 0 /\ runtime.mirror # 0 /\ ~runtime.load_queued)
      <3>1. UNCHANGED <<commands, runtime, threads>>
        BY <1>1, <2>1 DEF runtime_record
      <3> QED
        BY <3>1, Unmoved DEF MirrorInv, MirrorTypes, QueueTypes
    <2>2. CASE runtime.session = c /\ runtime.bridge # 0 /\ runtime.mirror # 0 /\ ~runtime.load_queued
      <3> DEFINE load == LoadCommand(runtime.generation, runtime.bridge)
                 queue == enqueue(commands, load)
                 room == queue # commands
                 status == IF room THEN "WAITING_KEYFRAME" ELSE "ERROR"
      <3>1. /\ commands' = set_status(queue, runtime, status)
            /\ runtime' = [runtime EXCEPT !.recording = TRUE, !.load_queued = room, !.status = status]
            /\ threads' = set_recording(Receivers, TRUE)
        BY <1>1, <2>2 DEF runtime_record
      <3>2. /\ runtime \in Runtimes /\ commands \in Queues /\ runtime.generation \in Nat
            /\ runtime.bridge \in Ids /\ "ERROR" \in Statuses /\ status \in Statuses /\ room \in BOOLEAN
        BY DEF MirrorInv, MirrorTypes, QueueTypes, Queues, Runtimes, Statuses
      <3>3. load \in CommandStates
        BY <3>2, CommandsTyped
      <3> HIDE DEF load
      <3>4. queue \in Queues
        BY <3>2, <3>3, Enqueued
      <3> HIDE DEF queue, status, room
      <3>5. commands' \in Queues
        BY <3>1, <3>2, <3>4, StatusSet
      <3>6. runtime' \in Runtimes
        BY <3>1, <3>2 DEF Runtimes
      <3>7. SameStreams /\ runtime'.transport = runtime.transport
        BY <2>2, <3>1, <3>2 DEF Runtimes, SameStreams
      <3>8. threads' \in [Streams \X BridgeIds -> ThreadStates] /\ OnlyRecord
        <4>1. MirrorTypes /\ Receivers \cap DOMAIN threads \subseteq Receivers /\ TRUE \in BOOLEAN
          BY DEF MirrorInv
        <4> QED
          BY <3>1, <4>1, RecordingSet
      <3> QED
        BY <3>5, <3>6, <3>7, <3>8 DEF QueueTypes, Queues
    <2> QED
      BY <2>1, <2>2
  <1>7. TransportInitial'
    BY <1>1, <1>6 DEF MirrorInv, TransportInitial
  <1>8. /\ refs' \in [BridgeIds -> Int]
        /\ \A b \in BridgeIds : refs'[b] = refs[b] + (InQueue(commands', b) - InQueue(commands, b))
    <2>1. \A b \in BridgeIds : InQueue(commands, b) \in Nat /\ InQueue(commands', b) \in Nat /\ refs[b] \in Int
      BY <1>6, InQueueType DEF MirrorInv, MirrorTypes, QueueTypes
    <2>2. refs' = [b \in BridgeIds |-> refs[b] + (InQueue(commands', b) - InQueue(commands, b))
                                        + Count(<<>>, b) - Count(<<>>, b)]
      BY <1>1 DEF counted
    <2>3. \A b : Count(<<>>, b) = 0
      BY CountNone
    <2> QED
      BY <2>1, <2>2, <2>3
  <1>9. /\ context' \in [Connections -> ContextStates]
        /\ \A d \in Connections \ {c} : context'[d].initial = context[d].initial
    BY <1>1, Unmoved
  <1> QED
    BY <1>1, <1>3, <1>4, <1>5, <1>6, <1>7, <1>8, <1>9, PlainKept

\* The end of SETUP and RECORD.
LEMMA StartsStep ==
    ASSUME MirrorInv, NEW c \in Connections, starts(c)
    PROVE  MirrorInv'
  <1>1. /\ c \in Callers /\ c # "app" /\ call[c].at \notin Special \cup {"stopped"}
        /\ UNCHANGED <<commands, worker, refs, cancelled, lease, player>>
    BY PlacesTyped DEF starts, Special
  <1>2. /\ context' \in [Connections -> ContextStates]
        /\ \A d \in Connections : context'[d].initial = context[d].initial
    <2>1. \/ context' = context
          \/ \E s \in Streams : context' = [context EXCEPT ![c].started = @ \cup {s}]
      BY DEF starts, Streams
    <2>2. CASE context' = context
      BY <2>2, ContextsTyped
    <2>3. ASSUME NEW s \in Streams, context' = [context EXCEPT ![c].started = @ \cup {s}]
          PROVE  /\ context' \in [Connections -> ContextStates]
                 /\ \A d \in Connections : context'[d].initial = context[d].initial
      <3>1. context[c] \in ContextStates
        BY ContextsTyped
      <3>2. PICK started \in SUBSET Streams : started = context[c].started \cup {s}
        BY <3>1 DEF ContextStates
      <3>3. context' = [context EXCEPT ![c] = [context[c] EXCEPT !.started = started]]
        BY <2>3, <3>2
      <3>4. /\ [context[c] EXCEPT !.started = started] \in ContextStates
            /\ [context[c] EXCEPT !.started = started].initial = context[c].initial
        BY <3>1 DEF ContextStates
      <3> QED
        BY <3>3, <3>4, ContextsTyped
    <2> QED
      BY <2>1, <2>2, <2>3
  <1>3. \E k \in {Idle, [at |-> "failed"], [at |-> "claim"]} : Step(c, k)
    BY DEF starts
  <1>4. PICK k \in CallStates : Step(c, k) /\ k.at \notin Special \cup {"open", "audio"}
    BY <1>3, PlacesTyped DEF Special
  <1>5. /\ runtime' \in Runtimes /\ SameStreams /\ runtime'.transport = runtime.transport
        /\ threads' \in [Streams \X BridgeIds -> ThreadStates] /\ OnlyRecord
    <2>1. CASE runtime' = runtime /\ threads' = threads
      BY <2>1, Unmoved
    <2>2. CASE /\ may_record_audio(c) /\ runtime' = record_audio
               /\ threads' = set_recording({<<"audio", runtime.audio>>}, TRUE)
      <3>1. runtime \in Runtimes
        BY DEF MirrorInv, MirrorTypes
      <3>2. runtime' \in Runtimes /\ SameStreams /\ runtime'.transport = runtime.transport
        <4>1. CASE runtime.mirror # 0
          <5>1. runtime' = runtime
            BY <2>2, <4>1 DEF record_audio
          <5> QED
            BY <5>1, Unmoved
        <4>2. CASE runtime.mirror = 0
          <5>1. runtime' = [runtime EXCEPT !.recording = TRUE, !.load_queued = FALSE, !.play_queued = FALSE]
            BY <2>2, <4>2 DEF record_audio
          <5>2. runtime' \in Runtimes
            BY <3>1, <5>1 DEF Runtimes
          <5> QED
            BY <3>1, <5>1, <5>2 DEF Runtimes, SameStreams
        <4> QED
          BY <4>1, <4>2
      <3>3. MirrorTypes /\ {<<"audio", runtime.audio>>} \cap DOMAIN threads \subseteq Receivers /\ TRUE \in BOOLEAN
        BY DEF MirrorInv, Receivers
      <3> QED
        BY <2>2, <3>2, <3>3, RecordingSet
    <2> QED
      BY <2>1, <2>2 DEF starts
  <1>6. TransportInitial'
    BY <1>2, <1>5 DEF MirrorInv, TransportInitial, MirrorTypes, Runtimes, Peers
  <1> QED
    BY <1>1, <1>2, <1>4, <1>5, <1>6, PlainKept, Unmoved

\* The end of a teardown of streams.
LEMMA StoppedStep ==
    ASSUME MirrorInv, NEW c \in Connections, streams_stopped(c)
    PROVE  MirrorInv'
  <1>1. /\ c \in Callers /\ c # "app" /\ call[c].at \notin Special
        /\ UNCHANGED <<commands, worker, refs, cancelled, threads, context, lease, player>>
        /\ Step(c, Idle) /\ Idle \in CallStates /\ Idle.at \notin Special \cup {"open", "audio"}
        /\ runtime' = [runtime EXCEPT !.opening = @ /\ runtime.transport # c]
    BY PlacesTyped DEF streams_stopped, Special
  <1>2. runtime \in Runtimes
    BY DEF MirrorInv, MirrorTypes
  <1>3. runtime' \in Runtimes
    <2>1. PICK opening \in BOOLEAN : opening = (runtime.opening /\ runtime.transport # c)
      OBVIOUS
    <2>2. runtime' = [runtime EXCEPT !.opening = opening]
      BY <1>1, <1>2, <2>1
    <2> QED
      BY <1>2, <2>2 DEF Runtimes
  <1>4. /\ SameStreams /\ runtime'.transport = runtime.transport
        /\ runtime'.opening => runtime.transport # c
    BY <1>1, <1>2 DEF SameStreams, Runtimes
  <1>5. TransportInitial'
    BY <1>1, <1>4 DEF MirrorInv, TransportInitial
  <1> QED
    BY <1>1, <1>3, <1>4, <1>5, PlainKept, Unmoved

-----------------------------------------------------------------------------
(* MirrorControl: the callbacks and the worker, which make no request. *)

\* With every call where it was, only streams and threads are left to check.
LEMMA CallsStay ==
    ASSUME MirrorInv, call' = call, context' = context, runtime'.transport = runtime.transport,
           SameStreams, MirrorTypes', RefsBalanced', SameThreads, ThreadsQuiet', WaitsEnd'
    PROVE  MirrorInv'
  <1>1. FewCalls' /\ CallsLinked' /\ TransportInitial'
    BY DEF MirrorInv, FewCalls, CallsLinked, TransportInitial
  <1>2. SameOwners
    BY DEF SameOwners
  <1> QED
    BY <1>1, <1>2, LinksKept

\* A receiver thread enters or leaves its callback.
CallbackMoves(t, k) ==
    /\ ThreadMoves(threads, threads', t, k)
    /\ k.live = threads[t].live /\ k.recording = threads[t].recording
    /\ k.recording \/ k.on = {}
    /\ k.waits \subseteq k.on /\ k.waits \subseteq {runtime.bridge, runtime.audio_bridge}
    /\ \A b \in BridgeIds : refs'[b] = refs[b] + (InQueue(commands', b) - InQueue(commands, b))
               + (IF b \in k.on THEN 1 ELSE 0) - (IF b \in threads[t].on THEN 1 ELSE 0)
\* A receiver's callback keeps the invariant if its own part does.
LEMMA CallbackKept ==
    ASSUME MirrorInv, NEW t, NEW k, CallbackMoves(t, k),
           UNCHANGED <<worker, cancelled, context, call, lease, player>>,
           runtime' \in Runtimes, SameStreams, runtime'.transport = runtime.transport,
           QueueTypes', refs' \in [BridgeIds -> Int]
    PROVE  MirrorInv'
  <1>0. /\ t \in Streams \X BridgeIds /\ k \in ThreadStates
        /\ k.live = threads[t].live /\ k.recording = threads[t].recording /\ (k.recording \/ k.on = {})
        /\ k.waits \subseteq k.on /\ k.waits \subseteq {runtime.bridge, runtime.audio_bridge}
    BY DEF CallbackMoves, ThreadMoves
  <1>1. /\ threads \in [Streams \X BridgeIds -> ThreadStates]
        /\ threads' \in [Streams \X BridgeIds -> ThreadStates]
        /\ threads'[t] = k /\ \A u \in (Streams \X BridgeIds) \ {t} : threads'[u] = threads[u]
    BY DEF MirrorInv, MirrorTypes, CallbackMoves, ThreadMoves
  <1>2. MirrorTypes'
    BY <1>1 DEF MirrorInv, MirrorTypes
  <1>3. RefsBalanced'
    <2> SUFFICES ASSUME NEW b \in BridgeIds PROVE refs'[b] = Holders(b)'
      BY DEF RefsBalanced
    <2> DEFINE rest == One(runtime.bridge, b) + One(runtime.audio_bridge, b) + One(player.video, b)
                       + One(player.audio, b) + One(worker.bridge, b)
    <2>1. refs[b] = Holders(b) /\ InQueue(commands, b) \in Nat /\ InQueue(commands', b) \in Nat
      BY InQueueType DEF MirrorInv, MirrorTypes, QueueTypes, RefsBalanced
    <2>2. rest \in Nat
      BY DEF One
    <2>3. ThreadsHeld(threads, b) \in Nat /\ CallsHeld(call, b) \in Nat
      BY HeldTypes
    <2>4. /\ ThreadMoves(threads, threads', t, k)
          /\ refs'[b] = refs[b] + (InQueue(commands', b) - InQueue(commands, b))
               + (IF b \in k.on THEN 1 ELSE 0) - (IF b \in threads[t].on THEN 1 ELSE 0)
      BY DEF CallbackMoves
    <2>5. /\ ThreadsHeld(threads', b) \in Nat
          /\ ThreadsHeld(threads', b) + (IF b \in threads[t].on THEN 1 ELSE 0)
                = ThreadsHeld(threads, b) + (IF b \in k.on THEN 1 ELSE 0)
      BY <2>4, ThreadsMove
    <2>6. Holders(b) = rest + InQueue(commands, b) + ThreadsHeld(threads, b) + CallsHeld(call, b)
      BY HoldersNow
    <2>7. Holders(b)' = rest + InQueue(commands', b) + ThreadsHeld(threads', b) + CallsHeld(call, b)
      BY HoldersNext DEF SameStreams
    <2> HIDE DEF rest
    <2> QED
      BY <2>1, <2>2, <2>3, <2>4, <2>5, <2>6, <2>7
  <1>4. SameThreads
    <2>1. \A u \in Streams \X BridgeIds :
             threads'[u].live = threads[u].live /\ threads'[u].recording = threads[u].recording
      BY <1>0, <1>1
    <2> QED
      BY <2>1 DEF SameThreads
  <1>5. ThreadsQuiet'
    <2> SUFFICES ASSUME NEW u \in Streams \X BridgeIds
                 PROVE  /\ ~threads'[u].live => ~threads'[u].recording
                        /\ ~threads'[u].recording => threads'[u].on = {}
                        /\ threads'[u].waits \subseteq threads'[u].on
      BY DEF ThreadsQuiet
    <2>1. /\ ~threads[u].live => ~threads[u].recording
          /\ ~threads[u].recording => threads[u].on = {}
          /\ threads[u].waits \subseteq threads[u].on
      BY DEF MirrorInv, ThreadsQuiet
    <2>2. CASE u = t
      BY <1>0, <1>1, <2>1, <2>2
    <2>3. CASE u # t
      BY <1>1, <2>1, <2>3
    <2> QED
      BY <2>2, <2>3
  <1>6. WaitsEnd'
    <2>1. BeingCancelled' = BeingCancelled /\ DOMAIN threads' = DOMAIN threads
          /\ DOMAIN threads = Streams \X BridgeIds
      BY <1>1 DEF BeingCancelled
    <2> QED
      BY <1>0, <1>1, <2>1 DEF MirrorInv, WaitsEnd, SameStreams
  <1> QED
    BY <1>2, <1>3, <1>4, <1>5, <1>6, CallsStay

\* A reference taken: refs as counted does it, the queue alone.
LEMMA CountedIs ==
    ASSUME MirrorTypes, NEW queue \in Queues, NEW taken, NEW dropped,
           \A b \in BridgeIds : Count(taken, b) \in Int /\ Count(dropped, b) \in Int
    PROVE  /\ counted(queue, taken, dropped) \in [BridgeIds -> Int]
           /\ \A b \in BridgeIds :
                counted(queue, taken, dropped)[b]
                  = refs[b] + (InQueue(queue, b) - InQueue(commands, b)) + Count(taken, b) - Count(dropped, b)
  <1>1. \A b \in BridgeIds : InQueue(commands, b) \in Nat /\ InQueue(queue, b) \in Nat /\ refs[b] \in Int
    BY InQueueType DEF MirrorTypes, QueueTypes, Queues
  <1> QED
    BY <1>1 DEF counted

\* runtime_video takes its reference on the pictures' bridge.
LEMMA VideoArrivesStep ==
    ASSUME MirrorInv, NEW t \in Streams \X BridgeIds, video_arrives(t)
    PROVE  MirrorInv'
  <1> DEFINE waits == {runtime.bridge}
             on == {runtime.bridge}
             k == [threads[t] EXCEPT !.on = on, !.waits = waits, !.generation = runtime.generation]
  <1>1. /\ threads[t] \in ThreadStates /\ runtime \in Runtimes /\ runtime.generation \in Nat
        /\ threads \in [Streams \X BridgeIds -> ThreadStates]
    BY DEF MirrorInv, MirrorTypes, Runtimes
  <1>2. runtime.bridge \in BridgeIds
    BY <1>1 DEF video_arrives, Runtimes, Ids
  <1>3. on \in SUBSET BridgeIds /\ waits \in SUBSET BridgeIds /\ waits \subseteq on
    BY <1>2
  <1>4. threads' = [threads EXCEPT ![t] = k] /\ threads[t].on = {} /\ threads[t].recording
    BY <1>1 DEF video_arrives
  <1>5. waits \subseteq {runtime.bridge, runtime.audio_bridge}
    OBVIOUS
  <1>6. /\ k \in ThreadStates /\ k.live = threads[t].live /\ k.recording = threads[t].recording
        /\ k.on = on /\ k.waits = waits
    <2> HIDE DEF on, waits
    <2> QED
      BY <1>1, <1>3 DEF ThreadStates
  <1>7. /\ runtime' = runtime /\ commands' = commands /\ refs' = counted(commands, <<runtime.bridge>>, <<>>)
        /\ UNCHANGED <<worker, cancelled, context, call, lease, player>>
    BY DEF video_arrives
  <1>8. /\ refs' \in [BridgeIds -> Int]
        /\ \A b \in BridgeIds : refs'[b] = refs[b] + (InQueue(commands', b) - InQueue(commands, b))
               + (IF b \in on THEN 1 ELSE 0) - (IF b \in threads[t].on THEN 1 ELSE 0)
    <2>1. \A b : Count(<<runtime.bridge>>, b) = One(runtime.bridge, b) /\ Count(<<>>, b) = 0
      BY CountOne, CountNone
    <2>2. \A b : One(runtime.bridge, b) = IF b \in on THEN 1 ELSE 0
      BY DEF One
    <2>3. commands \in Queues /\ MirrorTypes
      BY DEF MirrorInv, MirrorTypes, QueueTypes, Queues
    <2>4. \A b : Count(<<runtime.bridge>>, b) \in Int /\ Count(<<>>, b) \in Int
      BY <2>1 DEF One
    <2>5. /\ refs' \in [BridgeIds -> Int]
          /\ \A b \in BridgeIds : refs'[b] = refs[b] + (InQueue(commands, b) - InQueue(commands, b))
                                             + Count(<<runtime.bridge>>, b) - Count(<<>>, b)
      BY <1>7, <2>3, <2>4, CountedIs
    <2>6. \A b \in BridgeIds : b \notin threads[t].on
      BY <1>4
    <2> QED
      BY <1>7, <2>1, <2>2, <2>5, <2>6
  <1> HIDE DEF k, on, waits
  <1>9. /\ runtime' \in Runtimes /\ SameStreams /\ runtime'.transport = runtime.transport /\ QueueTypes'
        /\ UNCHANGED <<worker, cancelled, context, call, lease, player>>
    BY <1>1, <1>7, Unmoved DEF QueueTypes, MirrorInv, MirrorTypes
  <1>10. ThreadMoves(threads, threads', t, k)
    BY <1>1, <1>4, <1>6 DEF ThreadMoves
  <1>11. CallbackMoves(t, k)
    BY <1>3, <1>4, <1>5, <1>6, <1>8, <1>10 DEF CallbackMoves
  <1> QED
    BY <1>8, <1>9, <1>11, CallbackKept

\* runtime_audio takes its references on one or two bridges.
LEMMA AudioArrivesStep ==
    ASSUME MirrorInv, NEW t \in Streams \X BridgeIds, audio_arrives(t)
    PROVE  MirrorInv'
  <1> DEFINE on == {runtime.bridge, runtime.audio_bridge}
             k == [threads[t] EXCEPT !.on = on, !.waits = on, !.generation = runtime.generation]
  <1>1. /\ threads[t] \in ThreadStates /\ runtime \in Runtimes /\ runtime.generation \in Nat
        /\ threads \in [Streams \X BridgeIds -> ThreadStates]
    BY DEF MirrorInv, MirrorTypes, Runtimes
  <1>2. runtime.bridge \in BridgeIds /\ runtime.audio_bridge \in BridgeIds /\ runtime.bridge # runtime.audio_bridge
    BY <1>1 DEF audio_arrives, Runtimes, Ids, MirrorInv, RuntimeLinked
  <1>3. on \in SUBSET BridgeIds
    BY <1>2
  <1>4. threads' = [threads EXCEPT ![t] = k] /\ threads[t].on = {} /\ threads[t].recording
    BY <1>1 DEF audio_arrives
  <1>5. on \subseteq {runtime.bridge, runtime.audio_bridge}
    OBVIOUS
  <1>6. /\ k \in ThreadStates /\ k.live = threads[t].live /\ k.recording = threads[t].recording
        /\ k.on = on /\ k.waits = on
    <2> HIDE DEF on
    <2> QED
      BY <1>1, <1>3 DEF ThreadStates
  <1>7. /\ runtime' = runtime /\ commands' = commands
        /\ refs' = counted(commands, <<runtime.bridge, runtime.audio_bridge>>, <<>>)
        /\ UNCHANGED <<worker, cancelled, context, call, lease, player>>
    BY DEF audio_arrives
  <1>8. /\ refs' \in [BridgeIds -> Int]
        /\ \A b \in BridgeIds : refs'[b] = refs[b] + (InQueue(commands', b) - InQueue(commands, b))
               + (IF b \in on THEN 1 ELSE 0) - (IF b \in threads[t].on THEN 1 ELSE 0)
    <2> DEFINE pair == <<runtime.bridge, runtime.audio_bridge>>
    <2>1. \A b : Count(pair, b) = One(runtime.bridge, b) + One(runtime.audio_bridge, b) /\ Count(<<>>, b) = 0
      BY CountTwo, CountNone
    <2>2. \A b : One(runtime.bridge, b) + One(runtime.audio_bridge, b) = IF b \in on THEN 1 ELSE 0
      BY <1>2 DEF One
    <2>3. commands \in Queues /\ MirrorTypes
      BY DEF MirrorInv, MirrorTypes, QueueTypes, Queues
    <2> HIDE DEF pair
    <2>4. \A b : Count(pair, b) = (IF b \in on THEN 1 ELSE 0) /\ Count(<<>>, b) = 0
      BY <2>1, <2>2
    <2>5. /\ refs' \in [BridgeIds -> Int]
          /\ \A b \in BridgeIds : refs'[b] = refs[b] + (InQueue(commands, b) - InQueue(commands, b))
                                             + Count(pair, b) - Count(<<>>, b)
      <3>1. refs' = counted(commands, pair, <<>>)
        BY <1>7 DEF pair
      <3> QED
        BY <3>1, <2>3, <2>4, CountedIs
    <2>6. \A b \in BridgeIds : b \notin threads[t].on
      BY <1>4
    <2> QED
      BY <1>7, <2>4, <2>5, <2>6
  <1> HIDE DEF k, on
  <1>9. /\ runtime' \in Runtimes /\ SameStreams /\ runtime'.transport = runtime.transport /\ QueueTypes'
        /\ UNCHANGED <<worker, cancelled, context, call, lease, player>>
    BY <1>1, <1>7, Unmoved DEF QueueTypes, MirrorInv, MirrorTypes
  <1>10. ThreadMoves(threads, threads', t, k)
    BY <1>1, <1>4, <1>6 DEF ThreadMoves
  <1>11. CallbackMoves(t, k)
    BY <1>3, <1>4, <1>5, <1>6, <1>8, <1>10 DEF CallbackMoves
  <1> QED
    BY <1>8, <1>9, <1>11, CallbackKept

\* A receiver thread leaves its callback with nothing in hand.
LEMMA LeavesTyped ==
    ASSUME MirrorInv, NEW t \in Streams \X BridgeIds, NEW k,
           k = [threads[t] EXCEPT !.on = {}, !.waits = {}, !.generation = 0]
    PROVE  /\ k \in ThreadStates /\ k.live = threads[t].live /\ k.recording = threads[t].recording
           /\ k.on = {} /\ k.waits = {}
  <1>1. threads[t] \in ThreadStates
    BY DEF MirrorInv, MirrorTypes
  <1>2. PICK none \in SUBSET BridgeIds : none = {}
    OBVIOUS
  <1>3. PICK zero \in Nat : zero = 0
    OBVIOUS
  <1>4. k = [threads[t] EXCEPT !.on = none, !.waits = none, !.generation = zero]
    BY <1>2, <1>3
  <1>5. /\ k \in ThreadStates /\ k.live = threads[t].live /\ k.recording = threads[t].recording
        /\ k.on = none /\ k.waits = none
    BY <1>1, <1>4 DEF ThreadStates
  <1> QED
    BY <1>2, <1>5

\* runtime_video gives its reference back, pushed or not.
LEMMA VideoPushedStep ==
    ASSUME MirrorInv, NEW t \in Streams \X BridgeIds, NEW pushed \in BOOLEAN, NEW keyframe \in BOOLEAN,
           video_pushed(t, pushed, keyframe)
    PROVE  MirrorInv'
  <1> DEFINE k == [threads[t] EXCEPT !.on = {}, !.waits = {}, !.generation = 0]
             g == threads[t].generation
             current == runtime.generation = g /\ runtime.recording
             play == current /\ pushed /\ keyframe /\ ~runtime.play_queued
             room == Len(commands) < QueueCapacity
             error == current /\ (~pushed \/ (play /\ ~room))
  <1>1. /\ threads[t] \in ThreadStates /\ runtime \in Runtimes /\ runtime.generation \in Nat /\ g \in Nat
        /\ threads \in [Streams \X BridgeIds -> ThreadStates] /\ refs \in [BridgeIds -> Int]
        /\ commands \in Queues
    BY DEF MirrorInv, MirrorTypes, Runtimes, ThreadStates, QueueTypes, Queues
  <1>2. /\ k \in ThreadStates /\ k.live = threads[t].live /\ k.recording = threads[t].recording
        /\ k.on = {} /\ k.waits = {}
    BY LeavesTyped
  <1>3. /\ threads' = [threads EXCEPT ![t] = k]
        /\ UNCHANGED <<worker, cancelled, context, call, lease, player>>
        /\ refs' = [b \in BridgeIds |-> refs[b] - (IF b \in threads[t].on THEN 1 ELSE 0)]
        /\ commands' = IF error THEN set_status(commands, runtime, "ERROR")
                       ELSE IF play THEN enqueue(commands, PlayCommand(g)) ELSE commands
        /\ runtime' = [runtime EXCEPT !.play_queued = @ \/ (play /\ room),
                                      !.status = IF error THEN "ERROR" ELSE @]
    BY <1>1 DEF video_pushed
  <1> HIDE DEF k, current
  <1>4. /\ runtime' \in Runtimes /\ SameStreams /\ runtime'.transport = runtime.transport
    <2>1. PICK queued \in BOOLEAN : queued = (runtime.play_queued \/ (play /\ room))
      OBVIOUS
    <2>2. PICK status \in Statuses : status = IF error THEN "ERROR" ELSE runtime.status
      BY <1>1 DEF Runtimes, Statuses
    <2>3. runtime' = [runtime EXCEPT !.play_queued = queued, !.status = status]
      BY <1>1, <1>3, <2>1, <2>2 DEF Runtimes
    <2>4. runtime' \in Runtimes
      BY <1>1, <2>3 DEF Runtimes
    <2>5. SameStreams /\ runtime'.transport = runtime.transport
      BY <1>1, <2>3 DEF Runtimes, SameStreams
    <2> QED
      BY <2>4, <2>5
  <1>5. commands' \in Queues /\ \A b \in BridgeIds : InQueue(commands', b) = InQueue(commands, b)
    <2>1. 0 \in Ids /\ "ERROR" \in Statuses
      BY DEF Ids, Statuses
    <2>2. PlayCommand(g) \in CommandStates /\ PlayCommand(g).bridge = 0
      BY <1>1, <2>1, CommandsTyped
    <2>3. /\ enqueue(commands, PlayCommand(g)) \in Queues
          /\ \A b \in BridgeIds : InQueue(enqueue(commands, PlayCommand(g)), b) = InQueue(commands, b)
      BY <1>1, <2>2, Enqueued
    <2>4. /\ set_status(commands, runtime, "ERROR") \in Queues
          /\ \A b \in BridgeIds : InQueue(set_status(commands, runtime, "ERROR"), b) = InQueue(commands, b)
      BY <1>1, <2>1, StatusSet
    <2> HIDE DEF error, play
    <2> QED
      BY <1>1, <1>3, <2>3, <2>4, Zenon
  <1>6. QueueTypes' /\ refs' \in [BridgeIds -> Int]
    BY <1>1, <1>3, <1>5 DEF QueueTypes, Queues
  <1>7. ThreadMoves(threads, threads', t, k)
    BY <1>1, <1>2, <1>3 DEF ThreadMoves
  <1>8. \A b \in BridgeIds : refs'[b] = refs[b] + (InQueue(commands', b) - InQueue(commands, b))
               + (IF b \in k.on THEN 1 ELSE 0) - (IF b \in threads[t].on THEN 1 ELSE 0)
    <2>1. \A b \in BridgeIds : InQueue(commands, b) \in Nat /\ b \notin k.on /\ InQueue(commands', b) = InQueue(commands, b)
      BY <1>1, <1>2, <1>5, InQueueType DEF Queues
    <2> QED
      BY <1>1, <1>3, <2>1
  <1>9. CallbackMoves(t, k)
    BY <1>2, <1>7, <1>8 DEF CallbackMoves
  <1> QED
    BY <1>3, <1>4, <1>6, <1>9, CallbackKept

\* runtime_audio gives its references back, and may queue a replacement.
LEMMA AudioPushedStep ==
    ASSUME MirrorInv, NEW t \in Streams \X BridgeIds, NEW pushed \in BOOLEAN, audio_pushed(t, pushed)
    PROVE  MirrorInv'
  <1> DEFINE k == [threads[t] EXCEPT !.on = {}, !.waits = {}, !.generation = 0]
             g == threads[t].generation
             ab == runtime.audio_bridge
             attach == /\ runtime.generation = g /\ runtime.recording /\ ab \in threads[t].on
                       /\ pushed /\ runtime.load_queued /\ ~runtime.attach_queued
             queue == IF attach THEN enqueue(commands, AudioCommand(g, ab)) ELSE commands
  <1>1. /\ threads[t] \in ThreadStates /\ runtime \in Runtimes /\ g \in Nat /\ ab \in Ids
        /\ threads \in [Streams \X BridgeIds -> ThreadStates] /\ refs \in [BridgeIds -> Int]
        /\ commands \in Queues /\ MirrorTypes
    BY DEF MirrorInv, MirrorTypes, Runtimes, ThreadStates, QueueTypes, Queues
  <1>2. /\ k \in ThreadStates /\ k.live = threads[t].live /\ k.recording = threads[t].recording
        /\ k.on = {} /\ k.waits = {}
    BY LeavesTyped
  <1>3. /\ threads' = [threads EXCEPT ![t] = k]
        /\ UNCHANGED <<worker, cancelled, context, call, lease, player>>
        /\ refs' = [b \in BridgeIds |-> counted(queue, <<>>, <<>>)[b] - (IF b \in threads[t].on THEN 1 ELSE 0)]
        /\ commands' = queue
        /\ runtime' = [runtime EXCEPT !.attach_queued = @ \/ queue # commands]
    BY <1>1 DEF audio_pushed
  <1> HIDE DEF k, attach
  <1>4. /\ runtime' \in Runtimes /\ SameStreams /\ runtime'.transport = runtime.transport
    <2>1. PICK queued \in BOOLEAN : queued = (runtime.attach_queued \/ queue # commands)
      OBVIOUS
    <2>3. runtime' = [runtime EXCEPT !.attach_queued = queued]
      BY <1>1, <1>3, <2>1 DEF Runtimes
    <2>4. runtime' \in Runtimes
      BY <1>1, <2>3 DEF Runtimes
    <2>5. SameStreams /\ runtime'.transport = runtime.transport
      BY <1>1, <2>3 DEF Runtimes, SameStreams
    <2> QED
      BY <2>4, <2>5
  <1>5. queue \in Queues
    <2>1. "ERROR" \in Statuses
      BY DEF Statuses
    <2>2. AudioCommand(g, ab) \in CommandStates
      BY <1>1, <2>1, CommandsTyped
    <2>3. enqueue(commands, AudioCommand(g, ab)) \in Queues
      BY <1>1, <2>2, Enqueued
    <2> QED
      BY <1>1, <2>3
  <1> HIDE DEF queue
  <1>6. /\ counted(queue, <<>>, <<>>) \in [BridgeIds -> Int]
        /\ \A b \in BridgeIds : counted(queue, <<>>, <<>>)[b] = refs[b] + (InQueue(queue, b) - InQueue(commands, b))
    <2>1. \A b : Count(<<>>, b) = 0
      BY CountNone
    <2>2. /\ counted(queue, <<>>, <<>>) \in [BridgeIds -> Int]
          /\ \A b \in BridgeIds : counted(queue, <<>>, <<>>)[b]
               = refs[b] + (InQueue(queue, b) - InQueue(commands, b)) + Count(<<>>, b) - Count(<<>>, b)
      BY <1>1, <1>5, <2>1, CountedIs
    <2>3. \A b \in BridgeIds : InQueue(commands, b) \in Nat /\ InQueue(queue, b) \in Nat
      BY <1>1, <1>5, InQueueType DEF Queues
    <2> QED
      BY <1>1, <2>1, <2>2, <2>3
  <1>7. QueueTypes' /\ refs' \in [BridgeIds -> Int]
    BY <1>3, <1>5, <1>6 DEF QueueTypes, Queues
  <1>8. ThreadMoves(threads, threads', t, k)
    BY <1>1, <1>2, <1>3 DEF ThreadMoves
  <1>9. \A b \in BridgeIds : refs'[b] = refs[b] + (InQueue(commands', b) - InQueue(commands, b))
               + (IF b \in k.on THEN 1 ELSE 0) - (IF b \in threads[t].on THEN 1 ELSE 0)
    <2>1. \A b \in BridgeIds : InQueue(commands, b) \in Nat /\ b \notin k.on /\ InQueue(queue, b) \in Nat
      BY <1>1, <1>2, <1>5, InQueueType DEF Queues
    <2> QED
      BY <1>1, <1>3, <1>6, <2>1
  <1>10. CallbackMoves(t, k)
    BY <1>2, <1>8, <1>9 DEF CallbackMoves
  <1> QED
    BY <1>3, <1>4, <1>7, <1>10, CallbackKept

\* The worker takes a command, or is done with one.
LEMMA WorkerKept ==
    ASSUME MirrorInv, UNCHANGED <<threads, cancelled, context, call>>,
           runtime' \in Runtimes, SameStreams, runtime'.transport = runtime.transport,
           QueueTypes', worker' \in Workers, lease' \in [token : Peers, generation : Nat],
           player' \in [video : Ids, audio : Ids], refs' \in [BridgeIds -> Int],
           \A b \in BridgeIds :
              refs'[b] = refs[b] + (InQueue(commands', b) - InQueue(commands, b))
                 + One(player'.video, b) + One(player'.audio, b) + One(worker'.bridge, b)
                 - One(player.video, b) - One(player.audio, b) - One(worker.bridge, b)
    PROVE  MirrorInv'
  <1>1. MirrorTypes' /\ ThreadsQuiet' /\ SameThreads
    BY DEF MirrorInv, MirrorTypes, ThreadsQuiet, SameThreads
  <1>2. RefsBalanced'
    <2> SUFFICES ASSUME NEW b \in BridgeIds PROVE refs'[b] = Holders(b)'
      BY DEF RefsBalanced
    <2>1. refs[b] = Holders(b) /\ InQueue(commands, b) \in Nat /\ InQueue(commands', b) \in Nat
      BY InQueueType DEF MirrorInv, MirrorTypes, QueueTypes, RefsBalanced
    <2>2. \A x : One(x, b) \in Nat
      BY DEF One
    <2>3. ThreadsHeld(threads, b) \in Nat /\ CallsHeld(call, b) \in Nat
      BY HeldTypes
    <2>4. Holders(b)' = One(runtime.bridge, b) + One(runtime.audio_bridge, b) + One(player'.video, b)
             + One(player'.audio, b) + One(worker'.bridge, b) + InQueue(commands', b)
             + ThreadsHeld(threads, b) + CallsHeld(call, b)
      BY HoldersNext DEF SameStreams
    <2>5. Holders(b) = One(runtime.bridge, b) + One(runtime.audio_bridge, b) + One(player.video, b)
             + One(player.audio, b) + One(worker.bridge, b) + InQueue(commands, b)
             + ThreadsHeld(threads, b) + CallsHeld(call, b)
      BY HoldersNow
    <2>6. refs'[b] = refs[b] + (InQueue(commands', b) - InQueue(commands, b))
                 + One(player'.video, b) + One(player'.audio, b) + One(worker'.bridge, b)
                 - One(player.video, b) - One(player.audio, b) - One(worker.bridge, b)
      OBVIOUS
    <2> QED
      BY <2>1, <2>2, <2>3, <2>4, <2>5, <2>6
  <1>3. WaitsEnd'
    BY DEF MirrorInv, WaitsEnd, SameStreams, BeingCancelled
  <1> QED
    BY <1>1, <1>2, <1>3, CallsStay

\* The worker takes a command, and its reference, off the queue.
LEMMA PopsStep ==
    ASSUME MirrorInv, worker_pops
    PROVE  MirrorInv'
  <1>1. /\ UNCHANGED <<threads, cancelled, context, call>> /\ runtime' = runtime /\ lease' = lease
        /\ player' = player /\ refs' = refs /\ worker' = Head(commands) /\ commands' = Tail(commands)
        /\ commands \in Seq(CommandStates) /\ commands # <<>> /\ Len(commands) <= QueueCapacity
        /\ worker = NoCommand
    BY DEF worker_pops, MirrorInv, MirrorTypes, QueueTypes
  <1>2. runtime' \in Runtimes /\ SameStreams /\ runtime'.transport = runtime.transport
    BY <1>1, Unmoved
  <1>3. worker' \in Workers /\ QueueTypes'
    BY <1>1, MirrorAssumption DEF Workers, QueueTypes
  <1>4. /\ lease' \in [token : Peers, generation : Nat] /\ player' \in [video : Ids, audio : Ids]
        /\ refs' \in [BridgeIds -> Int]
    BY <1>1 DEF MirrorInv, MirrorTypes
  <1>5. ASSUME NEW b \in BridgeIds
        PROVE refs'[b] = refs[b] + (InQueue(commands', b) - InQueue(commands, b))
                 + One(player'.video, b) + One(player'.audio, b) + One(worker'.bridge, b)
                 - One(player.video, b) - One(player.audio, b) - One(worker.bridge, b)
    <2>1. /\ InQueue(Tail(commands), b) \in Nat
          /\ InQueue(commands, b) = InQueue(Tail(commands), b) + One(Head(commands).bridge, b)
      BY <1>1, InQueueTail
    <2>2. One(worker.bridge, b) = 0
      BY <1>1, BridgesPositive DEF NoCommand, One
    <2>3. \A x : One(x, b) \in Nat
      BY DEF One
    <2>4. refs[b] \in Int
      BY <1>1, <1>4
    <2> QED
      BY <1>1, <2>1, <2>2, <2>3, <2>4
  <1> QED
    BY <1>1, <1>2, <1>3, <1>4, <1>5, WorkerKept

\* What the worker holds.
LEMMA WorkerTyped ==
    ASSUME MirrorInv, worker.type # "none"
    PROVE  /\ worker.generation \in Nat /\ worker.bridge \in Ids
           /\ worker.type \in {"PLAY", "STOP", "NOTIFY"} => worker.bridge = 0
           /\ worker.type \in HoldingTypes => worker \in Holding
  <1>1. worker \in CommandStates
    BY DEF MirrorInv, MirrorTypes, Workers, NoCommand
  <1>2. worker.generation \in Nat /\ worker.bridge \in Ids
    BY <1>1 DEF CommandStates, Holding, Bare, Notices, Ids, NoBridge
  <1>3. worker.type \in {"PLAY", "STOP", "NOTIFY"} => worker.bridge = 0
    BY <1>1 DEF CommandStates, Holding, Bare, Notices, NoBridge, HoldingTypes
  <1>4. worker.type \in HoldingTypes => worker \in Holding
    BY <1>1 DEF CommandStates, Bare, Notices, HoldingTypes, BareTypes
  <1> QED
    BY <1>2, <1>3, <1>4

\* Completing a command changes the status alone.
LEMMA CommandCompleted ==
    ASSUME MirrorInv, NEW g, NEW ok \in BOOLEAN, NEW success \in Statuses, command_complete(g, ok, success)
    PROVE  /\ runtime' \in Runtimes /\ SameStreams /\ runtime'.transport = runtime.transport
           /\ commands' \in Queues /\ \A b \in BridgeIds : InQueue(commands', b) = InQueue(commands, b)
  <1>1. runtime \in Runtimes /\ runtime.generation \in Nat /\ commands \in Queues
    BY DEF MirrorInv, MirrorTypes, Runtimes, QueueTypes, Queues
  <1>2. CASE ~active(g)
    <2>1. runtime' = runtime /\ commands' = commands
      BY <1>2 DEF command_complete
    <2> QED
      BY <1>1, <2>1, Unmoved
  <1>3. CASE active(g)
    <2>1. PICK status \in Statuses : status = IF ok THEN success ELSE "ERROR"
      BY DEF Statuses
    <2>2. commands' = set_status(commands, runtime, status) /\ runtime' = [runtime EXCEPT !.status = status]
      BY <1>3, <2>1 DEF command_complete
    <2>3. commands' \in Queues /\ \A b \in BridgeIds : InQueue(commands', b) = InQueue(commands, b)
      BY <1>1, <2>2, StatusSet
    <2>4. runtime' \in Runtimes
      BY <1>1, <2>2 DEF Runtimes
    <2>5. SameStreams /\ runtime'.transport = runtime.transport
      BY <1>1, <2>2 DEF SameStreams, Runtimes
    <2> QED
      BY <2>3, <2>4, <2>5
  <1> QED
    BY <1>2, <1>3

\* The player is bound anew, and what the worker releases is dropped.
LEMMA ReboundIs ==
    ASSUME MirrorInv, NEW released, Rebound(released), commands' \in Queues,
           \A b \in BridgeIds : InQueue(commands', b) = InQueue(commands, b)
    PROVE  /\ refs' \in [BridgeIds -> Int]
           /\ \A b \in BridgeIds :
                refs'[b] = refs[b] + (InQueue(commands', b) - InQueue(commands, b))
                 + One(player'.video, b) + One(player'.audio, b)
                 - One(player.video, b) - One(player.audio, b) - One(released, b)
  <1> DEFINE taken == <<player'.video, player'.audio>>
             dropped == <<player.video, player.audio, released>>
  <1>1. refs' = counted(commands', taken, dropped) /\ MirrorTypes
    BY DEF Rebound, MirrorInv
  <1>2. \A b : Count(taken, b) = One(player'.video, b) + One(player'.audio, b)
    BY CountTwo
  <1>3. \A b : Count(dropped, b) = One(player.video, b) + One(player.audio, b) + One(released, b)
    BY CountThree
  <1> HIDE DEF taken, dropped
  <1>4. \A x, b : One(x, b) \in Nat
    BY DEF One
  <1>5. \A b \in BridgeIds : Count(taken, b) \in Int /\ Count(dropped, b) \in Int
    BY <1>2, <1>3, <1>4
  <1>6. /\ refs' \in [BridgeIds -> Int]
        /\ \A b \in BridgeIds :
              refs'[b] = refs[b] + (InQueue(commands', b) - InQueue(commands, b)) + Count(taken, b) - Count(dropped, b)
    BY <1>1, <1>5, CountedIs
  <1>7. \A b \in BridgeIds : InQueue(commands, b) \in Nat /\ InQueue(commands', b) \in Nat /\ refs[b] \in Int
    BY InQueueType DEF MirrorInv, MirrorTypes, QueueTypes, Queues
  <1> QED
    BY <1>2, <1>3, <1>4, <1>6, <1>7

\* The worker drops its command, the player perhaps bound anew.
LEMMA CommandDone ==
    ASSUME MirrorInv, UNCHANGED <<threads, cancelled, context, call, lease>>,
           runtime' \in Runtimes, SameStreams, runtime'.transport = runtime.transport,
           commands' \in Queues, \A b \in BridgeIds : InQueue(commands', b) = InQueue(commands, b),
           worker' = NoCommand, player' \in [video : Ids, audio : Ids],
           NEW released, Rebound(released), \A b \in BridgeIds : One(released, b) = One(worker.bridge, b)
    PROVE  MirrorInv'
  <1>1. /\ refs' \in [BridgeIds -> Int]
        /\ \A b \in BridgeIds :
              refs'[b] = refs[b] + (InQueue(commands', b) - InQueue(commands, b))
               + One(player'.video, b) + One(player'.audio, b)
               - One(player.video, b) - One(player.audio, b) - One(released, b)
    BY ReboundIs
  <1>2. worker' \in Workers /\ \A b \in BridgeIds : One(worker'.bridge, b) = 0
    BY BridgesPositive DEF Workers, NoCommand, One
  <1>3. \A b \in BridgeIds : InQueue(commands, b) \in Nat /\ InQueue(commands', b) \in Nat /\ refs[b] \in Int
    BY InQueueType DEF MirrorInv, MirrorTypes, QueueTypes, Queues
  <1>4. \A x, b : One(x, b) \in Nat
    BY DEF One
  <1>5. ASSUME NEW b \in BridgeIds
        PROVE  refs'[b] = refs[b] + (InQueue(commands', b) - InQueue(commands, b))
                 + One(player'.video, b) + One(player'.audio, b) + One(worker'.bridge, b)
                 - One(player.video, b) - One(player.audio, b) - One(worker.bridge, b)
    <2>1. /\ refs'[b] = refs[b] + (InQueue(commands', b) - InQueue(commands, b))
               + One(player'.video, b) + One(player'.audio, b)
               - One(player.video, b) - One(player.audio, b) - One(released, b)
          /\ One(worker'.bridge, b) = 0 /\ One(released, b) = One(worker.bridge, b)
      BY <1>1, <1>2
    <2> QED
      BY <1>3, <1>4, <2>1
  <1>6. QueueTypes' /\ lease' \in [token : Peers, generation : Nat]
    BY DEF QueueTypes, Queues, MirrorInv, MirrorTypes
  <1> QED
    BY <1>1, <1>2, <1>5, <1>6, WorkerKept

\* A LOAD hands its reference to the player or drops it.
LEMMA ProcessLoadStep ==
    ASSUME MirrorInv, NEW ok \in BOOLEAN, process_load(ok)
    PROVE  MirrorInv'
  <1>1. /\ worker.type = "LOAD" /\ UNCHANGED <<threads, cancelled, context, call, lease>>
        /\ player \in [video : Ids, audio : Ids]
    BY DEF process_load, MirrorInv, MirrorTypes
  <1>2. worker.bridge \in Ids /\ worker \in Holding
    BY <1>1, WorkerTyped DEF HoldingTypes
  <1>3. CASE active(worker.generation) /\ ok /\ lease_for(worker.generation)
    <2>1. /\ player' = [video |-> worker.bridge, audio |-> player.audio] /\ Rebound(0)
          /\ worker' = [worker EXCEPT !.type = "BOUND"] /\ UNCHANGED <<commands, runtime>>
      BY <1>3 DEF process_load, Bound
    <2>2. player' \in [video : Ids, audio : Ids]
      BY <1>1, <1>2, <2>1
    <2>3. worker' \in Workers /\ worker'.bridge = worker.bridge
      <3>1. PICK type \in HoldingTypes : type = "BOUND"
        BY DEF HoldingTypes
      <3>2. worker' = [worker EXCEPT !.type = type]
        BY <2>1, <3>1
      <3>3. worker' \in Holding
        BY <1>2, <3>2 DEF Holding
      <3>4. worker'.bridge = worker.bridge
        BY <1>2, <3>2 DEF Holding
      <3> QED
        BY <3>3, <3>4 DEF Workers, CommandStates
    <2>4. commands' \in Queues /\ \A b \in BridgeIds : InQueue(commands', b) = InQueue(commands, b)
      BY <2>1 DEF MirrorInv, MirrorTypes, QueueTypes, Queues
    <2>5. /\ refs' \in [BridgeIds -> Int]
          /\ \A b \in BridgeIds :
                refs'[b] = refs[b] + (InQueue(commands', b) - InQueue(commands, b))
                 + One(player'.video, b) + One(player'.audio, b)
                 - One(player.video, b) - One(player.audio, b) - One(0, b)
      BY <2>1, <2>4, ReboundIs
    <2>6. ASSUME NEW b \in BridgeIds
          PROVE  refs'[b] = refs[b] + (InQueue(commands', b) - InQueue(commands, b))
                 + One(player'.video, b) + One(player'.audio, b) + One(worker'.bridge, b)
                 - One(player.video, b) - One(player.audio, b) - One(worker.bridge, b)
      <3>1. One(0, b) = 0
        BY BridgesPositive DEF One
      <3>2. \A x : One(x, b) \in Nat
        BY DEF One
      <3>3. refs[b] \in Int /\ InQueue(commands, b) \in Nat /\ InQueue(commands', b) \in Nat
        BY <2>4, InQueueType DEF MirrorInv, MirrorTypes, QueueTypes, Queues
      <3>4. One(worker'.bridge, b) = One(worker.bridge, b)
        BY <2>3
      <3> QED
        BY <2>5, <3>1, <3>2, <3>3, <3>4
    <2>7. /\ runtime' \in Runtimes /\ SameStreams /\ runtime'.transport = runtime.transport /\ QueueTypes'
          /\ lease' \in [token : Peers, generation : Nat]
      BY <1>1, <2>1, <2>4, Unmoved DEF QueueTypes, Queues
    <2> QED
      BY <1>1, <2>2, <2>3, <2>5, <2>6, <2>7, WorkerKept
  <1>4. CASE ~(active(worker.generation) /\ ok /\ lease_for(worker.generation))
    <2>1. /\ worker' = NoCommand /\ command_complete(worker.generation, FALSE, "WAITING_KEYFRAME")
          /\ player' = [video |-> IF active(worker.generation) /\ lease_for(worker.generation)
                                  THEN 0 ELSE player.video, audio |-> player.audio]
          /\ Rebound(worker.bridge)
      BY <1>4 DEF process_load, Bound
    <2>2. player' \in [video : Ids, audio : Ids]
      BY <1>1, <2>1 DEF Ids
    <2>3. /\ runtime' \in Runtimes /\ SameStreams /\ runtime'.transport = runtime.transport
          /\ commands' \in Queues /\ \A b \in BridgeIds : InQueue(commands', b) = InQueue(commands, b)
      <3>1. "WAITING_KEYFRAME" \in Statuses /\ FALSE \in BOOLEAN
        BY DEF Statuses
      <3> QED
        BY <2>1, <3>1, CommandCompleted
    <2> QED
      BY <1>1, <2>1, <2>2, <2>3, CommandDone
  <1> QED
    BY <1>3, <1>4

\* The bound LOAD tells the runtime and nobody else.
LEMMA ProcessBoundStep ==
    ASSUME MirrorInv, NEW ok \in BOOLEAN, process_bound(ok)
    PROVE  MirrorInv'
  <1> DEFINE loaded == ok /\ active(worker.generation) /\ lease_for(worker.generation)
  <1>1. /\ UNCHANGED <<threads, cancelled, context, call, lease>> /\ worker' = NoCommand
        /\ player \in [video : Ids, audio : Ids] /\ Rebound(worker.bridge)
        /\ command_complete(worker.generation, loaded, "WAITING_KEYFRAME")
        /\ player' = [video |-> IF loaded \/ ~lease_for(worker.generation) THEN player.video ELSE 0,
                      audio |-> player.audio]
    BY DEF process_bound, Bound, MirrorInv, MirrorTypes
  <1>2. player' \in [video : Ids, audio : Ids]
    BY <1>1 DEF Ids
  <1>3. /\ runtime' \in Runtimes /\ SameStreams /\ runtime'.transport = runtime.transport
        /\ commands' \in Queues /\ \A b \in BridgeIds : InQueue(commands', b) = InQueue(commands, b)
    <2>1. "WAITING_KEYFRAME" \in Statuses /\ loaded \in BOOLEAN
      BY DEF Statuses
    <2> HIDE DEF loaded
    <2> QED
      BY <1>1, <2>1, CommandCompleted
  <1> QED
    BY <1>1, <1>2, <1>3, CommandDone

\* A STOP takes the player's references.
LEMMA ProcessStopStep ==
    ASSUME MirrorInv, process_stop
    PROVE  MirrorInv'
  <1>1. /\ UNCHANGED <<threads, cancelled, context, call, lease>> /\ worker' = NoCommand
        /\ player \in [video : Ids, audio : Ids] /\ Rebound(0) /\ worker.type = "STOP"
        /\ UNCHANGED <<runtime, commands>>
        /\ player' \in {player, [video |-> 0, audio |-> 0]}
    BY DEF process_stop, Bound, MirrorInv, MirrorTypes
  <1>2. player' \in [video : Ids, audio : Ids] /\ worker.bridge = 0
    BY <1>1, WorkerTyped DEF Ids
  <1>3. /\ runtime' \in Runtimes /\ SameStreams /\ runtime'.transport = runtime.transport
        /\ commands' \in Queues /\ \A b \in BridgeIds : InQueue(commands', b) = InQueue(commands, b)
    BY <1>1, Unmoved DEF MirrorInv, MirrorTypes, QueueTypes, Queues
  <1> QED
    BY <1>1, <1>2, <1>3, CommandDone

\* An AUDIO command replaces the player's sound.
LEMMA ProcessAudioStep ==
    ASSUME MirrorInv, NEW ok \in BOOLEAN, process_audio(ok)
    PROVE  MirrorInv'
  <1>1. /\ UNCHANGED <<threads, cancelled, context, call, lease>> /\ worker' = NoCommand
        /\ player \in [video : Ids, audio : Ids] /\ Rebound(worker.bridge) /\ worker.type = "AUDIO"
        /\ UNCHANGED <<runtime, commands>>
        /\ player' \in {player, [video |-> player.video, audio |-> worker.bridge]}
    BY DEF process_audio, Bound, MirrorInv, MirrorTypes
  <1>2. player' \in [video : Ids, audio : Ids]
    BY <1>1, WorkerTyped
  <1>3. /\ runtime' \in Runtimes /\ SameStreams /\ runtime'.transport = runtime.transport
        /\ commands' \in Queues /\ \A b \in BridgeIds : InQueue(commands', b) = InQueue(commands, b)
    BY <1>1, Unmoved DEF MirrorInv, MirrorTypes, QueueTypes, Queues
  <1> QED
    BY <1>1, <1>2, <1>3, CommandDone

\* PLAY and NOTIFY hold no bridge.
LEMMA ProcessBareStep ==
    ASSUME MirrorInv, process_notify \/ \E ok \in BOOLEAN : process_play(ok)
    PROVE  MirrorInv'
  <1>1. /\ UNCHANGED <<threads, cancelled, context, call, player, refs>> /\ worker' = NoCommand
        /\ worker.type \in {"PLAY", "NOTIFY"}
    BY DEF process_notify, process_play
  <1>2. /\ lease' \in [token : Peers, generation : Nat]
        /\ runtime' \in Runtimes /\ SameStreams /\ runtime'.transport = runtime.transport
        /\ commands' \in Queues /\ \A b \in BridgeIds : InQueue(commands', b) = InQueue(commands, b)
    <2>1. CASE process_notify
      <3>1. runtime' = runtime /\ commands' = commands /\ lease' \in {lease, NoLease}
        BY <2>1 DEF process_notify
      <3>2. lease' \in [token : Peers, generation : Nat]
        BY <3>1 DEF NoLease, Peers, MirrorInv, MirrorTypes
      <3> QED
        BY <3>1, <3>2, Unmoved DEF MirrorInv, MirrorTypes, QueueTypes, Queues
    <2>2. ASSUME NEW ok \in BOOLEAN, process_play(ok)
          PROVE  /\ lease' \in [token : Peers, generation : Nat]
                 /\ runtime' \in Runtimes /\ SameStreams /\ runtime'.transport = runtime.transport
                 /\ commands' \in Queues /\ \A b \in BridgeIds : InQueue(commands', b) = InQueue(commands, b)
      <3>1. PICK played \in BOOLEAN : played = (ok /\ lease_for(worker.generation))
        OBVIOUS
      <3>2. command_complete(worker.generation, played, "PLAYING") /\ lease' = lease
        BY <2>2, <3>1 DEF process_play
      <3>3. "PLAYING" \in Statuses
        BY DEF Statuses
      <3> QED
        BY <3>2, <3>3, CommandCompleted, Unmoved
    <2> QED
      BY <2>1, <2>2
  <1>3. /\ worker.bridge = 0 /\ worker' \in Workers /\ worker'.bridge = 0
        /\ player' \in [video : Ids, audio : Ids] /\ refs' \in [BridgeIds -> Int] /\ QueueTypes'
    BY <1>1, <1>2, WorkerTyped DEF Workers, NoCommand, MirrorInv, MirrorTypes, QueueTypes, Queues
  <1>4. ASSUME NEW b \in BridgeIds
        PROVE  refs'[b] = refs[b] + (InQueue(commands', b) - InQueue(commands, b))
                 + One(player'.video, b) + One(player'.audio, b) + One(worker'.bridge, b)
                 - One(player.video, b) - One(player.audio, b) - One(worker.bridge, b)
    <2>1. InQueue(commands, b) \in Nat /\ refs[b] \in Int /\ InQueue(commands', b) = InQueue(commands, b)
      BY <1>2, InQueueType DEF MirrorInv, MirrorTypes, QueueTypes
    <2>2. \A x : One(x, b) \in Nat
      BY DEF One
    <2> QED
      BY <1>1, <1>3, <2>1, <2>2
  <1> QED
    BY <1>1, <1>2, <1>3, <1>4, WorkerKept

-----------------------------------------------------------------------------
(* MirrorControl: steps of a call that holds references. *)

\* A call that moves keeps the others linked to what they opened.
LEMMA LinkedMoved ==
    ASSUME MirrorInv, NEW who \in Callers, NEW k, call'[who] = k,
           \A d \in Callers \ {who} : call'[d] = call[d],
           who = "app" => k \in Plain \cup Stops, OpenLinked(k),
           k.at \in {"open", "opening", "audio", "audio_opening"} => context'[who].initial,
           \A d \in Connections : context[d].initial => context'[d].initial
    PROVE  CallsLinked'
  <1>1. call'["app"] \in Plain \cup Stops
    <2>1. "app" \in Callers
      BY DEF Callers
    <2> QED
      BY <2>1 DEF MirrorInv, CallsLinked
  <1>2. ASSUME NEW d \in Connections
        PROVE  /\ call'[d].at \in {"open", "opening", "audio", "audio_opening"} => context'[d].initial
               /\ OpenLinked(call'[d])
    <2>1. d \in Callers
      BY DEF Callers
    <2>2. CASE d = who
      BY <2>2
    <2>3. CASE d # who
      BY <2>1, <2>3 DEF MirrorInv, CallsLinked
    <2> QED
      BY <2>2, <2>3
  <1> QED
    BY <1>1, <1>2 DEF CallsLinked

\* References go from the runtime to a call, or back, or are taken or dropped.
LEMMA BalancedMoved ==
    ASSUME MirrorInv, NEW who \in Callers, NEW k \in CallStates, Step(who, k),
           worker' = worker, player' = player,
           \A b \in BridgeIds : InQueue(commands', b) = InQueue(commands, b),
           \A b \in BridgeIds : ThreadsHeld(threads', b) = ThreadsHeld(threads, b),
           \A b \in BridgeIds :
              refs'[b] = refs[b] + One(runtime'.bridge, b) + One(runtime'.audio_bridge, b)
                         - One(runtime.bridge, b) - One(runtime.audio_bridge, b)
                         + CallHold(k, b) - CallHold(call[who], b)
    PROVE  RefsBalanced'
  <1> SUFFICES ASSUME NEW b \in BridgeIds PROVE refs'[b] = Holders(b)'
    BY DEF RefsBalanced
  <1>1. refs[b] = Holders(b) /\ InQueue(commands, b) \in Nat
    BY InQueueType DEF MirrorInv, MirrorTypes, QueueTypes, RefsBalanced
  <1>2. \A x : One(x, b) \in Nat
    BY DEF One
  <1>3. ThreadsHeld(threads, b) \in Nat
    BY HeldTypes
  <1>4. Holders(b)' = One(runtime'.bridge, b) + One(runtime'.audio_bridge, b) + One(player.video, b)
           + One(player.audio, b) + One(worker.bridge, b) + InQueue(commands, b)
           + ThreadsHeld(threads, b) + CallsHeld(call', b)
    BY HoldersNext
  <1>5. Holders(b) = One(runtime.bridge, b) + One(runtime.audio_bridge, b) + One(player.video, b)
           + One(player.audio, b) + One(worker.bridge, b) + InQueue(commands, b)
           + ThreadsHeld(threads, b) + CallsHeld(call, b)
    BY HoldersNow
  <1>6. /\ CallsHeld(call', b) = CallsHeld(call, b) - CallHold(call[who], b) + CallHold(k, b)
        /\ CallsHeld(call, b) \in Nat /\ CallHold(call[who], b) \in Nat
        /\ CallHold(k, b) \in Nat
    BY CallChanged
  <1>7. refs'[b] = refs[b] + One(runtime'.bridge, b) + One(runtime'.audio_bridge, b)
                         - One(runtime.bridge, b) - One(runtime.audio_bridge, b)
                         + CallHold(k, b) - CallHold(call[who], b)
    OBVIOUS
  <1> QED
    BY <1>1, <1>2, <1>3, <1>4, <1>5, <1>6, <1>7

\* Pushes are made to return.
LEMMA CancelsStep ==
    ASSUME MirrorInv, NEW who \in Callers, cancels(who)
    PROVE  MirrorInv'
  <1> DEFINE k == [call[who] EXCEPT !.at = "join"]
  <1>1. /\ UNCHANGED <<runtime, commands, worker, refs, threads, context, lease, player>>
        /\ call[who].at = "cancel" /\ Step(who, k) /\ cancelled' = cancelled \cup (Bridges(call[who]) \ {0})
    BY DEF cancels, Bridges
  <1>2. call[who] \in Stops
    BY <1>1 DEF MirrorInv, MirrorTypes, CallStates, Plain, Opens, Claims
  <1>3. /\ k \in Stops /\ k.at = "join" /\ k.mirror = call[who].mirror /\ k.audio = call[who].audio
        /\ k.bridges = call[who].bridges /\ k.next = call[who].next
    <2>1. PICK at \in {"cancel", "join"} : at = "join"
      OBVIOUS
    <2>2. k = [call[who] EXCEPT !.at = at]
      BY <2>1
    <2> QED
      BY <1>2, <2>1, <2>2 DEF Stops
  <1>4. k \in CallStates
    BY <1>3 DEF CallStates
  <1> HIDE DEF k
  <1>5. /\ call' \in [Callers -> CallStates] /\ FewCalls'
        /\ call'[who] = k /\ \A d \in Callers \ {who} : call'[d] = call[d]
        /\ BeingCancelled \subseteq BeingCancelled' \cup Bridges(call[who])
    BY <1>1, <1>4, CallChanged
  <1>6. Bridges(call[who]) \subseteq Ids
    BY <1>2 DEF Bridges, Stops
  <1>7. MirrorTypes'
    BY <1>1, <1>5, <1>6 DEF MirrorInv, MirrorTypes, QueueTypes, Ids
  <1>8. RefsBalanced'
    <2>1. ASSUME NEW b \in BridgeIds
          PROVE  refs'[b] = refs[b] + One(runtime'.bridge, b) + One(runtime'.audio_bridge, b)
                         - One(runtime.bridge, b) - One(runtime.audio_bridge, b)
                         + CallHold(k, b) - CallHold(call[who], b)
      <3>1. CallHold(k, b) = CallHold(call[who], b)
        BY <1>1, <1>3 DEF CallHold
      <3>2. call[who] \in CallStates /\ refs[b] \in Int
        BY DEF MirrorInv, MirrorTypes
      <3>3. CallHold(call[who], b) \in Int
        BY <3>2, CallHoldIs
      <3>4. \A x : One(x, b) \in Int
        BY DEF One
      <3> QED
        BY <1>1, <3>1, <3>2, <3>3, <3>4
    <2> QED
      BY <1>1, <1>4, <2>1, BalancedMoved
  <1>9. SameStreams /\ SameThreads /\ ThreadsQuiet' /\ TransportInitial'
    BY <1>1 DEF MirrorInv, SameStreams, SameThreads, ThreadsQuiet, TransportInitial
  <1>10. SameOwners
    <2>1. \A s \in Streams : Owns(k, s) = Owns(call[who], s)
      BY <1>1, <1>3 DEF Owns
    <2>2. who \in Connections /\ Frees(call[who], who) => Frees(call[who], who)'
      <3>1. Frees(call[who], who) => call[who].next = Stopped /\ runtime.transport = who
        BY <1>1 DEF Frees, Stopped
      <3> QED
        BY <1>1, <1>3, <1>5, <3>1 DEF Frees
    <2>3. \A d \in Connections : d \in Callers
      BY DEF Callers
    <2> QED
      BY <1>3, <1>5, <2>1, <2>2, <2>3 DEF SameOwners
  <1>11. CallsLinked'
    <2>1. OpenLinked(k) /\ k.at \notin {"open", "opening", "audio", "audio_opening"}
      BY <1>3 DEF OpenLinked
    <2> QED
      BY <1>1, <1>3, <1>5, <2>1, LinkedMoved
  <1>12. WaitsEnd'
    <2>1. \A t \in DOMAIN threads : 0 \notin threads[t].waits
      BY BridgesPositive DEF MirrorInv, MirrorTypes, ThreadStates
    <2> QED
      BY <1>1, <1>5, <2>1 DEF MirrorInv, WaitsEnd
  <1> QED
    BY <1>5, <1>7, <1>8, <1>9, <1>10, <1>11, <1>12, LinksKept

\* The receiver threads of a stop are joined, and its bridges released.
LEMMA JoinsStep ==
    ASSUME MirrorInv, NEW who \in Callers, joins(who)
    PROVE  MirrorInv'
  <1> DEFINE k == call[who].next
             gone == Removed(who)
  <1>1. /\ UNCHANGED <<runtime, commands, worker, cancelled, context, lease, player>>
        /\ call[who].at = "join" /\ Step(who, k) /\ \A t \in gone : threads[t].on = {}
        /\ threads' = [t \in DOMAIN threads |-> IF t \in gone THEN NoThread ELSE threads[t]]
        /\ refs' = counted(commands, <<>>, call[who].bridges)
    BY DEF joins
  <1>2. call[who] \in Stops /\ call[who] \in CallStates
    BY <1>1 DEF MirrorInv, MirrorTypes, CallStates, Plain, Opens, Claims
  <1>3. k \in {Idle, Stopped} /\ k \in Plain /\ k \in CallStates /\ k.at \in {"idle", "stopped"}
    BY <1>2 DEF Stops, Idle, Stopped, Plain, CallStates
  <1>4. \A s \in Streams, b \in BridgeIds : <<s, b>> \in gone <=> Owns(call[who], s) = b
    <2>1. DOMAIN threads = Streams \X BridgeIds
      BY DEF MirrorInv, MirrorTypes
    <2> QED
      BY <1>1, <2>1, BridgesPositive DEF Removed, Owns, Streams
  <1> HIDE DEF k, gone
  <1>5. /\ call' \in [Callers -> CallStates] /\ FewCalls'
        /\ call'[who] = k /\ \A d \in Callers \ {who} : call'[d] = call[d]
        /\ BeingCancelled \subseteq BeingCancelled'
    BY <1>1, <1>3, CallChanged
  <1>6. /\ threads \in [Streams \X BridgeIds -> ThreadStates] /\ DOMAIN threads = Streams \X BridgeIds
        /\ threads' \in [Streams \X BridgeIds -> ThreadStates]
        /\ \A t \in Streams \X BridgeIds :
              threads'[t].on = threads[t].on /\ (threads'[t] = threads[t] \/ threads'[t] = NoThread)
    <2>1. threads \in [Streams \X BridgeIds -> ThreadStates] /\ DOMAIN threads = Streams \X BridgeIds
      BY DEF MirrorInv, MirrorTypes
    <2>2. NoThread \in ThreadStates /\ NoThread.on = {}
      BY DEF NoThread, ThreadStates
    <2> QED
      BY <1>1, <2>1, <2>2
  <1>7. /\ refs' \in [BridgeIds -> Int]
        /\ \A b \in BridgeIds : refs'[b] = refs[b] - CallHold(call[who], b)
    <2> DEFINE bs == call[who].bridges
    <2>1. \A b \in BridgeIds : Count(bs, b) = CallHold(call[who], b) /\ CallHold(call[who], b) \in 0 .. 2
      BY <1>1, <1>2, CallHoldIs DEF CallHold
    <2>2. \A b : Count(<<>>, b) = 0
      BY CountNone
    <2>3. commands \in Queues /\ MirrorTypes
      BY DEF MirrorInv, MirrorTypes, QueueTypes, Queues
    <2> HIDE DEF bs
    <2>4. /\ refs' \in [BridgeIds -> Int]
          /\ \A b \in BridgeIds : refs'[b] = refs[b] + (InQueue(commands, b) - InQueue(commands, b))
                                             + Count(<<>>, b) - Count(bs, b)
      <3>1. refs' = counted(commands, <<>>, bs)
        BY <1>1 DEF bs
      <3>2. \A b \in BridgeIds : Count(bs, b) \in Int /\ Count(<<>>, b) \in Int
        BY <2>1, <2>2
      <3> QED
        BY <2>3, <3>1, <3>2, CountedIs
    <2>5. \A b \in BridgeIds : InQueue(commands, b) \in Nat /\ refs[b] \in Int
      BY InQueueType DEF MirrorInv, MirrorTypes, QueueTypes
    <2> QED
      BY <2>1, <2>2, <2>4, <2>5
  <1>8. MirrorTypes'
    BY <1>1, <1>5, <1>6, <1>7 DEF MirrorInv, MirrorTypes, QueueTypes
  <1>9. RefsBalanced'
    <2>1. \A b \in BridgeIds : ThreadsHeld(threads', b) = ThreadsHeld(threads, b)
      BY <1>6, ThreadsSame
    <2>2. ASSUME NEW b \in BridgeIds
          PROVE  refs'[b] = refs[b] + One(runtime'.bridge, b) + One(runtime'.audio_bridge, b)
                         - One(runtime.bridge, b) - One(runtime.audio_bridge, b)
                         + CallHold(k, b) - CallHold(call[who], b)
      <3>1. CallHold(k, b) = 0 /\ CallHold(call[who], b) \in 0 .. 2
        BY <1>2, <1>3, CallHoldIs
      <3>2. refs[b] \in Int
        BY DEF MirrorInv, MirrorTypes
      <3>3. \A x : One(x, b) \in Int
        BY DEF One
      <3> QED
        BY <1>1, <1>7, <3>1, <3>2, <3>3
    <2> QED
      BY <1>1, <1>3, <2>1, <2>2, BalancedMoved
  <1>10. RuntimeLinked' /\ TransportInitial'
    BY <1>1 DEF MirrorInv, RuntimeLinked, TransportInitial
  <1>11. CallsLinked'
    <2>1. OpenLinked(k) /\ k.at \notin {"open", "opening", "audio", "audio_opening"}
      BY <1>3 DEF OpenLinked
    <2> QED
      BY <1>1, <1>3, <1>5, <2>1, LinkedMoved
  <1>12. ThreadsOwned'
    <2> SUFFICES ASSUME NEW s \in Streams
                 PROVE  /\ \A b \in BridgeIds :
                              threads'[<<s, b>>].live <=>
                                 RuntimeOwns(s)' = b \/ \E c \in Callers : Owns(call'[c], s) = b
                        /\ \A c \in Callers : Owns(call'[c], s) # 0 =>
                              /\ Owns(call'[c], s) # RuntimeOwns(s)'
                              /\ \A d \in Callers : Owns(call'[d], s) = Owns(call'[c], s) => c = d
      BY DEF ThreadsOwned
    <2>1. RuntimeOwns(s)' = RuntimeOwns(s)
      BY <1>1 DEF RuntimeOwns
    <2>2. Owns(call'[who], s) = 0 /\ \A d \in Callers \ {who} : Owns(call'[d], s) = Owns(call[d], s)
      BY <1>3, <1>5 DEF Owns
    <2>3. /\ \A b \in BridgeIds :
               threads[<<s, b>>].live <=> RuntimeOwns(s) = b \/ \E c \in Callers : Owns(call[c], s) = b
          /\ \A c \in Callers : Owns(call[c], s) # 0 =>
               /\ Owns(call[c], s) # RuntimeOwns(s)
               /\ \A d \in Callers : Owns(call[d], s) = Owns(call[c], s) => c = d
      BY DEF MirrorInv, ThreadsOwned
    <2>4. \A b \in BridgeIds : threads'[<<s, b>>].live <=> threads[<<s, b>>].live /\ Owns(call[who], s) # b
      BY <1>1, <1>4, <1>6 DEF NoThread
    <2> HIDE DEF Owns, RuntimeOwns
    <2>5. ASSUME NEW b \in BridgeIds
          PROVE  threads'[<<s, b>>].live <=> RuntimeOwns(s)' = b \/ \E c \in Callers : Owns(call'[c], s) = b
      <3>1. b # 0
        BY BridgesPositive
      <3>2. CASE Owns(call[who], s) = b
        BY <2>1, <2>2, <2>3, <2>4, <3>1, <3>2
      <3>3. CASE Owns(call[who], s) # b
        BY <2>1, <2>2, <2>3, <2>4, <3>1, <3>3
      <3> QED
        BY <3>2, <3>3
    <2>6. ASSUME NEW c \in Callers, Owns(call'[c], s) # 0
          PROVE  /\ Owns(call'[c], s) # RuntimeOwns(s)'
                 /\ \A d \in Callers : Owns(call'[d], s) = Owns(call'[c], s) => c = d
      BY <2>1, <2>2, <2>3, <2>6
    <2> QED
      BY <2>5, <2>6
  <1>13. ThreadsQuiet'
    BY <1>6 DEF MirrorInv, ThreadsQuiet, NoThread
  <1>14. OpensQuiet'
    <2> SUFFICES ASSUME NEW c \in Connections, NEW s \in Streams, NEW b,
                        \/ call'[c].at = "opening" /\ s = "video" /\ b = call'[c].bridge
                        \/ call'[c].at = "audio_opening" /\ s = "audio" /\ b = call'[c].audio_bridge
                 PROVE  ~threads'[<<s, b>>].recording
      BY DEF OpensQuiet, Streams
    <2>1. c \in Callers /\ c # who
      BY <1>3, <1>5 DEF Callers
    <2>2. call'[c] = call[c] /\ call[c] \in CallStates
      BY <1>5, <2>1 DEF MirrorInv, MirrorTypes
    <2>3. call[c] \in Opens
      BY <2>2 DEF CallStates, Plain, Opens, Claims, Stops
    <2>4. b \in BridgeIds
      BY <2>2, <2>3 DEF MirrorInv, CallsLinked, OpenLinked, Opens, Ids
    <2>5. ~threads[<<s, b>>].recording
      BY <2>2 DEF MirrorInv, OpensQuiet
    <2>6. <<s, b>> \in Streams \X BridgeIds
      BY <2>4
    <2> QED
      BY <1>6, <2>5, <2>6 DEF NoThread
  <1>15. WaitsEnd'
    <2>1. \A t \in Streams \X BridgeIds : threads'[t].waits \subseteq threads[t].waits
      BY <1>6 DEF NoThread
    <2>2. DOMAIN threads' = Streams \X BridgeIds
      BY <1>6
    <2> QED
      BY <1>1, <1>5, <1>6, <2>1, <2>2 DEF MirrorInv, WaitsEnd
  <1>16. OpeningOwned'
    <2> SUFFICES ASSUME runtime'.opening PROVE \E c \in Connections : Frees(call[c], c)'
      BY DEF OpeningOwned
    <2>1. PICK c \in Connections : Frees(call[c], c)
      BY <1>1 DEF MirrorInv, OpeningOwned
    <2>2. CASE c = who
      <3>1. call[who].next = Stopped /\ runtime.transport = who
        BY <1>1, <2>1, <2>2 DEF Frees, Stopped
      <3>2. call'[who] = Stopped
        BY <1>5, <3>1 DEF k
      <3> QED
        BY <1>1, <2>2, <3>1, <3>2 DEF Frees
    <2>3. CASE c # who
      <3>1. call'[c] = call[c]
        BY <1>5, <2>3 DEF Callers
      <3> QED
        BY <1>1, <2>1, <3>1 DEF Frees
    <2> QED
      BY <2>2, <2>3
  <1> QED
    BY <1>5, <1>8, <1>9, <1>10, <1>11, <1>12, <1>13, <1>14, <1>15, <1>16 DEF MirrorInv

\* TEARDOWN of streams: what it leaves of the runtime.
LEMMA StreamsQueue ==
    ASSUME MirrorInv, NEW c, NEW streams, stop_streams(c, streams)
    PROVE  QueueTypes' /\ \A b \in BridgeIds : InQueue(commands', b) = InQueue(commands, b)
  <1> DEFINE keep_video == runtime.mirror # 0 /\ "video" \notin streams
             detach == keep_video /\ "audio" \in streams /\ runtime.attach_queued
             sounds == AudioCommand(runtime.generation, 0)
             stop == StopCommand(runtime.generation)
             queue == IF detach THEN enqueue(commands, sounds) ELSE commands
             longer == enqueue(queue, stop)
             stopped == ~keep_video /\ runtime.load_queued
  <1>1. commands \in Queues /\ runtime.generation \in Nat
    BY DEF MirrorInv, MirrorTypes, QueueTypes, Queues, Runtimes
  <1>2. /\ sounds \in CommandStates /\ sounds.bridge = 0 /\ stop \in CommandStates /\ stop.bridge = 0
        /\ "DISCONNECTED" \in Statuses
    <2>1. 0 \in Ids /\ "DISCONNECTED" \in Statuses
      BY DEF Ids, Statuses
    <2> QED
      BY <1>1, <2>1, CommandsTyped
  <1>3. commands' = IF stopped THEN set_status(longer, runtime, "DISCONNECTED") ELSE queue
    BY DEF stop_streams
  <1> HIDE DEF sounds, stop, detach, stopped
  <1>4. queue \in Queues /\ \A b \in BridgeIds : InQueue(queue, b) = InQueue(commands, b)
    BY <1>1, <1>2, Enqueued
  <1> HIDE DEF queue
  <1>5. longer \in Queues /\ \A b \in BridgeIds : InQueue(longer, b) = InQueue(queue, b)
    BY <1>2, <1>4, Enqueued
  <1> HIDE DEF longer
  <1>6. /\ set_status(longer, runtime, "DISCONNECTED") \in Queues
        /\ \A b \in BridgeIds : InQueue(set_status(longer, runtime, "DISCONNECTED"), b) = InQueue(longer, b)
    BY <1>1, <1>2, <1>5, StatusSet
  <1>7. commands' \in Queues /\ \A b \in BridgeIds : InQueue(commands', b) = InQueue(commands, b)
    BY <1>3, <1>4, <1>5, <1>6
  <1> QED
    BY <1>7 DEF QueueTypes, Queues

\* The streams that are left: those that were there and are not named.
Kept(id, gone) == IF gone THEN 0 ELSE id

\* What is left of the session after a TEARDOWN of some streams.
LEMMA StreamsLeft ==
    ASSUME MirrorInv, NEW c, NEW streams, stop_streams(c, streams)
    PROVE  LET keep_video == runtime.mirror # 0 /\ "video" \notin streams
               keep_audio == runtime.audio # 0 /\ "audio" \notin streams
               bridge_goes == ~keep_video /\ (runtime.mirror # 0 \/ ~keep_audio)
           IN  /\ runtime' \in Runtimes /\ runtime'.transport = runtime.transport /\ runtime'.opening
               /\ runtime'.mirror = Kept(runtime.mirror, "video" \in streams)
               /\ runtime'.audio = Kept(runtime.audio, "audio" \in streams)
               /\ runtime'.bridge = (IF ~bridge_goes THEN runtime.bridge
                                     ELSE IF keep_audio THEN runtime.audio_bridge ELSE 0)
               /\ runtime'.audio_bridge = Kept(runtime.audio_bridge, "audio" \in streams \/ ~keep_video)
               /\ runtime'.session = (IF keep_video \/ keep_audio THEN runtime.session ELSE "none")
               /\ runtime'.load_queued => runtime.load_queued /\ keep_video
               /\ runtime'.audio_only => IF keep_video THEN runtime.audio_only ELSE keep_audio
  <1> DEFINE kv == runtime.mirror # 0 /\ "video" \notin streams
             ka == runtime.audio # 0 /\ "audio" \notin streams
             goes == ~kv /\ (runtime.mirror # 0 \/ ~ka)
             stopped == ~kv /\ runtime.load_queued
  <1>1. runtime \in Runtimes
    BY DEF MirrorInv, MirrorTypes
  <1>2. PICK m \in Ids : m = Kept(runtime.mirror, "video" \in streams)
    BY <1>1 DEF Runtimes, Ids, Kept
  <1>3. PICK a \in Ids : a = Kept(runtime.audio, "audio" \in streams)
    BY <1>1 DEF Runtimes, Ids, Kept
  <1>4. PICK b \in Ids : b = IF ~goes THEN runtime.bridge ELSE IF ka THEN runtime.audio_bridge ELSE 0
    BY <1>1 DEF Runtimes, Ids
  <1>5. PICK ab \in Ids : ab = Kept(runtime.audio_bridge, "audio" \in streams \/ ~kv)
    BY <1>1 DEF Runtimes, Ids, Kept
  <1>6. PICK session \in Peers : session = IF kv \/ ka THEN runtime.session ELSE "none"
    BY <1>1 DEF Runtimes, Peers
  <1>7. PICK g \in Nat : g = IF kv THEN runtime.generation ELSE next_generation(runtime.generation)
    BY <1>1 DEF Runtimes, next_generation
  <1>8. PICK status \in Statuses : status = IF stopped THEN "DISCONNECTED" ELSE runtime.status
    BY <1>1 DEF Runtimes, Statuses
  <1>9. PICK attach \in BOOLEAN : attach = (runtime.attach_queued /\ ~("audio" \in streams) /\ kv)
    OBVIOUS
  <1>10. PICK recording \in BOOLEAN : recording = (runtime.recording /\ (kv \/ ka))
    OBVIOUS
  <1>11. PICK load \in BOOLEAN : load = (runtime.load_queued /\ kv)
    OBVIOUS
  <1>12. PICK play \in BOOLEAN : play = (runtime.play_queued /\ kv)
    OBVIOUS
  <1>13. PICK only \in BOOLEAN : only = IF kv THEN runtime.audio_only ELSE ka
    BY <1>1 DEF Runtimes
  <1>14. PICK opening \in BOOLEAN : opening = TRUE
    OBVIOUS
  <1> DEFINE first == [runtime EXCEPT !.opening = opening, !.mirror = m, !.audio = a, !.attach_queued = attach]
             second == [first EXCEPT !.bridge = b, !.audio_bridge = ab, !.session = session, !.recording = recording]
             third == [second EXCEPT !.load_queued = load, !.play_queued = play, !.audio_only = only]
  <1>15. runtime' = [third EXCEPT !.status = status, !.generation = g]
    <2>1. runtime' = [runtime EXCEPT
              !.opening = TRUE,
              !.mirror = IF "video" \in streams THEN 0 ELSE @,
              !.audio = IF "audio" \in streams THEN 0 ELSE @,
              !.attach_queued = @ /\ ~("audio" \in streams) /\ kv,
              !.bridge = IF ~goes THEN @ ELSE IF ka THEN runtime.audio_bridge ELSE 0,
              !.audio_bridge = IF "audio" \in streams \/ ~kv THEN 0 ELSE @,
              !.session = IF kv \/ ka THEN @ ELSE "none",
              !.recording = @ /\ (kv \/ ka),
              !.load_queued = @ /\ kv, !.play_queued = @ /\ kv,
              !.audio_only = IF kv THEN @ ELSE ka,
              !.status = IF stopped THEN "DISCONNECTED" ELSE @,
              !.generation = IF kv THEN @ ELSE next_generation(@)]
      BY DEF stop_streams
    <2> HIDE DEF kv, ka, goes, stopped
    <2>2. runtime' = [runtime EXCEPT
              !.opening = opening, !.mirror = m, !.audio = a, !.attach_queued = attach,
              !.bridge = b, !.audio_bridge = ab, !.session = session, !.recording = recording,
              !.load_queued = load, !.play_queued = play, !.audio_only = only, !.status = status,
              !.generation = g]
      BY <1>1, <1>2, <1>3, <1>4, <1>5, <1>6, <1>7, <1>8, <1>9, <1>10, <1>11, <1>12, <1>13, <1>14, <2>1
         DEF Runtimes, Kept
    <2> QED
      BY <1>1, <2>2 DEF Runtimes
  <1>16. /\ first \in Runtimes /\ first.opening = opening /\ first.mirror = m /\ first.audio = a
         /\ first.transport = runtime.transport
    BY <1>1 DEF Runtimes
  <1> HIDE DEF first
  <1>17. /\ second \in Runtimes /\ second.opening = first.opening /\ second.mirror = first.mirror
         /\ second.audio = first.audio /\ second.transport = first.transport
         /\ second.bridge = b /\ second.audio_bridge = ab /\ second.session = session
    BY <1>16 DEF Runtimes
  <1> HIDE DEF second
  <1>18. /\ third \in Runtimes /\ third.opening = second.opening /\ third.mirror = second.mirror
         /\ third.audio = second.audio /\ third.transport = second.transport
         /\ third.bridge = second.bridge /\ third.audio_bridge = second.audio_bridge
         /\ third.session = second.session /\ third.load_queued = load /\ third.audio_only = only
    BY <1>17 DEF Runtimes
  <1> HIDE DEF third
  <1>19. /\ runtime' \in Runtimes /\ runtime'.opening = third.opening /\ runtime'.mirror = third.mirror
         /\ runtime'.audio = third.audio /\ runtime'.transport = third.transport
         /\ runtime'.bridge = third.bridge /\ runtime'.audio_bridge = third.audio_bridge
         /\ runtime'.session = third.session /\ runtime'.load_queued = third.load_queued
         /\ runtime'.audio_only = third.audio_only
    BY <1>15, <1>18 DEF Runtimes
  <1>20. /\ runtime'.opening /\ runtime'.mirror = m /\ runtime'.audio = a /\ runtime'.bridge = b
         /\ runtime'.audio_bridge = ab /\ runtime'.session = session
         /\ runtime'.load_queued = load /\ runtime'.audio_only = only
         /\ runtime'.transport = runtime.transport
    BY <1>14, <1>16, <1>17, <1>18, <1>19
  <1> QED
    BY <1>2, <1>3, <1>4, <1>5, <1>6, <1>11, <1>13, <1>19, <1>20, Zenon

\* A call takes receiver threads and bridges from the runtime to stop them.
LEMMA StopMoves ==
    ASSUME MirrorInv, NEW who \in Callers, NEW k \in Stops, Step(who, k), k.at = "cancel",
           call[who].at \notin Special,
           UNCHANGED <<worker, refs, cancelled, threads, lease, player>>,
           context' \in [Connections -> ContextStates],
           \A d \in Connections : context'[d].initial = context[d].initial,
           runtime' \in Runtimes, QueueTypes',
           \A b \in BridgeIds : InQueue(commands', b) = InQueue(commands, b),
           \A b \in BridgeIds :
              One(runtime'.bridge, b) + One(runtime'.audio_bridge, b) + One(k.bridges[1], b) + One(k.bridges[2], b)
                = One(runtime.bridge, b) + One(runtime.audio_bridge, b),
           \A s \in Streams : \/ RuntimeOwns(s)' = 0 /\ Owns(k, s) = RuntimeOwns(s)
                              \/ RuntimeOwns(s)' = RuntimeOwns(s) /\ Owns(k, s) = 0,
           RuntimeLinked', runtime'.transport = runtime.transport, runtime.transport = who, who \in Connections,
           k.next = Stopped
    PROVE  MirrorInv'
  <1>1. k \in CallStates /\ Bridges(k) = {k.bridges[1], k.bridges[2]}
    BY DEF CallStates, Bridges
  <1>2. /\ call' \in [Callers -> CallStates] /\ FewCalls'
        /\ call'[who] = k /\ \A d \in Callers \ {who} : call'[d] = call[d]
        /\ BeingCancelled \subseteq BeingCancelled'
        /\ Bridges(k) \subseteq BeingCancelled'
    <2>1. call[who].at # "cancel"
      BY DEF Special
    <2> QED
      BY <1>1, <2>1, CallChanged
  <1>3. MirrorTypes'
    BY <1>2 DEF MirrorInv, MirrorTypes
  <1>4. RefsBalanced'
    <2>1. ASSUME NEW b \in BridgeIds
          PROVE  refs'[b] = refs[b] + One(runtime'.bridge, b) + One(runtime'.audio_bridge, b)
                         - One(runtime.bridge, b) - One(runtime.audio_bridge, b)
                         + CallHold(k, b) - CallHold(call[who], b)
      <3>1. call[who] \in CallStates /\ refs[b] \in Int
        BY DEF MirrorInv, MirrorTypes
      <3>2. CallHold(k, b) = One(k.bridges[1], b) + One(k.bridges[2], b) /\ CallHold(call[who], b) = 0
        BY <1>1, <3>1, CallHoldIs DEF Special
      <3>3. \A x : One(x, b) \in Nat
        BY DEF One
      <3>4. One(runtime'.bridge, b) + One(runtime'.audio_bridge, b) + One(k.bridges[1], b) + One(k.bridges[2], b)
                = One(runtime.bridge, b) + One(runtime.audio_bridge, b)
        OBVIOUS
      <3>5. refs'[b] = refs[b]
        OBVIOUS
      <3> QED
        BY <3>1, <3>2, <3>3, <3>4, <3>5
    <2>2. \A b \in BridgeIds : ThreadsHeld(threads', b) = ThreadsHeld(threads, b)
      OBVIOUS
    <2> QED
      BY <1>1, <2>1, <2>2, BalancedMoved
  <1>5. TransportInitial'
    BY DEF MirrorInv, TransportInitial
  <1>6. CallsLinked'
    <2>1. OpenLinked(k) /\ k.at \notin {"open", "opening", "audio", "audio_opening"}
      BY DEF OpenLinked
    <2> QED
      BY <1>2, <2>1, LinkedMoved
  <1>7. ThreadsOwned'
    <2>1. \A s \in Streams : Owns(call[who], s) = 0
      BY DEF Owns, Special
    <2>2. \A s \in Streams, d \in Callers \ {who} : Owns(call'[d], s) = Owns(call[d], s)
      BY <1>2
    <2>3. \A s \in Streams : Owns(call'[who], s) = Owns(k, s)
      BY <1>2
    <2>4. \A t : threads'[t].live = threads[t].live
      OBVIOUS
    <2> HIDE DEF Owns, RuntimeOwns
    <2> SUFFICES ASSUME NEW s \in Streams
                 PROVE  /\ \A b \in BridgeIds :
                              threads'[<<s, b>>].live <=>
                                 RuntimeOwns(s)' = b \/ \E c \in Callers : Owns(call'[c], s) = b
                        /\ \A c \in Callers : Owns(call'[c], s) # 0 =>
                              /\ Owns(call'[c], s) # RuntimeOwns(s)'
                              /\ \A d \in Callers : Owns(call'[d], s) = Owns(call'[c], s) => c = d
      BY DEF ThreadsOwned
    <2>5. /\ \A b \in BridgeIds :
               threads[<<s, b>>].live <=> RuntimeOwns(s) = b \/ \E c \in Callers : Owns(call[c], s) = b
          /\ \A c \in Callers : Owns(call[c], s) # 0 =>
               /\ Owns(call[c], s) # RuntimeOwns(s)
               /\ \A d \in Callers : Owns(call[d], s) = Owns(call[c], s) => c = d
      BY DEF MirrorInv, ThreadsOwned
    <2>6. CASE RuntimeOwns(s)' = 0 /\ Owns(k, s) = RuntimeOwns(s)
      BY <2>1, <2>2, <2>3, <2>4, <2>5, <2>6, BridgesPositive
    <2>7. CASE RuntimeOwns(s)' = RuntimeOwns(s) /\ Owns(k, s) = 0
      BY <2>1, <2>2, <2>3, <2>4, <2>5, <2>7, BridgesPositive
    <2> QED
      BY <2>6, <2>7
  <1>8. ThreadsQuiet'
    BY DEF MirrorInv, ThreadsQuiet
  <1>9. WaitsEnd'
    <2> SUFFICES ASSUME NEW t \in DOMAIN threads, NEW b \in threads[t].waits
                 PROVE  b \in cancelled \cup BeingCancelled' \cup {runtime'.bridge, runtime'.audio_bridge}
      BY DEF WaitsEnd
    <2>1. b \in BridgeIds
      BY DEF MirrorInv, MirrorTypes, ThreadStates
    <2>2. b \in cancelled \cup BeingCancelled \cup {runtime.bridge, runtime.audio_bridge}
      BY DEF MirrorInv, WaitsEnd
    <2>3. b \in {runtime.bridge, runtime.audio_bridge} =>
             b \in {runtime'.bridge, runtime'.audio_bridge, k.bridges[1], k.bridges[2]}
      <3>1. One(runtime'.bridge, b) + One(runtime'.audio_bridge, b) + One(k.bridges[1], b) + One(k.bridges[2], b)
                = One(runtime.bridge, b) + One(runtime.audio_bridge, b)
        BY <2>1
      <3> QED
        BY <3>1 DEF One
    <2> QED
      BY <1>1, <1>2, <2>2, <2>3
  <1>10. OpensQuiet'
    <2>1. \A d \in Connections : call'[d].at \in {"opening", "audio_opening"} => call'[d] = call[d]
      BY <1>2 DEF Callers
    <2> QED
      BY <2>1 DEF MirrorInv, OpensQuiet
  <1>11. OpeningOwned'
    BY <1>2 DEF OpeningOwned, Frees
  <1> QED
    BY <1>2, <1>3, <1>4, <1>5, <1>6, <1>7, <1>8, <1>9, <1>10, <1>11 DEF MirrorInv

\* A TEARDOWN request keeps the invariant.
LEMMA TeardownStep ==
    ASSUME MirrorInv, NEW c \in Connections, NEW named \in SUBSET Streams, handle_teardown(c, named)
    PROVE  MirrorInv'
  <1> DEFINE streams == named \cap context[c].setup
  <1>1. /\ call[c].at = "idle" /\ c \in Callers /\ c # "app" /\ call[c].at \notin Special \cup {"stopped"}
        /\ UNCHANGED <<worker, refs, cancelled, threads, lease, player>>
    BY PlacesTyped DEF handle_teardown, Request, Special
  <1>2. /\ context' \in [Connections -> ContextStates]
        /\ \A d \in Connections : context'[d].initial = context[d].initial
    <2>1. CASE context' = context
      BY <2>1, ContextsTyped
    <2>2. CASE context' = [context EXCEPT ![c].setup = @ \ named, ![c].started = @ \ named]
      <3>1. context[c] \in ContextStates
        BY ContextsTyped
      <3>2. PICK setup \in SUBSET Streams : setup = context[c].setup \ named
        BY <3>1 DEF ContextStates
      <3>3. PICK started \in SUBSET Streams : started = context[c].started \ named
        BY <3>1 DEF ContextStates
      <3>4. context' = [context EXCEPT ![c] = [context[c] EXCEPT !.setup = setup, !.started = started]]
        BY <2>2, <3>1, <3>2, <3>3, ContextsTyped DEF ContextStates
      <3>5. /\ [context[c] EXCEPT !.setup = setup, !.started = started] \in ContextStates
            /\ [context[c] EXCEPT !.setup = setup, !.started = started].initial = context[c].initial
        BY <3>1 DEF ContextStates
      <3> QED
        BY <3>4, <3>5, ContextsTyped
    <2> QED
      BY <2>1, <2>2 DEF handle_teardown
  <1>3. CASE UNCHANGED <<runtime, commands, call>>
    <2>1. Step(c, call[c]) /\ call[c] \in CallStates /\ call[c].at \notin {"open", "audio"}
      BY <1>1, <1>3, SamePlace DEF MirrorInv, MirrorTypes
    <2>2. TransportInitial'
      BY <1>2, <1>3 DEF MirrorInv, TransportInitial, MirrorTypes, Runtimes, Peers
    <2>3. /\ threads' \in [Streams \X BridgeIds -> ThreadStates] /\ OnlyRecord
          /\ runtime' \in Runtimes /\ SameStreams /\ QueueTypes' /\ refs' \in [BridgeIds -> Int]
          /\ \A b \in BridgeIds : refs'[b] = refs[b] + (InQueue(commands', b) - InQueue(commands, b))
          /\ lease' \in [token : Peers, generation : Nat]
      BY <1>1, <1>3, Unmoved
    <2> QED
      BY <1>1, <1>2, <2>1, <2>2, <2>3, PlainKept
  <1>4. CASE may_stop_streams(c) /\ stop_streams(c, streams)
    <2> DEFINE kv == runtime.mirror # 0 /\ "video" \notin streams
               ka == runtime.audio # 0 /\ "audio" \notin streams
               goes == ~kv /\ (runtime.mirror # 0 \/ ~ka)
               k == [at |-> "cancel",
                     mirror |-> IF "video" \in streams THEN runtime.mirror ELSE 0,
                     audio |-> IF "audio" \in streams THEN runtime.audio ELSE 0,
                     bridges |-> <<IF goes THEN runtime.bridge ELSE 0,
                                   IF "audio" \in streams THEN runtime.audio_bridge ELSE 0>>,
                     next |-> [at |-> "stopped"]]
    <2>1. Step(c, k) /\ runtime.transport = c
      BY <1>4 DEF stop_streams, may_stop_streams
    <2>2. /\ runtime' \in Runtimes /\ runtime'.transport = runtime.transport /\ runtime'.opening
          /\ runtime'.mirror = Kept(runtime.mirror, "video" \in streams)
          /\ runtime'.audio = Kept(runtime.audio, "audio" \in streams)
          /\ runtime'.bridge = (IF ~goes THEN runtime.bridge
                                ELSE IF ka THEN runtime.audio_bridge ELSE 0)
          /\ runtime'.audio_bridge = Kept(runtime.audio_bridge, "audio" \in streams \/ ~kv)
          /\ runtime'.session = (IF kv \/ ka THEN runtime.session ELSE "none")
          /\ runtime'.load_queued => runtime.load_queued /\ kv
          /\ runtime'.audio_only => IF kv THEN runtime.audio_only ELSE ka
      <3> HIDE DEF streams
      <3> QED
        BY <1>4, StreamsLeft
    <2>3. QueueTypes' /\ \A b \in BridgeIds : InQueue(commands', b) = InQueue(commands, b)
      <3> HIDE DEF streams
      <3> QED
        BY <1>4, StreamsQueue
    <2>4. runtime.mirror \in Ids /\ runtime.audio \in Ids /\ runtime.bridge \in Ids /\ runtime.audio_bridge \in Ids
          /\ 0 \in Ids
      BY DEF MirrorInv, MirrorTypes, Runtimes, Ids
    <2>5. /\ k \in Stops /\ k.at = "cancel" /\ k.next = Stopped
          /\ k.mirror = (IF "video" \in streams THEN runtime.mirror ELSE 0)
          /\ k.audio = (IF "audio" \in streams THEN runtime.audio ELSE 0)
          /\ k.bridges[1] = (IF goes THEN runtime.bridge ELSE 0)
          /\ k.bridges[2] = (IF "audio" \in streams THEN runtime.audio_bridge ELSE 0)
      BY <2>4 DEF Stops, Stopped
    <2> HIDE DEF k, streams
    <2>6. RuntimeLinked'
      BY <2>2 DEF MirrorInv, RuntimeLinked, Kept
    <2>7. ASSUME NEW b \in BridgeIds
          PROVE  One(runtime'.bridge, b) + One(runtime'.audio_bridge, b) + One(k.bridges[1], b) + One(k.bridges[2], b)
                   = One(runtime.bridge, b) + One(runtime.audio_bridge, b)
      <3>1. /\ runtime.mirror = 0 => runtime.audio_bridge = 0
            /\ runtime.audio = 0 => runtime.audio_bridge = 0
        BY DEF MirrorInv, RuntimeLinked
      <3>2. One(0, b) = 0 /\ \A x : One(x, b) \in Nat
        BY BridgesPositive DEF One
      <3> HIDE DEF One
      <3>3. CASE kv
        BY <2>2, <2>5, <3>1, <3>2, <3>3 DEF Kept
      <3>4. CASE ~kv /\ goes /\ ka
        BY <2>2, <2>5, <3>1, <3>2, <3>4 DEF Kept
      <3>5. CASE ~kv /\ goes /\ ~ka
        BY <2>2, <2>5, <3>1, <3>2, <3>5 DEF Kept
      <3>6. CASE ~kv /\ ~goes
        BY <2>2, <2>5, <3>1, <3>2, <3>6 DEF Kept
      <3> QED
        BY <3>3, <3>4, <3>5, <3>6
    <2>8. \A s \in Streams : \/ RuntimeOwns(s)' = 0 /\ Owns(k, s) = RuntimeOwns(s)
                             \/ RuntimeOwns(s)' = RuntimeOwns(s) /\ Owns(k, s) = 0
      BY <2>2, <2>5 DEF RuntimeOwns, Owns, Kept, Streams
    <2>9. call[c].at \notin Special
      BY <1>1
    <2> QED
      BY <1>1, <1>2, <2>1, <2>2, <2>3, <2>5, <2>6, <2>7, <2>8, <2>9, StopMoves
  <1> QED
    BY <1>3, <1>4 DEF handle_teardown

-----------------------------------------------------------------------------
(* MirrorControl: streams are opened. *)

\* Nothing refers to an unused bridge, and no receiver thread is named after it.
LEMMA UnusedFree ==
    ASSUME MirrorInv, NEW b \in Unused
    PROVE  /\ b \in BridgeIds /\ b # 0 /\ refs[b] = 0 /\ runtime.bridge # b /\ runtime.audio_bridge # b
           /\ \A t \in Streams \X BridgeIds : b \notin threads[t].on
           /\ \A s \in Streams : ~threads[<<s, b>>].live /\ RuntimeOwns(s) # b
           /\ \A s \in Streams, c \in Callers : Owns(call[c], s) # b
  <1>1. b \in BridgeIds /\ refs[b] = 0 /\ \A s \in Streams : ~threads[<<s, b>>].live
    BY DEF Unused
  <1>2. Holders(b) = 0
    BY <1>1 DEF MirrorInv, RefsBalanced
  <1>3. Holders(b) = One(runtime.bridge, b) + One(runtime.audio_bridge, b) + One(player.video, b)
           + One(player.audio, b) + One(worker.bridge, b) + InQueue(commands, b)
           + ThreadsHeld(threads, b) + CallsHeld(call, b)
    BY HoldersNow
  <1>4. /\ One(runtime.bridge, b) \in Nat /\ One(runtime.audio_bridge, b) \in Nat
        /\ One(player.video, b) \in Nat /\ One(player.audio, b) \in Nat /\ One(worker.bridge, b) \in Nat
    BY DEF One
  <1>5. InQueue(commands, b) \in Nat /\ ThreadsHeld(threads, b) \in Nat /\ CallsHeld(call, b) \in Nat
    BY HeldTypes, InQueueType DEF MirrorInv, MirrorTypes, QueueTypes
  <1>6. One(runtime.bridge, b) = 0 /\ One(runtime.audio_bridge, b) = 0 /\ ThreadsHeld(threads, b) = 0
    <2>1. One(runtime.bridge, b) + One(runtime.audio_bridge, b) + One(player.video, b)
           + One(player.audio, b) + One(worker.bridge, b) + InQueue(commands, b)
           + ThreadsHeld(threads, b) + CallsHeld(call, b) = 0
      BY <1>2, <1>3, Zenon
    <2>2. PICK n1 \in Nat : n1 = One(runtime.bridge, b)
      BY <1>4
    <2>3. PICK n2 \in Nat : n2 = One(runtime.audio_bridge, b)
      BY <1>4
    <2>4. PICK n3 \in Nat : n3 = One(player.video, b)
      BY <1>4
    <2>5. PICK n4 \in Nat : n4 = One(player.audio, b)
      BY <1>4
    <2>6. PICK n5 \in Nat : n5 = One(worker.bridge, b)
      BY <1>4
    <2>7. PICK n6 \in Nat : n6 = InQueue(commands, b)
      BY <1>5
    <2>8. PICK n7 \in Nat : n7 = ThreadsHeld(threads, b)
      BY <1>5
    <2>9. PICK n8 \in Nat : n8 = CallsHeld(call, b)
      BY <1>5
    <2>10. n1 + n2 + n3 + n4 + n5 + n6 + n7 + n8 = 0
      BY <2>1, <2>2, <2>3, <2>4, <2>5, <2>6, <2>7, <2>8, <2>9, Zenon
    <2>11. n1 = 0 /\ n2 = 0 /\ n7 = 0
      BY <2>10
    <2> QED
      BY <2>2, <2>3, <2>8, <2>11, Zenon
  <1>7. runtime.bridge # b /\ runtime.audio_bridge # b
    BY <1>6 DEF One
  <1>8. ASSUME NEW t \in Streams \X BridgeIds PROVE b \notin threads[t].on
    <2>1. ThreadMoves(threads, [threads EXCEPT ![t] = threads[t]], t, threads[t])
      BY DEF ThreadMoves, MirrorInv, MirrorTypes
    <2>2. b \in threads[t].on => ThreadsHeld(threads, b) >= 1
      BY <2>1, ThreadsMove
    <2> QED
      BY <1>6, <2>2
  <1>9. \A s \in Streams : RuntimeOwns(s) # b /\ \A c \in Callers : Owns(call[c], s) # b
    BY <1>1 DEF MirrorInv, ThreadsOwned
  <1> QED
    BY <1>1, <1>7, <1>8, <1>9, BridgesPositive

\* A bridge is allocated from the unused ones ...
LEMMA FreshOne ==
    ASSUME CanAllocate(1)
    PROVE  \E b \in Unused : Fresh(1) = {b} /\ b = CHOOSE x \in Fresh(1) : TRUE
  <1>1. IsFiniteSet(Unused) /\ Cardinality(Unused) >= 1
    <2>1. Unused \in SUBSET BridgeIds
      BY DEF Unused
    <2> QED
      BY <2>1, BridgesPositive, FS_Subset DEF CanAllocate
  <1>2. Unused # {}
    BY <1>1, FS_EmptySet
  <1>3. \E s \in SUBSET Unused : Cardinality(s) = 1
    <2>1. PICK x \in Unused : TRUE
      BY <1>2
    <2>2. {x} \in SUBSET Unused /\ Cardinality({x}) = 1
      BY <2>1, FS_Singleton
    <2> QED
      BY <2>2
  <1> DEFINE new == Fresh(1)
             b == CHOOSE x \in new : TRUE
  <1>4. new \in SUBSET Unused /\ Cardinality(new) = 1
    BY <1>3 DEF Fresh
  <1> HIDE DEF new
  <1>5. IsFiniteSet(new)
    BY <1>1, <1>4, FS_Subset
  <1>6. PICK x : new = {x}
    BY <1>4, <1>5, FS_Singleton
  <1>7. b = x
    BY <1>6
  <1> QED
    BY <1>4, <1>6, <1>7 DEF new

\* ... and two are distinct.
LEMMA FreshTwo ==
    ASSUME CanAllocate(2)
    PROVE  \E b, ab \in Unused :
             /\ Fresh(2) = {b, ab} /\ b # ab /\ b = CHOOSE x \in Fresh(2) : TRUE
             /\ ab = CHOOSE x \in Fresh(2) \ {b} : TRUE
  <1>1. IsFiniteSet(Unused) /\ Cardinality(Unused) >= 2 /\ Cardinality(Unused) \in Nat
    <2>1. Unused \in SUBSET BridgeIds
      BY DEF Unused
    <2> QED
      BY <2>1, BridgesPositive, FS_Subset, FS_CardinalityType DEF CanAllocate
  <1>2. \E s \in SUBSET Unused : Cardinality(s) = 2
    <2>1. PICK x \in Unused : TRUE
      BY <1>1, FS_EmptySet
    <2>2. IsFiniteSet(Unused \ {x}) /\ Cardinality(Unused \ {x}) = Cardinality(Unused) - 1
      BY <1>1, FS_RemoveElement
    <2>3. PICK y \in Unused \ {x} : TRUE
      BY <1>1, <2>2, FS_EmptySet
    <2>4. IsFiniteSet({x}) /\ Cardinality({x}) = 1 /\ y \notin {x}
      BY <2>3, FS_Singleton
    <2>5. Cardinality({x} \cup {y}) = 2
      BY <2>4, FS_AddElement
    <2>6. {x} \cup {y} \in SUBSET Unused
      BY <2>1, <2>3
    <2> QED
      BY <2>5, <2>6
  <1> DEFINE new == Fresh(2)
             b == CHOOSE x \in new : TRUE
             ab == CHOOSE x \in new \ {b} : TRUE
  <1>3. new \in SUBSET Unused /\ Cardinality(new) = 2
    BY <1>2 DEF Fresh
  <1> HIDE DEF new
  <1>4. IsFiniteSet(new)
    BY <1>1, <1>3, FS_Subset
  <1>5. b \in new
    <2>1. new # {}
      BY <1>3, FS_EmptySet
    <2> QED
      BY <2>1
  <1> HIDE DEF b
  <1>6. IsFiniteSet(new \ {b}) /\ Cardinality(new \ {b}) = 1
    BY <1>3, <1>4, <1>5, FS_RemoveElement
  <1>7. PICK y : new \ {b} = {y}
    BY <1>6, FS_Singleton
  <1>8. ab = y
    BY <1>7
  <1>9. b \in Unused /\ y \in Unused /\ new = {b, y} /\ b # y
    BY <1>3, <1>5, <1>7
  <1>10. ab \in Unused /\ new = {b, ab} /\ b # ab
    BY <1>8, <1>9
  <1> QED
    BY <1>9, <1>10 DEF new, b

\* The first critical section of an open: the call c, as k, holds the bridges
\* new and runs the receiver of stream s on b.
Begins(c, k, new, s, b) ==
    /\ Step(c, k) /\ call[c].at \in {"open", "audio"}
    /\ threads' = [threads EXCEPT ![<<s, b>>] = NewThread] /\ cancelled' = cancelled \ new
    /\ runtime' = [runtime EXCEPT !.opening = TRUE]
    /\ UNCHANGED <<commands, worker, context, lease, player>>
    /\ refs' \in [BridgeIds -> Int] /\ \A x \in BridgeIds : refs'[x] = refs[x] + CallHold(k, x)
    /\ Owns(k, s) = b /\ \A r \in Streams \ {s} : Owns(k, r) = 0
    /\ k.at \in {"opening", "audio_opening"} /\ k.previous = runtime.generation
    /\ k.at = "audio_opening" => runtime.transport = c
    /\ k.at = "opening" => s = "video" /\ k.bridge = b
    /\ k.at = "audio_opening" => s = "audio" /\ k.audio_bridge = b
    /\ OpenLinked(k)

\* The caller holds what it made.
LEMMA BeginMoves ==
    ASSUME MirrorInv, NEW c \in Connections, NEW k \in Opens, NEW new \in SUBSET Unused,
           NEW s \in Streams, NEW b \in new, Begins(c, k, new, s, b)
    PROVE  MirrorInv'
  <1> USE DEF Begins
  <1>1. k \in CallStates /\ c \in Callers /\ c # "app"
    BY PlacesTyped DEF CallStates
  <1>2. /\ call' \in [Callers -> CallStates] /\ FewCalls'
        /\ call'[c] = k /\ \A d \in Callers \ {c} : call'[d] = call[d]
        /\ BeingCancelled \subseteq BeingCancelled'
    BY <1>1, CallChanged
  <1>3. /\ runtime' \in Runtimes /\ runtime'.mirror = runtime.mirror /\ runtime'.audio = runtime.audio
        /\ runtime'.bridge = runtime.bridge /\ runtime'.audio_bridge = runtime.audio_bridge
        /\ runtime'.session = runtime.session /\ runtime'.generation = runtime.generation
        /\ runtime'.audio_only = runtime.audio_only /\ runtime'.transport = runtime.transport
        /\ runtime'.load_queued = runtime.load_queued
    <2>1. runtime \in Runtimes
      BY DEF MirrorInv, MirrorTypes
    <2>2. PICK opening \in BOOLEAN : opening = TRUE
      OBVIOUS
    <2>3. runtime' = [runtime EXCEPT !.opening = opening]
      BY <2>2
    <2> QED
      BY <2>1, <2>3 DEF Runtimes
  <1>4. \A x \in new : /\ x \in BridgeIds /\ x # 0
                       /\ \A t \in Streams \X BridgeIds : x \notin threads[t].on
                       /\ \A r \in Streams : ~threads[<<r, x>>].live /\ RuntimeOwns(r) # x
                       /\ \A r \in Streams, d \in Callers : Owns(call[d], r) # x
    BY UnusedFree
  <1> DEFINE t0 == <<s, b>>
  <1>5. t0 \in Streams \X BridgeIds /\ threads[t0].on = {} /\ ~threads[t0].live /\ ~threads[t0].recording
    <2>1. t0 \in Streams \X BridgeIds /\ ~threads[t0].live
      BY <1>4
    <2> QED
      BY <2>1 DEF MirrorInv, ThreadsQuiet
  <1>6. /\ NewThread \in ThreadStates /\ NewThread.live /\ ~NewThread.recording /\ NewThread.on = {}
        /\ NewThread.waits = {}
    BY DEF NewThread, NoThread, ThreadStates
  <1>7. /\ threads \in [Streams \X BridgeIds -> ThreadStates]
        /\ threads' \in [Streams \X BridgeIds -> ThreadStates]
        /\ threads'[t0] = NewThread /\ \A t \in (Streams \X BridgeIds) \ {t0} : threads'[t] = threads[t]
    BY <1>5, <1>6 DEF MirrorInv, MirrorTypes
  <1> HIDE DEF t0
  <1>8. MirrorTypes'
    BY <1>2, <1>3, <1>7 DEF MirrorInv, MirrorTypes, QueueTypes
  <1>9. RefsBalanced'
    <2>1. \A t \in Streams \X BridgeIds : threads'[t].on = threads[t].on
      BY <1>5, <1>6, <1>7
    <2>2. ASSUME NEW x \in BridgeIds PROVE ThreadsHeld(threads', x) = ThreadsHeld(threads, x)
      <3>1. {t \in DOMAIN threads : x \in threads[t].on} = {t \in DOMAIN threads' : x \in threads'[t].on}
        BY <1>7, <2>1
      <3> QED
        BY <3>1, Zenon DEF ThreadsHeld
    <2>3. ASSUME NEW x \in BridgeIds
          PROVE  refs'[x] = refs[x] + One(runtime'.bridge, x) + One(runtime'.audio_bridge, x)
                         - One(runtime.bridge, x) - One(runtime.audio_bridge, x)
                         + CallHold(k, x) - CallHold(call[c], x)
      <3>1. call[c] \in CallStates /\ refs[x] \in Int
        BY <1>1 DEF MirrorInv, MirrorTypes
      <3>2. CallHold(call[c], x) = 0 /\ CallHold(k, x) \in 0 .. 2
        BY <1>1, <3>1, CallHoldIs
      <3>3. One(runtime.bridge, x) \in Nat /\ One(runtime.audio_bridge, x) \in Nat
        BY DEF One
      <3>4. refs'[x] = refs[x] + CallHold(k, x)
        OBVIOUS
      <3> QED
        BY <1>3, <3>1, <3>2, <3>3, <3>4
    <2> QED
      BY <1>1, <2>2, <2>3, BalancedMoved
  <1>10. RuntimeLinked' /\ TransportInitial'
    BY <1>3 DEF MirrorInv, RuntimeLinked, TransportInitial
  <1>11. CallsLinked'
    <2>1. context[c].initial
      BY DEF MirrorInv, CallsLinked
    <2> QED
      BY <1>1, <1>2, <2>1, LinkedMoved
  <1>12. ThreadsOwned'
    <2> SUFFICES ASSUME NEW r \in Streams
                 PROVE  /\ \A x \in BridgeIds :
                              threads'[<<r, x>>].live <=>
                                 RuntimeOwns(r)' = x \/ \E d \in Callers : Owns(call'[d], r) = x
                        /\ \A d \in Callers : Owns(call'[d], r) # 0 =>
                              /\ Owns(call'[d], r) # RuntimeOwns(r)'
                              /\ \A e \in Callers : Owns(call'[e], r) = Owns(call'[d], r) => d = e
      BY DEF ThreadsOwned
    <2>1. RuntimeOwns(r)' = RuntimeOwns(r)
      BY <1>3 DEF RuntimeOwns
    <2>2. Owns(call[c], r) = 0 /\ Owns(call'[c], r) = (IF r = s THEN b ELSE 0)
      BY <1>2 DEF Owns
    <2>3. \A d \in Callers \ {c} : Owns(call'[d], r) = Owns(call[d], r)
      BY <1>2
    <2>4. /\ \A x \in BridgeIds :
               threads[<<r, x>>].live <=> RuntimeOwns(r) = x \/ \E d \in Callers : Owns(call[d], r) = x
          /\ \A d \in Callers : Owns(call[d], r) # 0 =>
               /\ Owns(call[d], r) # RuntimeOwns(r)
               /\ \A e \in Callers : Owns(call[e], r) = Owns(call[d], r) => d = e
      BY DEF MirrorInv, ThreadsOwned
    <2>5. \A x \in BridgeIds : threads'[<<r, x>>].live <=> threads[<<r, x>>].live \/ (r = s /\ x = b)
      <3> SUFFICES ASSUME NEW x \in BridgeIds
                   PROVE threads'[<<r, x>>].live <=> threads[<<r, x>>].live \/ (r = s /\ x = b)
        OBVIOUS
      <3>1. <<r, x>> \in Streams \X BridgeIds /\ (<<r, x>> = t0 <=> r = s /\ x = b)
        BY DEF t0
      <3> QED
        BY <1>6, <1>7, <3>1
    <2>6. b # 0 /\ RuntimeOwns(r) # b /\ \A d \in Callers : Owns(call[d], r) # b
      BY <1>4
    <2> HIDE DEF Owns, RuntimeOwns
    <2>7. \A x \in BridgeIds :
             threads'[<<r, x>>].live <=> RuntimeOwns(r)' = x \/ \E d \in Callers : Owns(call'[d], r) = x
      BY <1>1, <2>1, <2>2, <2>3, <2>4, <2>5, <2>6, BridgesPositive
    <2>8. ASSUME NEW d \in Callers, Owns(call'[d], r) # 0
          PROVE  /\ Owns(call'[d], r) # RuntimeOwns(r)'
                 /\ \A e \in Callers : Owns(call'[e], r) = Owns(call'[d], r) => d = e
      BY <1>1, <2>1, <2>2, <2>3, <2>4, <2>6, <2>8
    <2> QED
      BY <2>7, <2>8
  <1>13. ThreadsQuiet'
    BY <1>5, <1>6, <1>7 DEF MirrorInv, ThreadsQuiet
  <1>14. OpensQuiet'
    <2> SUFFICES ASSUME NEW d \in Connections, NEW r \in Streams, NEW x,
                        \/ call'[d].at = "opening" /\ r = "video" /\ x = call'[d].bridge
                        \/ call'[d].at = "audio_opening" /\ r = "audio" /\ x = call'[d].audio_bridge
                 PROVE  ~threads'[<<r, x>>].recording
      BY DEF OpensQuiet, Streams
    <2>1. CASE d = c
      <3>1. <<r, x>> = t0
        BY <1>2, <2>1 DEF t0
      <3> QED
        BY <1>6, <1>7, <3>1
    <2>2. CASE d # c
      <3>1. call'[d] = call[d] /\ call[d] \in CallStates
        BY <1>2, <2>2 DEF Callers, MirrorInv, MirrorTypes
      <3>2. call[d] \in Opens
        BY <3>1 DEF CallStates, Plain, Opens, Claims, Stops
      <3>3. x \in BridgeIds
        BY <3>1, <3>2 DEF MirrorInv, CallsLinked, OpenLinked, Opens, Ids
      <3>4. ~threads[<<r, x>>].recording
        BY <3>1 DEF MirrorInv, OpensQuiet
      <3>5. <<r, x>> \in Streams \X BridgeIds
        BY <3>3
      <3> QED
        BY <1>6, <1>7, <3>4, <3>5
    <2> QED
      BY <2>1, <2>2
  <1>15. WaitsEnd'
    <2>1. \A t \in Streams \X BridgeIds : threads'[t].waits \subseteq threads[t].waits
      BY <1>6, <1>7
    <2>2. \A t \in Streams \X BridgeIds : threads[t].waits \cap new = {}
      BY <1>4 DEF MirrorInv, ThreadsQuiet
    <2>3. DOMAIN threads' = Streams \X BridgeIds /\ DOMAIN threads = Streams \X BridgeIds
      BY <1>7
    <2> QED
      BY <1>2, <1>3, <2>1, <2>2, <2>3 DEF MirrorInv, WaitsEnd
  <1>16. OpeningOwned'
    BY <1>2, <1>3 DEF OpeningOwned, Frees
  <1> QED
    BY <1>2, <1>8, <1>9, <1>10, <1>11, <1>12, <1>13, <1>14, <1>15, <1>16 DEF MirrorInv

\* A call that opens streams goes on with what it made.
LEMMA OpensTyped ==
    ASSUME MirrorInv, NEW c \in Connections, call[c].at \in {"open", "opening", "audio", "audio_opening"}
    PROVE  call[c] \in Opens /\ c \in Callers
  BY DEF MirrorInv, MirrorTypes, CallStates, Plain, Claims, Stops, Callers

\* airplay_mirror_runtime_open reserves the session and makes its bridges.
LEMMA OpenBeginsStep ==
    ASSUME MirrorInv, NEW c \in Connections, open_begins(c)
    PROVE  MirrorInv'
  <1> DEFINE n == IF runtime.audio # 0 THEN 2 ELSE 1
             new == Fresh(n)
             b == CHOOSE x \in new : TRUE
             ab == IF n = 2 THEN CHOOSE x \in new \ {b} : TRUE ELSE 0
             g == runtime.generation
             promotion == runtime.session = c
             k == [call[c] EXCEPT !.at = "opening", !.bridge = b, !.audio_bridge = ab,
                                  !.previous = g, !.promotion = promotion]
  <1>1. /\ call[c].at = "open" /\ may_open(c) /\ CanAllocate(n)
        /\ refs' = [x \in BridgeIds |-> IF x \in new THEN 1 ELSE refs[x]]
        /\ cancelled' = cancelled \ new
        /\ threads' = [threads EXCEPT ![<<"video", b>>] = NewThread]
        /\ Step(c, k) /\ runtime' = [runtime EXCEPT !.opening = TRUE]
        /\ UNCHANGED <<commands, worker, context, lease, player>>
    BY DEF open_begins
  <1>2. /\ new \in SUBSET Unused /\ b \in new /\ new = {b, ab} \ {0} /\ ab # b
        /\ ab \in Ids /\ (ab # 0 <=> runtime.audio # 0)
    <2>1. \A x \in Unused : x \in BridgeIds /\ x # 0
      BY BridgesPositive DEF Unused
    <2>2. CASE runtime.audio # 0
      <3>1. n = 2 /\ CanAllocate(2)
        BY <1>1, <2>2
      <3>2. PICK x, y \in Unused :
               /\ Fresh(2) = {x, y} /\ x # y /\ x = CHOOSE z \in Fresh(2) : TRUE
               /\ y = CHOOSE z \in Fresh(2) \ {x} : TRUE
        BY <3>1, FreshTwo
      <3>3. new = Fresh(2) /\ b = x /\ ab = y
        BY <3>1, <3>2
      <3> QED
        BY <2>1, <2>2, <3>2, <3>3 DEF Ids
    <2>3. CASE runtime.audio = 0
      <3>1. n = 1 /\ CanAllocate(1)
        BY <1>1, <2>3
      <3>2. PICK x \in Unused : Fresh(1) = {x} /\ x = CHOOSE z \in Fresh(1) : TRUE
        BY <3>1, FreshOne
      <3>3. new = Fresh(1) /\ b = x /\ ab = 0
        BY <3>1, <3>2
      <3> QED
        BY <2>1, <2>3, <3>2, <3>3 DEF Ids
    <2> QED
      BY <2>2, <2>3
  <1>3. b \in BridgeIds /\ b \in Ids /\ b # 0
    BY <1>2, BridgesPositive DEF Unused, Ids
  <1>4. call[c] \in Opens /\ g \in Nat /\ promotion \in BOOLEAN
    BY <1>1, OpensTyped DEF MirrorInv, MirrorTypes, Runtimes
  <1>5. promotion <=> ab # 0
    BY <1>1, <1>2, PlacesTyped DEF may_open, MirrorInv, RuntimeLinked
  <1> HIDE DEF n, new, b, ab
  <1>6. /\ k \in Opens /\ k.at = "opening" /\ k.bridge = b /\ k.audio_bridge = ab /\ k.previous = g
        /\ k.promotion = promotion
    <2>1. PICK at \in {"open", "opening", "audio", "audio_opening", "record"} : at = "opening"
      OBVIOUS
    <2>2. k = [call[c] EXCEPT !.at = at, !.bridge = b, !.audio_bridge = ab, !.previous = g, !.promotion = promotion]
      BY <2>1
    <2> HIDE DEF k, g, promotion
    <2> QED
      BY <1>2, <1>3, <1>4, <2>1, <2>2 DEF Opens
  <1> HIDE DEF k, promotion
  <1>7. OpenLinked(k)
    BY <1>2, <1>3, <1>5, <1>6 DEF OpenLinked
  <1>8. Owns(k, "video") = b /\ \A r \in Streams \ {"video"} : Owns(k, r) = 0
    BY <1>6 DEF Owns, Streams
  <1>9. /\ refs' \in [BridgeIds -> Int]
        /\ \A x \in BridgeIds : refs'[x] = refs[x] + CallHold(k, x)
    <2>1. refs \in [BridgeIds -> Int]
      BY DEF MirrorInv, MirrorTypes
    <2>2. k \in CallStates
      BY <1>6 DEF CallStates
    <2>3. ASSUME NEW x \in BridgeIds PROVE CallHold(k, x) = IF x \in new THEN 1 ELSE 0
      <3>1. CallHold(k, x) = One(k.bridge, x) + One(k.audio_bridge, x)
        BY <1>6, <2>2, CallHoldIs
      <3>2. x # 0
        BY BridgesPositive
      <3> QED
        BY <1>2, <1>6, <3>1, <3>2 DEF One
    <2>4. \A x \in new : refs[x] = 0
      BY <1>2 DEF Unused
    <2> QED
      BY <1>1, <2>1, <2>3, <2>4
  <1>10. call[c].at \in {"open", "audio"} /\ "video" \in Streams /\ k.at \in {"opening", "audio_opening"}
         /\ k.previous = runtime.generation /\ k.at # "audio_opening"
    BY <1>1, <1>6 DEF Streams
  <1>11. Begins(c, k, new, "video", b)
    BY <1>1, <1>6, <1>7, <1>8, <1>9, <1>10 DEF Begins
  <1> QED
    BY <1>2, <1>6, <1>10, <1>11, BeginMoves

\* airplay_mirror_runtime_open_audio reserves the sound's.
LEMMA AudioBeginsStep ==
    ASSUME MirrorInv, NEW c \in Connections, audio_begins(c)
    PROVE  MirrorInv'
  <1> DEFINE new == Fresh(1)
             b == CHOOSE x \in new : TRUE
             g == runtime.generation
             old == runtime.bridge
             k == [call[c] EXCEPT !.at = "audio_opening", !.audio_bridge = b, !.bridge = old, !.previous = g]
  <1>1. /\ call[c].at = "audio" /\ may_open_audio(c) /\ CanAllocate(1)
        /\ refs' = [x \in BridgeIds |-> IF x = b THEN 1 ELSE IF x = old THEN refs[x] + 1 ELSE refs[x]]
        /\ cancelled' = cancelled \ new
        /\ threads' = [threads EXCEPT ![<<"audio", b>>] = NewThread]
        /\ Step(c, k) /\ runtime' = [runtime EXCEPT !.opening = TRUE]
        /\ UNCHANGED <<commands, worker, context, lease, player>>
    BY DEF audio_begins
  <1>2. new \in SUBSET Unused /\ b \in new /\ b \in Unused /\ new = {b}
    <2>1. PICK x \in Unused : Fresh(1) = {x} /\ x = CHOOSE z \in Fresh(1) : TRUE
      BY <1>1, FreshOne
    <2> QED
      BY <2>1
  <1> HIDE DEF new, b
  <1>3. b \in BridgeIds /\ b \in Ids /\ b # 0 /\ refs[b] = 0 /\ old # b
    BY <1>2, UnusedFree DEF Ids
  <1>4. call[c] \in Opens /\ g \in Nat /\ old \in Ids
    BY <1>1, OpensTyped DEF MirrorInv, MirrorTypes, Runtimes
  <1>6. k \in Opens /\ k.at = "audio_opening" /\ k.bridge = old /\ k.audio_bridge = b /\ k.previous = g
    <2>1. PICK at \in {"open", "opening", "audio", "audio_opening", "record"} : at = "audio_opening"
      OBVIOUS
    <2>2. k = [call[c] EXCEPT !.at = at, !.audio_bridge = b, !.bridge = old, !.previous = g]
      BY <2>1
    <2> HIDE DEF k, g, old
    <2> QED
      BY <1>3, <1>4, <2>1, <2>2 DEF Opens
  <1> HIDE DEF k
  <1>7. OpenLinked(k)
    BY <1>3, <1>6 DEF OpenLinked
  <1>8. Owns(k, "audio") = b /\ \A r \in Streams \ {"audio"} : Owns(k, r) = 0
    BY <1>6 DEF Owns, Streams
  <1>9. /\ refs' \in [BridgeIds -> Int]
        /\ \A x \in BridgeIds : refs'[x] = refs[x] + CallHold(k, x)
    <2>1. refs \in [BridgeIds -> Int]
      BY DEF MirrorInv, MirrorTypes
    <2>2. k \in CallStates
      BY <1>6 DEF CallStates
    <2>3. ASSUME NEW x \in BridgeIds
          PROVE  CallHold(k, x) = IF x = b THEN 1 ELSE IF x = old THEN 1 ELSE 0
      <3>1. CallHold(k, x) = One(k.bridge, x) + One(k.audio_bridge, x)
        BY <1>6, <2>2, CallHoldIs
      <3> QED
        BY <1>3, <1>6, <3>1 DEF One
    <2> QED
      BY <1>1, <1>3, <2>1, <2>3
  <1>10. call[c].at \in {"open", "audio"} /\ "audio" \in Streams /\ k.at \in {"opening", "audio_opening"}
         /\ k.previous = runtime.generation /\ k.at # "opening" /\ runtime.transport = c
    BY <1>1, <1>6 DEF Streams, may_open_audio
  <1>11. Begins(c, k, new, "audio", b)
    BY <1>1, <1>6, <1>7, <1>8, <1>9, <1>10 DEF Begins
  <1> QED
    BY <1>2, <1>6, <1>10, <1>11, BeginMoves

\* A call that ends gives back exactly what it holds.
LEMMA CallDrops ==
    ASSUME MirrorInv, NEW c \in Callers, NEW bs, \A x : Count(bs, x) = CallHold(call[c], x),
           refs' = counted(commands, <<>>, bs)
    PROVE  refs' \in [BridgeIds -> Int] /\ \A x \in BridgeIds : refs'[x] = refs[x] - CallHold(call[c], x)
  <1>1. call[c] \in CallStates
    BY DEF MirrorInv, MirrorTypes
  <1>2. \A x : CallHold(call[c], x) \in 0 .. 2
    BY <1>1, CallHoldIs
  <1>3. \A x : Count(<<>>, x) = 0
    BY CountNone
  <1>4. commands \in Queues /\ MirrorTypes
    BY DEF MirrorInv, MirrorTypes, QueueTypes, Queues
  <1>6. \A x \in BridgeIds : Count(bs, x) \in Int /\ Count(<<>>, x) \in Int
    BY <1>2, <1>3
  <1>7. /\ refs' \in [BridgeIds -> Int]
        /\ \A x \in BridgeIds : refs'[x] = refs[x] + (InQueue(commands, x) - InQueue(commands, x))
                                           + Count(<<>>, x) - Count(bs, x)
    BY <1>4, <1>6, CountedIs
  <1>8. \A x \in BridgeIds : InQueue(commands, x) \in Nat /\ refs[x] \in Int
    BY InQueueType DEF MirrorInv, MirrorTypes, QueueTypes
  <1> QED
    BY <1>2, <1>3, <1>7, <1>8

\* An open that fails destroys what it made.
LEMMA OpenFails ==
    ASSUME MirrorInv, NEW c \in Connections, call[c].at \in {"opening", "audio_opening"},
           NEW s \in Streams, NEW b \in BridgeIds, Owns(call[c], s) = b,
           \A r \in Streams \ {s} : Owns(call[c], r) = 0, ~threads[<<s, b>>].recording,
           NEW k \in Plain, k.at = "failed", Step(c, k),
           threads' = [threads EXCEPT ![<<s, b>>] = NoThread],
           refs' \in [BridgeIds -> Int], \A x \in BridgeIds : refs'[x] = refs[x] - CallHold(call[c], x),
           UNCHANGED <<worker, cancelled, context, lease, player>>,
           runtime' \in Runtimes, SameStreams, runtime'.transport = runtime.transport,
           runtime'.opening => ~Frees(call[c], c),
           QueueTypes', \A x \in BridgeIds : InQueue(commands', x) = InQueue(commands, x)
    PROVE  MirrorInv'
  <1>1. k \in CallStates /\ c \in Callers /\ c # "app" /\ call[c] \in CallStates
    BY PlacesTyped DEF CallStates, MirrorInv, MirrorTypes
  <1>2. /\ call' \in [Callers -> CallStates] /\ FewCalls'
        /\ call'[c] = k /\ \A d \in Callers \ {c} : call'[d] = call[d]
        /\ BeingCancelled \subseteq BeingCancelled'
    BY <1>1, CallChanged
  <1> DEFINE t0 == <<s, b>>
  <1>3. t0 \in Streams \X BridgeIds /\ threads[t0].on = {}
    <2>1. t0 \in Streams \X BridgeIds
      OBVIOUS
    <2> QED
      BY <2>1 DEF MirrorInv, ThreadsQuiet
  <1>4. /\ NoThread \in ThreadStates /\ ~NoThread.live /\ ~NoThread.recording /\ NoThread.on = {}
        /\ NoThread.waits = {}
    BY DEF NoThread, ThreadStates
  <1>5. /\ threads \in [Streams \X BridgeIds -> ThreadStates]
        /\ threads' \in [Streams \X BridgeIds -> ThreadStates]
        /\ threads'[t0] = NoThread /\ \A t \in (Streams \X BridgeIds) \ {t0} : threads'[t] = threads[t]
    BY <1>3, <1>4 DEF MirrorInv, MirrorTypes
  <1> HIDE DEF t0
  <1>6. ASSUME NEW x \in BridgeIds PROVE refs'[x] = refs[x] - CallHold(call[c], x)
    OBVIOUS
  <1>7. MirrorTypes'
    BY <1>2, <1>5, <1>6 DEF MirrorInv, MirrorTypes
  <1>8. RefsBalanced'
    <2>1. \A t \in Streams \X BridgeIds : threads'[t].on = threads[t].on
      BY <1>3, <1>4, <1>5
    <2>2. ASSUME NEW x \in BridgeIds PROVE ThreadsHeld(threads', x) = ThreadsHeld(threads, x)
      <3>1. {t \in DOMAIN threads : x \in threads[t].on} = {t \in DOMAIN threads' : x \in threads'[t].on}
        BY <1>5, <2>1
      <3> QED
        BY <3>1, Zenon DEF ThreadsHeld
    <2>3. ASSUME NEW x \in BridgeIds
          PROVE  refs'[x] = refs[x] + One(runtime'.bridge, x) + One(runtime'.audio_bridge, x)
                         - One(runtime.bridge, x) - One(runtime.audio_bridge, x)
                         + CallHold(k, x) - CallHold(call[c], x)
      <3>1. refs[x] \in Int
        BY DEF MirrorInv, MirrorTypes
      <3>2. CallHold(call[c], x) \in 0 .. 2 /\ CallHold(k, x) = 0
        BY <1>1, CallHoldIs
      <3>3. One(runtime.bridge, x) \in Nat /\ One(runtime.audio_bridge, x) \in Nat
        BY DEF One
      <3>4. One(runtime'.bridge, x) = One(runtime.bridge, x) /\ One(runtime'.audio_bridge, x) = One(runtime.audio_bridge, x)
        BY DEF SameStreams
      <3> QED
        BY <1>6, <3>1, <3>2, <3>3, <3>4
    <2> QED
      BY <1>1, <2>2, <2>3, BalancedMoved
  <1>9. RuntimeLinked' /\ TransportInitial'
    BY DEF MirrorInv, RuntimeLinked, TransportInitial, SameStreams
  <1>10. CallsLinked'
    <2>1. OpenLinked(k) /\ k.at \notin {"open", "opening", "audio", "audio_opening"}
      BY DEF OpenLinked
    <2> QED
      BY <1>1, <1>2, <2>1, LinkedMoved
  <1>11. ThreadsOwned'
    <2> SUFFICES ASSUME NEW r \in Streams
                 PROVE  /\ \A x \in BridgeIds :
                              threads'[<<r, x>>].live <=>
                                 RuntimeOwns(r)' = x \/ \E d \in Callers : Owns(call'[d], r) = x
                        /\ \A d \in Callers : Owns(call'[d], r) # 0 =>
                              /\ Owns(call'[d], r) # RuntimeOwns(r)'
                              /\ \A e \in Callers : Owns(call'[e], r) = Owns(call'[d], r) => d = e
      BY DEF ThreadsOwned
    <2>1. RuntimeOwns(r)' = RuntimeOwns(r)
      BY DEF RuntimeOwns, SameStreams
    <2>2. Owns(call'[c], r) = 0 /\ Owns(call[c], r) = (IF r = s THEN b ELSE 0)
      BY <1>2 DEF Owns
    <2>3. \A d \in Callers \ {c} : Owns(call'[d], r) = Owns(call[d], r)
      BY <1>2
    <2>4. /\ \A x \in BridgeIds :
               threads[<<r, x>>].live <=> RuntimeOwns(r) = x \/ \E d \in Callers : Owns(call[d], r) = x
          /\ \A d \in Callers : Owns(call[d], r) # 0 =>
               /\ Owns(call[d], r) # RuntimeOwns(r)
               /\ \A e \in Callers : Owns(call[e], r) = Owns(call[d], r) => d = e
      BY DEF MirrorInv, ThreadsOwned
    <2>5. \A x \in BridgeIds : threads'[<<r, x>>].live <=> threads[<<r, x>>].live /\ ~(r = s /\ x = b)
      <3> SUFFICES ASSUME NEW x \in BridgeIds
                   PROVE threads'[<<r, x>>].live <=> threads[<<r, x>>].live /\ ~(r = s /\ x = b)
        OBVIOUS
      <3>1. <<r, x>> \in Streams \X BridgeIds /\ (<<r, x>> = t0 <=> r = s /\ x = b)
        BY DEF t0
      <3> QED
        BY <1>4, <1>5, <3>1
    <2>6. b # 0
      BY BridgesPositive
    <2> HIDE DEF Owns, RuntimeOwns
    <2>7. ASSUME NEW x \in BridgeIds
          PROVE  threads'[<<r, x>>].live <=> RuntimeOwns(r)' = x \/ \E d \in Callers : Owns(call'[d], r) = x
      <3>1. x # 0
        BY BridgesPositive
      <3>2. CASE r = s /\ x = b
        BY <1>1, <2>1, <2>2, <2>3, <2>4, <2>5, <2>6, <3>1, <3>2
      <3>3. CASE ~(r = s /\ x = b)
        BY <1>1, <2>1, <2>2, <2>3, <2>4, <2>5, <2>6, <3>1, <3>3
      <3> QED
        BY <3>2, <3>3
    <2>8. ASSUME NEW d \in Callers, Owns(call'[d], r) # 0
          PROVE  /\ Owns(call'[d], r) # RuntimeOwns(r)'
                 /\ \A e \in Callers : Owns(call'[e], r) = Owns(call'[d], r) => d = e
      BY <1>1, <2>1, <2>2, <2>3, <2>4, <2>6, <2>8
    <2> QED
      BY <2>7, <2>8
  <1>12. ThreadsQuiet'
    BY <1>3, <1>4, <1>5 DEF MirrorInv, ThreadsQuiet
  <1>13. OpensQuiet'
    <2> SUFFICES ASSUME NEW d \in Connections, NEW r \in Streams, NEW x,
                        \/ call'[d].at = "opening" /\ r = "video" /\ x = call'[d].bridge
                        \/ call'[d].at = "audio_opening" /\ r = "audio" /\ x = call'[d].audio_bridge
                 PROVE  ~threads'[<<r, x>>].recording
      BY DEF OpensQuiet, Streams
    <2>1. d # c
      BY <1>2
    <2>2. call'[d] = call[d] /\ call[d] \in CallStates
      BY <1>2, <2>1 DEF Callers, MirrorInv, MirrorTypes
    <2>3. call[d] \in Opens
      BY <2>2 DEF CallStates, Plain, Opens, Claims, Stops
    <2>4. x \in BridgeIds
      BY <2>2, <2>3 DEF MirrorInv, CallsLinked, OpenLinked, Opens, Ids
    <2>5. ~threads[<<r, x>>].recording
      BY <2>2 DEF MirrorInv, OpensQuiet
    <2>6. <<r, x>> \in Streams \X BridgeIds
      BY <2>4
    <2> QED
      BY <1>4, <1>5, <2>5, <2>6
  <1>14. WaitsEnd'
    <2>1. \A t \in Streams \X BridgeIds : threads'[t].waits \subseteq threads[t].waits
      BY <1>4, <1>5
    <2>2. DOMAIN threads' = Streams \X BridgeIds /\ DOMAIN threads = Streams \X BridgeIds
      BY <1>5
    <2> QED
      BY <1>2, <2>1, <2>2 DEF MirrorInv, WaitsEnd, SameStreams
  <1>15. OpeningOwned'
    <2> SUFFICES ASSUME runtime'.opening PROVE \E d \in Connections : Frees(call[d], d)'
      BY DEF OpeningOwned
    <2>1. PICK d \in Connections : Frees(call[d], d)
      BY DEF MirrorInv, OpeningOwned, SameStreams
    <2>2. d # c /\ call'[d] = call[d]
      BY <1>2, <2>1 DEF Callers
    <2>3. Frees(call[d], d)'
      BY <2>1, <2>2 DEF Frees, SameStreams
    <2> QED
      BY <2>3
  <1> QED
    BY <1>2, <1>7, <1>8, <1>9, <1>10, <1>11, <1>12, <1>13, <1>14, <1>15 DEF MirrorInv

\* One receiver thread at most is told to record.
OneRecords(t0) ==
    /\ threads' \in [Streams \X BridgeIds -> ThreadStates]
    /\ \A t \in Streams \X BridgeIds :
          /\ threads'[t].on = threads[t].on /\ threads'[t].waits = threads[t].waits
          /\ threads'[t].live <=> threads[t].live
          /\ threads[t].recording => threads'[t].recording
          /\ t # t0 => threads'[t] = threads[t]
\* Starting one receiver leaves the others as they were.
LEMMA RecordingOne ==
    ASSUME MirrorTypes, NEW t0, NEW on \in BOOLEAN, threads' = set_recording({t0}, on)
    PROVE  OneRecords(t0)
  <1>1. threads \in [Streams \X BridgeIds -> ThreadStates] /\ DOMAIN threads = Streams \X BridgeIds
    BY DEF MirrorTypes
  <1>2. \A t \in Streams \X BridgeIds :
           LET q == [threads[t] EXCEPT !.recording = TRUE]
           IN  /\ q \in ThreadStates /\ q.recording /\ q.live = threads[t].live
               /\ q.on = threads[t].on /\ q.waits = threads[t].waits
    BY <1>1 DEF ThreadStates
  <1>3. \A t \in Streams \X BridgeIds :
           threads'[t] = IF on /\ t \in {t0} THEN [threads[t] EXCEPT !.recording = TRUE] ELSE threads[t]
    BY <1>1 DEF set_recording
  <1>4. threads' \in [Streams \X BridgeIds -> ThreadStates]
    BY <1>1, <1>2, <1>3 DEF set_recording
  <1>5. \A t \in Streams \X BridgeIds :
           /\ threads'[t].on = threads[t].on /\ threads'[t].live = threads[t].live
           /\ threads'[t].waits = threads[t].waits
           /\ t # t0 => threads'[t] = threads[t]
    BY <1>2, <1>3
  <1> QED
    BY <1>2, <1>3, <1>4, <1>5 DEF OneRecords

\* An open that succeeds gives the runtime what it made.
LEMMA OpenPublishes ==
    ASSUME MirrorInv, NEW c \in Connections, call[c].at \in {"opening", "audio_opening"},
           NEW s \in Streams, NEW b \in BridgeIds, Owns(call[c], s) = b,
           \A r \in Streams \ {s} : Owns(call[c], r) = 0,
           NEW k \in Opens, k.at \in {"audio", "record"}, Step(c, k),
           OneRecords(<<s, b>>),
           refs' \in [BridgeIds -> Int],
           \A x \in BridgeIds :
              refs'[x] = refs[x] + One(runtime'.bridge, x) + One(runtime'.audio_bridge, x)
                         - One(runtime.bridge, x) - One(runtime.audio_bridge, x) - CallHold(call[c], x),
           UNCHANGED <<worker, lease, player>>,
           cancelled \subseteq cancelled', cancelled' \subseteq BridgeIds,
           {runtime.bridge, runtime.audio_bridge} \subseteq
               cancelled' \cup {runtime'.bridge, runtime'.audio_bridge, 0},
           runtime' \in Runtimes, RuntimeLinked', runtime'.transport = c, ~runtime'.opening,
           RuntimeOwns(s) = 0, RuntimeOwns(s)' = b,
           \A r \in Streams \ {s} : RuntimeOwns(r)' = RuntimeOwns(r),
           context' \in [Connections -> ContextStates],
           \A d \in Connections : context'[d].initial = context[d].initial,
           QueueTypes', \A x \in BridgeIds : InQueue(commands', x) = InQueue(commands, x)
    PROVE  MirrorInv'
  <1>1. k \in CallStates /\ c \in Callers /\ c # "app" /\ call[c] \in CallStates /\ context[c].initial
    BY PlacesTyped DEF CallStates, MirrorInv, MirrorTypes, CallsLinked
  <1>2. /\ call' \in [Callers -> CallStates] /\ FewCalls'
        /\ call'[c] = k /\ \A d \in Callers \ {c} : call'[d] = call[d]
        /\ BeingCancelled \subseteq BeingCancelled'
    BY <1>1, CallChanged
  <1> DEFINE t0 == <<s, b>>
  <1>3. /\ threads \in [Streams \X BridgeIds -> ThreadStates]
        /\ threads' \in [Streams \X BridgeIds -> ThreadStates]
        /\ \A t \in Streams \X BridgeIds :
              /\ threads'[t].on = threads[t].on /\ threads'[t].waits = threads[t].waits
              /\ threads'[t].live <=> threads[t].live
              /\ threads[t].recording => threads'[t].recording
              /\ t # t0 => threads'[t] = threads[t]
    BY DEF MirrorInv, MirrorTypes, OneRecords
  <1> HIDE DEF t0
  <1>4. MirrorTypes'
    BY <1>2, <1>3 DEF MirrorInv, MirrorTypes
  <1>5. RefsBalanced'
    <2>1. ASSUME NEW x \in BridgeIds PROVE ThreadsHeld(threads', x) = ThreadsHeld(threads, x)
      <3>1. {t \in DOMAIN threads : x \in threads[t].on} = {t \in DOMAIN threads' : x \in threads'[t].on}
        BY <1>3
      <3> QED
        BY <3>1, Zenon DEF ThreadsHeld
    <2>2. ASSUME NEW x \in BridgeIds
          PROVE  refs'[x] = refs[x] + One(runtime'.bridge, x) + One(runtime'.audio_bridge, x)
                         - One(runtime.bridge, x) - One(runtime.audio_bridge, x)
                         + CallHold(k, x) - CallHold(call[c], x)
      <3>1. refs[x] \in Int
        BY DEF MirrorInv, MirrorTypes
      <3>2. CallHold(call[c], x) \in 0 .. 2 /\ CallHold(k, x) = 0
        BY <1>1, CallHoldIs
      <3>3. \A y : One(y, x) \in Nat
        BY DEF One
      <3>4. refs'[x] = refs[x] + One(runtime'.bridge, x) + One(runtime'.audio_bridge, x)
                         - One(runtime.bridge, x) - One(runtime.audio_bridge, x) - CallHold(call[c], x)
        OBVIOUS
      <3> QED
        BY <3>1, <3>2, <3>3, <3>4
    <2> QED
      BY <1>1, <2>1, <2>2, BalancedMoved
  <1>6. TransportInitial'
    BY <1>1 DEF TransportInitial
  <1>7. CallsLinked'
    <2>1. OpenLinked(k)
      BY DEF OpenLinked
    <2> QED
      BY <1>1, <1>2, <2>1, LinkedMoved
  <1>8. ThreadsOwned'
    <2> SUFFICES ASSUME NEW r \in Streams
                 PROVE  /\ \A x \in BridgeIds :
                              threads'[<<r, x>>].live <=>
                                 RuntimeOwns(r)' = x \/ \E d \in Callers : Owns(call'[d], r) = x
                        /\ \A d \in Callers : Owns(call'[d], r) # 0 =>
                              /\ Owns(call'[d], r) # RuntimeOwns(r)'
                              /\ \A e \in Callers : Owns(call'[e], r) = Owns(call'[d], r) => d = e
      BY DEF ThreadsOwned
    <2>1. Owns(call'[c], r) = 0 /\ Owns(call[c], r) = (IF r = s THEN b ELSE 0)
      BY <1>2 DEF Owns
    <2>2. \A d \in Callers \ {c} : Owns(call'[d], r) = Owns(call[d], r)
      BY <1>2
    <2>3. /\ \A x \in BridgeIds :
               threads[<<r, x>>].live <=> RuntimeOwns(r) = x \/ \E d \in Callers : Owns(call[d], r) = x
          /\ \A d \in Callers : Owns(call[d], r) # 0 =>
               /\ Owns(call[d], r) # RuntimeOwns(r)
               /\ \A e \in Callers : Owns(call[e], r) = Owns(call[d], r) => d = e
      BY DEF MirrorInv, ThreadsOwned
    <2>4. \A x \in BridgeIds : threads'[<<r, x>>].live <=> threads[<<r, x>>].live
      <3>1. \A x \in BridgeIds : <<r, x>> \in Streams \X BridgeIds
        OBVIOUS
      <3> QED
        BY <1>3, <3>1
    <2>5. b # 0
      BY BridgesPositive
    <2> HIDE DEF Owns, RuntimeOwns
    <2>6. CASE r = s
      <3>1. RuntimeOwns(r) = 0 /\ RuntimeOwns(r)' = b
        BY <2>6
      <3>2. \A x \in BridgeIds :
               threads'[<<r, x>>].live <=> RuntimeOwns(r)' = x \/ \E d \in Callers : Owns(call'[d], r) = x
        <4> SUFFICES ASSUME NEW x \in BridgeIds
                     PROVE  threads'[<<r, x>>].live <=> RuntimeOwns(r)' = x \/ \E d \in Callers : Owns(call'[d], r) = x
          OBVIOUS
        <4>1. x # 0
          BY BridgesPositive
        <4>2. CASE x = b
          BY <1>1, <2>1, <2>3, <2>4, <2>6, <3>1, <4>2
        <4>3. CASE x # b
          BY <1>1, <2>1, <2>2, <2>3, <2>4, <2>6, <3>1, <4>1, <4>3
        <4> QED
          BY <4>2, <4>3
      <3>3. ASSUME NEW d \in Callers, Owns(call'[d], r) # 0
            PROVE  /\ Owns(call'[d], r) # RuntimeOwns(r)'
                   /\ \A e \in Callers : Owns(call'[e], r) = Owns(call'[d], r) => d = e
        BY <1>1, <2>1, <2>2, <2>3, <2>6, <3>1, <3>3
      <3> QED
        BY <3>2, <3>3
    <2>7. CASE r # s
      <3>1. RuntimeOwns(r)' = RuntimeOwns(r)
        BY <2>7
      <3>2. \A d \in Callers : Owns(call'[d], r) = Owns(call[d], r)
        BY <2>1, <2>2, <2>7
      <3> QED
        BY <2>3, <2>4, <3>1, <3>2
    <2> QED
      BY <2>6, <2>7
  <1>9. ThreadsQuiet'
    <2>1. threads[t0].live
      <3>1. threads[<<s, b>>].live
        BY <1>1 DEF MirrorInv, ThreadsOwned
      <3> QED
        BY <3>1 DEF t0
    <2> SUFFICES ASSUME NEW u \in Streams \X BridgeIds
                 PROVE  /\ ~threads'[u].live => ~threads'[u].recording
                        /\ ~threads'[u].recording => threads'[u].on = {}
                        /\ threads'[u].waits \subseteq threads'[u].on
      BY DEF ThreadsQuiet
    <2>2. /\ ~threads[u].live => ~threads[u].recording
          /\ ~threads[u].recording => threads[u].on = {}
          /\ threads[u].waits \subseteq threads[u].on
      BY DEF MirrorInv, ThreadsQuiet
    <2>3. CASE u = t0
      BY <1>3, <2>1, <2>2, <2>3
    <2>4. CASE u # t0
      BY <1>3, <2>2, <2>4
    <2> QED
      BY <2>3, <2>4
  <1>10. OpensQuiet'
    <2> SUFFICES ASSUME NEW d \in Connections, NEW r \in Streams, NEW x,
                        \/ call'[d].at = "opening" /\ r = "video" /\ x = call'[d].bridge
                        \/ call'[d].at = "audio_opening" /\ r = "audio" /\ x = call'[d].audio_bridge
                 PROVE  ~threads'[<<r, x>>].recording
      BY DEF OpensQuiet, Streams
    <2>1. d # c /\ d \in Callers
      BY <1>2 DEF Callers
    <2>2. call'[d] = call[d] /\ call[d] \in CallStates
      BY <1>2, <2>1 DEF MirrorInv, MirrorTypes
    <2>3. call[d] \in Opens
      BY <2>2 DEF CallStates, Plain, Opens, Claims, Stops
    <2>4. x \in BridgeIds
      BY <2>2, <2>3 DEF MirrorInv, CallsLinked, OpenLinked, Opens, Ids
    <2>5. ~threads[<<r, x>>].recording
      BY <2>2 DEF MirrorInv, OpensQuiet
    <2>6. Owns(call[d], r) = x /\ x # 0
      BY <2>2, <2>4, BridgesPositive DEF Owns
    <2>7. <<r, x>> \in Streams \X BridgeIds /\ <<r, x>> # t0
      <3>1. ~(r = s /\ x = b)
        BY <1>1, <2>1, <2>6 DEF MirrorInv, ThreadsOwned
      <3> QED
        BY <2>4, <3>1 DEF t0
    <2> QED
      BY <1>3, <2>5, <2>7
  <1>11. WaitsEnd'
    <2> SUFFICES ASSUME NEW t \in Streams \X BridgeIds, NEW x \in threads[t].waits
                 PROVE  x \in cancelled' \cup BeingCancelled' \cup {runtime'.bridge, runtime'.audio_bridge}
      BY <1>3 DEF WaitsEnd
    <2>1. x # 0
      BY <1>3, BridgesPositive DEF ThreadStates
    <2>2. x \in cancelled \cup BeingCancelled \cup {runtime.bridge, runtime.audio_bridge}
      BY <1>3 DEF MirrorInv, WaitsEnd
    <2> QED
      BY <1>2, <2>1, <2>2
  <1>12. OpeningOwned'
    BY DEF OpeningOwned
  <1> QED
    BY <1>2, <1>4, <1>5, <1>6, <1>7, <1>8, <1>9, <1>10, <1>11, <1>12 DEF MirrorInv

\* A connection's stream is set up: nothing else of its state changes.
LEMMA SetUp ==
    ASSUME MirrorInv, NEW c \in Connections, NEW s \in Streams,
           context' = [context EXCEPT ![c].setup = @ \cup {s}]
    PROVE  /\ context' \in [Connections -> ContextStates]
           /\ \A d \in Connections : context'[d].initial = context[d].initial
  <1>1. context[c] \in ContextStates
    BY ContextsTyped
  <1>2. PICK setup \in SUBSET Streams : setup = context[c].setup \cup {s}
    BY <1>1 DEF ContextStates
  <1>3. context' = [context EXCEPT ![c] = [context[c] EXCEPT !.setup = setup]]
    BY <1>2
  <1>4. /\ [context[c] EXCEPT !.setup = setup] \in ContextStates
        /\ [context[c] EXCEPT !.setup = setup].initial = context[c].initial
    BY <1>1 DEF ContextStates
  <1> QED
    BY <1>3, <1>4, ContextsTyped

\* A failed call is an ordinary one.
LEMMA FailedTyped == \E k \in Plain : k = [at |-> "failed"] /\ k.at = "failed"
  <1> DEFINE k == [at |-> "failed"]
  <1>1. k \in Plain /\ k = [at |-> "failed"] /\ k.at = "failed"
    BY DEF Plain
  <1> HIDE DEF k
  <1> QED
    BY <1>1

\* airplay_mirror_runtime_open finds everything as it was left.
LEMMA OpenAcceptedStep ==
    ASSUME MirrorInv, NEW c \in Connections, NEW ok \in BOOLEAN, open_ends(c, ok), ok, open_accepted(c)
    PROVE  MirrorInv'
  <1> DEFINE b == call[c].bridge
             ab == call[c].audio_bridge
             next == next_generation(call[c].previous)
             opened == [runtime EXCEPT
                        !.mirror = b, !.bridge = b, !.audio_bridge = ab,
                        !.attach_queued = FALSE, !.transport = c, !.session = c,
                        !.generation = next, !.load_queued = FALSE,
                        !.play_queued = FALSE, !.opening = FALSE, !.audio_only = FALSE]
             at == IF "audio" \in call[c].todo THEN "audio" ELSE "record"
             k == [call[c] EXCEPT !.at = at]
             old == runtime.bridge
  <1>1. /\ call[c].at = "opening" /\ commands' = set_status(commands, opened, "PREPARING")
        /\ runtime' = [opened EXCEPT !.status = "PREPARING"]
        /\ refs' = counted(commands, <<>>, <<old>>)
        /\ cancelled' = cancelled \cup ({old} \ {0})
        /\ context' = [context EXCEPT ![c].setup = @ \cup {"video"}]
        /\ threads' = set_recording({<<"video", b>>}, runtime.recording)
        /\ Step(c, k) /\ UNCHANGED <<worker, lease, player>>
    BY DEF open_ends
  <1>2. call[c] \in Opens /\ c \in Callers /\ call[c] \in CallStates /\ c \in Peers /\ c # "none" /\ runtime \in Runtimes
    BY <1>1, OpensTyped, PlacesTyped DEF CallStates, MirrorInv, MirrorTypes
  <1>3. /\ b \in BridgeIds /\ ab \in Ids /\ ab # b /\ (call[c].promotion <=> ab # 0) /\ b \in Ids /\ b # 0
        /\ next \in Nat
    <2>1. b # 0 /\ ab # b /\ (call[c].promotion <=> ab # 0)
      BY <1>1 DEF MirrorInv, CallsLinked, OpenLinked
    <2> QED
      BY <1>2, <2>1 DEF Opens, Ids, next_generation
  <1>4. /\ runtime.mirror = 0 /\ runtime.audio_bridge = 0 /\ (ab # 0 => runtime.audio # 0)
    BY <1>3 DEF open_accepted, MirrorInv, RuntimeLinked
  <1>5. k \in Opens /\ k.at = at /\ at \in {"audio", "record"}
    <2>1. PICK x \in {"open", "opening", "audio", "audio_opening", "record"} : x = at
      OBVIOUS
    <2>2. k = [call[c] EXCEPT !.at = x]
      BY <2>1
    <2> QED
      BY <1>2, <2>1, <2>2 DEF Opens
  <1>6. Owns(call[c], "video") = b /\ \A r \in Streams \ {"video"} : Owns(call[c], r) = 0
    BY <1>1 DEF Owns, Streams
  <1>7. old \in Ids
    BY <1>2 DEF Runtimes
  <1> HIDE DEF k, at, b, ab, next
  <1> DEFINE first == [runtime EXCEPT !.mirror = b, !.bridge = b, !.audio_bridge = ab, !.attach_queued = FALSE]
             second == [first EXCEPT !.transport = c, !.session = c, !.generation = next, !.load_queued = FALSE]
             third == [second EXCEPT !.play_queued = FALSE, !.opening = FALSE, !.audio_only = FALSE]
  <1>8. opened = third
    BY <1>2 DEF Runtimes
  <1>9. /\ first \in Runtimes /\ first.mirror = b /\ first.bridge = b /\ first.audio_bridge = ab
        /\ first.audio = runtime.audio
    BY <1>2, <1>3 DEF Runtimes
  <1> HIDE DEF first
  <1>10. /\ second \in Runtimes /\ second.mirror = first.mirror /\ second.bridge = first.bridge
         /\ second.audio_bridge = first.audio_bridge /\ second.audio = first.audio
         /\ second.transport = c /\ second.session = c /\ second.generation = next /\ ~second.load_queued
    BY <1>2, <1>3, <1>9 DEF Runtimes
  <1> HIDE DEF second
  <1>11. /\ third \in Runtimes /\ third.mirror = second.mirror /\ third.bridge = second.bridge
         /\ third.audio_bridge = second.audio_bridge /\ third.audio = second.audio
         /\ third.transport = second.transport /\ third.session = second.session
         /\ third.generation = second.generation /\ third.load_queued = second.load_queued
         /\ ~third.opening /\ ~third.audio_only
    BY <1>10 DEF Runtimes
  <1>12. third.generation \in Nat /\ runtime' = [third EXCEPT !.status = "PREPARING"]
         /\ commands' = set_status(commands, third, "PREPARING")
    BY <1>1, <1>3, <1>8, <1>10, <1>11
  <1> HIDE DEF third, opened
  <1>13. /\ runtime' \in Runtimes /\ runtime'.mirror = b /\ runtime'.bridge = b /\ runtime'.audio_bridge = ab
         /\ runtime'.audio = runtime.audio /\ runtime'.transport = c /\ runtime'.session = c
         /\ ~runtime'.load_queued /\ ~runtime'.opening /\ ~runtime'.audio_only
    <2>1. PICK status \in Statuses : status = "PREPARING"
      BY DEF Statuses
    <2>2. runtime' = [third EXCEPT !.status = status]
      BY <1>12, <2>1
    <2>3. /\ runtime' \in Runtimes /\ runtime'.mirror = third.mirror /\ runtime'.bridge = third.bridge
          /\ runtime'.audio_bridge = third.audio_bridge /\ runtime'.audio = third.audio
          /\ runtime'.transport = third.transport /\ runtime'.session = third.session
          /\ runtime'.load_queued = third.load_queued /\ runtime'.opening = third.opening
          /\ runtime'.audio_only = third.audio_only
      BY <1>11, <2>2 DEF Runtimes
    <2> QED
      BY <1>9, <1>10, <1>11, <2>3
  <1>14. RuntimeLinked'
    BY <1>2, <1>3, <1>4, <1>13 DEF RuntimeLinked
  <1>15. QueueTypes' /\ \A x \in BridgeIds : InQueue(commands', x) = InQueue(commands, x)
    <2>1. commands \in Queues /\ "PREPARING" \in Statuses
      BY DEF MirrorInv, MirrorTypes, QueueTypes, Queues, Statuses
    <2>2. commands' \in Queues /\ \A x \in BridgeIds : InQueue(commands', x) = InQueue(commands, x)
      BY <1>12, <2>1, StatusSet
    <2> QED
      BY <2>2 DEF QueueTypes, Queues
  <1>16. /\ refs' \in [BridgeIds -> Int]
         /\ \A x \in BridgeIds :
              refs'[x] = refs[x] + One(runtime'.bridge, x) + One(runtime'.audio_bridge, x)
                         - One(runtime.bridge, x) - One(runtime.audio_bridge, x) - CallHold(call[c], x)
    <2> DEFINE bs == <<old>>
    <2>1. \A x : Count(bs, x) = One(old, x) /\ Count(<<>>, x) = 0
      BY CountOne, CountNone
    <2>2. commands \in Queues /\ MirrorTypes
      BY DEF MirrorInv, MirrorTypes, QueueTypes, Queues
    <2>3. refs' = counted(commands, <<>>, bs)
      BY <1>1
    <2> HIDE DEF bs
    <2>4. \A x, y : One(y, x) \in Nat
      BY DEF One
    <2>5. /\ refs' \in [BridgeIds -> Int]
          /\ \A x \in BridgeIds : refs'[x] = refs[x] + (InQueue(commands, x) - InQueue(commands, x))
                                             + Count(<<>>, x) - Count(bs, x)
      BY <2>1, <2>2, <2>3, <2>4, CountedIs
    <2>6. ASSUME NEW x \in BridgeIds
          PROVE  refs'[x] = refs[x] + One(runtime'.bridge, x) + One(runtime'.audio_bridge, x)
                         - One(runtime.bridge, x) - One(runtime.audio_bridge, x) - CallHold(call[c], x)
      <3>1. InQueue(commands, x) \in Nat /\ refs[x] \in Int
        BY InQueueType DEF MirrorInv, MirrorTypes, QueueTypes
      <3>2. CallHold(call[c], x) = One(b, x) + One(ab, x)
        BY <1>1, <1>2, CallHoldIs DEF b, ab
      <3>3. One(runtime.audio_bridge, x) = 0
        BY <1>4, BridgesPositive DEF One
      <3>4. One(runtime'.bridge, x) = One(b, x) /\ One(runtime'.audio_bridge, x) = One(ab, x)
        BY <1>13
      <3>5. refs'[x] = refs[x] - One(old, x)
        BY <2>1, <2>4, <2>5, <3>1
      <3> QED
        BY <2>4, <3>1, <3>2, <3>3, <3>4, <3>5
    <2> QED
      BY <2>5, <2>6
  <1>17. /\ cancelled \subseteq cancelled' /\ cancelled' \subseteq BridgeIds
         /\ {runtime.bridge, runtime.audio_bridge} \subseteq cancelled' \cup {runtime'.bridge, runtime'.audio_bridge, 0}
    BY <1>1, <1>4, <1>7 DEF Ids, MirrorInv, MirrorTypes
  <1>18. /\ RuntimeOwns("video") = 0 /\ RuntimeOwns("video")' = b
         /\ \A r \in Streams \ {"video"} : RuntimeOwns(r)' = RuntimeOwns(r)
    BY <1>4, <1>13 DEF RuntimeOwns
  <1>19. /\ context' \in [Connections -> ContextStates]
         /\ \A d \in Connections : context'[d].initial = context[d].initial
    BY <1>1, SetUp DEF Streams
  <1>20. OneRecords(<<"video", b>>)
    <2>1. runtime.recording \in BOOLEAN /\ MirrorTypes
      BY <1>2 DEF Runtimes, MirrorInv
    <2>2. PICK t0 : t0 = <<"video", b>>
      OBVIOUS
    <2>3. OneRecords(t0)
      BY <1>1, <2>1, <2>2, RecordingOne
    <2> QED
      BY <2>2, <2>3
  <1>21. call[c].at \in {"opening", "audio_opening"} /\ "video" \in Streams /\ k.at \in {"audio", "record"}
         /\ Step(c, k) /\ UNCHANGED <<worker, lease, player>>
    BY <1>1, <1>5 DEF Streams
  <1> QED
    BY <1>3, <1>5, <1>6, <1>13, <1>14, <1>15, <1>16, <1>17, <1>18, <1>19, <1>20, <1>21, OpenPublishes

\* ... or not.
LEMMA OpenFailedStep ==
    ASSUME MirrorInv, NEW c \in Connections, NEW ok \in BOOLEAN, open_ends(c, ok), ~(ok /\ open_accepted(c))
    PROVE  MirrorInv'
  <1> DEFINE b == call[c].bridge
             ab == call[c].audio_bridge
             mine == runtime.opening /\ runtime.generation = call[c].previous
             failed == [runtime EXCEPT !.opening = FALSE]
             bs == <<b, ab>>
             t0 == <<"video", b>>
  <1>1. /\ call[c].at = "opening"
        /\ commands' = IF mine /\ ~call[c].promotion THEN set_status(commands, failed, "ERROR") ELSE commands
        /\ runtime' = IF ~mine THEN runtime
                      ELSE IF call[c].promotion THEN failed
                      ELSE [failed EXCEPT !.status = "ERROR"]
        /\ refs' = counted(commands, <<>>, bs)
        /\ threads' = [threads EXCEPT ![t0] = NoThread]
        /\ Step(c, [at |-> "failed"])
        /\ UNCHANGED <<cancelled, context, worker, lease, player>>
    BY DEF open_ends
  <1>2. call[c] \in Opens /\ c \in Callers /\ call[c] \in CallStates /\ runtime \in Runtimes
    BY <1>1, OpensTyped DEF CallStates, MirrorInv, MirrorTypes
  <1>3. b \in BridgeIds /\ ~threads[t0].recording
    <2>1. b # 0 /\ ~threads[t0].recording
      BY <1>1 DEF MirrorInv, CallsLinked, OpenLinked, OpensQuiet
    <2> QED
      BY <1>2, <2>1 DEF Opens, Ids
  <1>4. Owns(call[c], "video") = b /\ \A r \in Streams \ {"video"} : Owns(call[c], r) = 0
    BY <1>1 DEF Owns, Streams
  <1>5. \A x : Count(bs, x) = CallHold(call[c], x)
    <2> SUFFICES ASSUME NEW x PROVE Count(bs, x) = CallHold(call[c], x)
      OBVIOUS
    <2>1. Count(bs, x) = One(b, x) + One(ab, x)
      BY CountTwo, SMT
    <2>2. CallHold(call[c], x) = One(b, x) + One(ab, x)
      BY <1>1, <1>2, CallHoldIs
    <2> QED
      BY <2>1, <2>2
  <1>6. PICK k \in Plain : k = [at |-> "failed"] /\ k.at = "failed"
    BY FailedTyped
  <1>7. PICK status \in Statuses : status = "ERROR"
    BY DEF Statuses
  <1>8. /\ failed \in Runtimes /\ failed.generation = runtime.generation /\ runtime.generation \in Nat
        /\ [failed EXCEPT !.status = status] \in Runtimes
    BY <1>2 DEF Runtimes
  <1>9. runtime' \in Runtimes /\ SameStreams /\ runtime'.transport = runtime.transport
        /\ (mine => ~runtime'.opening) /\ (~mine => runtime' = runtime)
    <2>1. CASE ~mine
      BY <1>1, <1>2, <2>1 DEF SameStreams
    <2>2. CASE mine /\ call[c].promotion
      BY <1>1, <1>2, <1>8, <2>2 DEF SameStreams, Runtimes
    <2>3. CASE mine /\ ~call[c].promotion
      <3>1. runtime' = [failed EXCEPT !.status = status]
        BY <1>1, <1>7, <2>3
      <3> QED
        BY <1>2, <1>8, <2>3, <3>1 DEF SameStreams, Runtimes
    <2> QED
      BY <2>1, <2>2, <2>3
  <1>10. runtime'.opening => ~Frees(call[c], c)
    BY <1>1, <1>2, <1>9 DEF Frees, Stops, Stopped, Opens
  <1>11. QueueTypes' /\ \A x \in BridgeIds : InQueue(commands', x) = InQueue(commands, x)
    <2>1. commands \in Queues
      BY DEF MirrorInv, MirrorTypes, QueueTypes, Queues
    <2> HIDE DEF failed
    <2>2. commands' \in Queues /\ \A x \in BridgeIds : InQueue(commands', x) = InQueue(commands, x)
      BY <1>1, <1>7, <1>8, <2>1, StatusSet
    <2> QED
      BY <2>2 DEF QueueTypes, Queues
  <1>12. refs' = counted(commands, <<>>, bs)
    BY <1>1
  <1> HIDE DEF bs, mine, failed
  <1>13. refs' \in [BridgeIds -> Int] /\ \A x \in BridgeIds : refs'[x] = refs[x] - CallHold(call[c], x)
    BY <1>2, <1>5, <1>12, CallDrops
  <1>14. Step(c, k) /\ UNCHANGED <<worker, cancelled, context, lease, player>> /\ "video" \in Streams
         /\ threads' = [threads EXCEPT ![<<"video", b>>] = NoThread]
         /\ call[c].at \in {"opening", "audio_opening"}
    BY <1>1, <1>6 DEF Streams
  <1> HIDE DEF b
  <1> QED
    BY <1>3, <1>4, <1>6, <1>9, <1>10, <1>11, <1>13, <1>14, OpenFails

\* airplay_mirror_runtime_audio_open fails.
AudioAccepted(c, ok) ==
    /\ ok /\ runtime.opening /\ runtime.transport = c
    /\ runtime.session \in {"none", c} /\ runtime.generation = call[c].previous
    /\ runtime.audio = 0 /\ runtime.bridge = call[c].bridge
    /\ call[c].bridge = 0 => runtime.session = "none"
\* It fails: the call owns what it made and will drop it.
LEMMA AudioFailedStep ==
    ASSUME MirrorInv, NEW c \in Connections, NEW ok \in BOOLEAN, audio_ends(c, ok), ~AudioAccepted(c, ok)
    PROVE  MirrorInv'
  <1> DEFINE b == call[c].bridge
             ab == call[c].audio_bridge
             mine == runtime.opening /\ runtime.generation = call[c].previous /\ runtime.transport = c
             bs == <<b, ab>>
             t0 == <<"audio", ab>>
  <1>1. /\ call[c].at = "audio_opening"
        /\ runtime' = [runtime EXCEPT !.opening = @ /\ ~mine]
        /\ refs' = counted(commands, <<>>, bs)
        /\ threads' = [threads EXCEPT ![t0] = NoThread]
        /\ Step(c, [at |-> "failed"])
        /\ UNCHANGED <<commands, cancelled, context, worker, lease, player>>
    BY DEF audio_ends, AudioAccepted
  <1>2. call[c] \in Opens /\ c \in Callers /\ call[c] \in CallStates /\ runtime \in Runtimes
    BY <1>1, OpensTyped DEF CallStates, MirrorInv, MirrorTypes
  <1>3. ab \in BridgeIds /\ ~threads[t0].recording
    <2>1. ab # 0 /\ ~threads[t0].recording
      BY <1>1 DEF MirrorInv, CallsLinked, OpenLinked, OpensQuiet
    <2> QED
      BY <1>2, <2>1 DEF Opens, Ids
  <1>4. Owns(call[c], "audio") = ab /\ \A r \in Streams \ {"audio"} : Owns(call[c], r) = 0
    BY <1>1 DEF Owns, Streams
  <1>5. \A x : Count(bs, x) = CallHold(call[c], x)
    <2> SUFFICES ASSUME NEW x PROVE Count(bs, x) = CallHold(call[c], x)
      OBVIOUS
    <2>1. Count(bs, x) = One(b, x) + One(ab, x)
      BY CountTwo, SMT
    <2>2. CallHold(call[c], x) = One(b, x) + One(ab, x)
      BY <1>1, <1>2, CallHoldIs
    <2> QED
      BY <2>1, <2>2
  <1>6. PICK k \in Plain : k = [at |-> "failed"] /\ k.at = "failed"
    BY FailedTyped
  <1>7. PICK opening \in BOOLEAN : opening = (runtime.opening /\ ~mine)
    BY <1>2 DEF Runtimes
  <1>9. runtime' \in Runtimes /\ SameStreams /\ runtime'.transport = runtime.transport
        /\ (runtime'.opening => runtime.opening /\ ~mine)
    <2>1. runtime' = [runtime EXCEPT !.opening = opening]
      BY <1>1, <1>7
    <2> QED
      BY <1>2, <1>7, <2>1 DEF SameStreams, Runtimes
  <1>10. runtime'.opening => ~Frees(call[c], c)
    BY <1>1, <1>2, <1>9 DEF Frees, Stops, Stopped, Opens
  <1>11. QueueTypes' /\ \A x \in BridgeIds : InQueue(commands', x) = InQueue(commands, x)
    BY <1>1 DEF MirrorInv, MirrorTypes, QueueTypes
  <1>12. refs' = counted(commands, <<>>, bs)
    BY <1>1
  <1> HIDE DEF bs, mine
  <1>13. refs' \in [BridgeIds -> Int] /\ \A x \in BridgeIds : refs'[x] = refs[x] - CallHold(call[c], x)
    BY <1>2, <1>5, <1>12, CallDrops
  <1>14. Step(c, k) /\ UNCHANGED <<worker, cancelled, context, lease, player>> /\ "audio" \in Streams
         /\ threads' = [threads EXCEPT ![<<"audio", ab>>] = NoThread]
         /\ call[c].at \in {"opening", "audio_opening"}
    BY <1>1, <1>6 DEF Streams
  <1> HIDE DEF ab
  <1> QED
    BY <1>3, <1>4, <1>6, <1>9, <1>10, <1>11, <1>13, <1>14, OpenFails

\* It succeeds: what both cases, sound alone and sound for a video, share.
LEMMA AudioPublishes ==
    ASSUME MirrorInv, NEW c \in Connections, NEW ok \in BOOLEAN, audio_ends(c, ok), AudioAccepted(c, ok),
           runtime' \in Runtimes, RuntimeLinked', runtime'.transport = c, ~runtime'.opening,
           runtime'.mirror = runtime.mirror, runtime'.audio = call[c].audio_bridge,
           runtime.audio_bridge = 0,
           \/ /\ call[c].bridge = 0 /\ runtime'.bridge = call[c].audio_bridge /\ runtime'.audio_bridge = 0
           \/ /\ call[c].bridge # 0 /\ runtime'.bridge = call[c].bridge
              /\ runtime'.audio_bridge = call[c].audio_bridge,
           QueueTypes', \A x \in BridgeIds : InQueue(commands', x) = InQueue(commands, x)
    PROVE  MirrorInv'
  <1> DEFINE b == call[c].bridge
             ab == call[c].audio_bridge
             bs == <<b>>
             k == [call[c] EXCEPT !.at = "record"]
  <1>1. /\ call[c].at = "audio_opening"
        /\ refs' = counted(commands, <<>>, bs)
        /\ context' = [context EXCEPT ![c].setup = @ \cup {"audio"}]
        /\ threads' = set_recording({<<"audio", ab>>}, runtime.recording)
        /\ Step(c, k)
        /\ UNCHANGED <<worker, cancelled, lease, player>>
    BY DEF audio_ends, AudioAccepted
  <1>2. call[c] \in Opens /\ c \in Callers /\ call[c] \in CallStates /\ runtime \in Runtimes
    BY <1>1, OpensTyped DEF CallStates, MirrorInv, MirrorTypes
  <1>3. ab \in BridgeIds /\ ab # 0 /\ ab # b
    <2>1. ab # 0 /\ ab # b
      BY <1>1 DEF MirrorInv, CallsLinked, OpenLinked
    <2> QED
      BY <1>2, <2>1 DEF Opens, Ids
  <1>4. Owns(call[c], "audio") = ab /\ \A r \in Streams \ {"audio"} : Owns(call[c], r) = 0
    BY <1>1 DEF Owns, Streams
  <1>5. k \in Opens /\ k.at = "record"
    <2>1. PICK x \in {"open", "opening", "audio", "audio_opening", "record"} : x = "record"
      OBVIOUS
    <2>2. k = [call[c] EXCEPT !.at = x]
      BY <2>1
    <2> QED
      BY <1>2, <2>1, <2>2 DEF Opens
  <1>6. runtime.audio = 0 /\ runtime.bridge = b
    BY DEF AudioAccepted
  <1>7. /\ RuntimeOwns("audio") = 0 /\ RuntimeOwns("audio")' = ab
        /\ \A r \in Streams \ {"audio"} : RuntimeOwns(r)' = RuntimeOwns(r)
    BY <1>6 DEF RuntimeOwns, Streams
  <1>8. /\ context' \in [Connections -> ContextStates]
        /\ \A d \in Connections : context'[d].initial = context[d].initial
    BY <1>1, SetUp DEF Streams
  <1>9. OneRecords(<<"audio", ab>>)
    <2>1. runtime.recording \in BOOLEAN /\ MirrorTypes
      BY <1>2 DEF Runtimes, MirrorInv
    <2>2. PICK t0 : t0 = <<"audio", ab>>
      OBVIOUS
    <2>3. OneRecords(t0)
      BY <1>1, <2>1, <2>2, RecordingOne
    <2> QED
      BY <2>2, <2>3
  <1>10. /\ cancelled \subseteq cancelled' /\ cancelled' \subseteq BridgeIds
         /\ {runtime.bridge, runtime.audio_bridge} \subseteq cancelled' \cup {runtime'.bridge, runtime'.audio_bridge, 0}
    BY <1>1, <1>6 DEF MirrorInv, MirrorTypes
  <1>11. /\ refs' \in [BridgeIds -> Int]
         /\ \A x \in BridgeIds :
              refs'[x] = refs[x] + One(runtime'.bridge, x) + One(runtime'.audio_bridge, x)
                         - One(runtime.bridge, x) - One(runtime.audio_bridge, x) - CallHold(call[c], x)
    <2>1. \A x : Count(bs, x) = One(b, x) /\ Count(<<>>, x) = 0
      BY CountOne, CountNone
    <2>2. commands \in Queues /\ MirrorTypes
      BY DEF MirrorInv, MirrorTypes, QueueTypes, Queues
    <2>3. refs' = counted(commands, <<>>, bs)
      BY <1>1
    <2> HIDE DEF bs, k
    <2>4. \A x, y : One(y, x) \in Nat
      BY DEF One
    <2>5. /\ refs' \in [BridgeIds -> Int]
          /\ \A x \in BridgeIds : refs'[x] = refs[x] + (InQueue(commands, x) - InQueue(commands, x))
                                             + Count(<<>>, x) - Count(bs, x)
      BY <2>1, <2>2, <2>3, <2>4, CountedIs
    <2>6. ASSUME NEW x \in BridgeIds
          PROVE  refs'[x] = refs[x] + One(runtime'.bridge, x) + One(runtime'.audio_bridge, x)
                         - One(runtime.bridge, x) - One(runtime.audio_bridge, x) - CallHold(call[c], x)
      <3>1. InQueue(commands, x) \in Nat /\ refs[x] \in Int /\ x # 0
        BY InQueueType, BridgesPositive DEF MirrorInv, MirrorTypes, QueueTypes
      <3>2. CallHold(call[c], x) = One(b, x) + One(ab, x)
        BY <1>1, <1>2, CallHoldIs
      <3>3. One(runtime.audio_bridge, x) = 0 /\ One(runtime.bridge, x) = One(b, x) /\ One(0, x) = 0
        BY <1>6, <3>1 DEF One
      <3>4. One(runtime'.bridge, x) + One(runtime'.audio_bridge, x) = One(b, x) + One(ab, x)
        BY <2>4, <3>3
      <3>5. refs'[x] = refs[x] - One(b, x)
        BY <2>1, <2>4, <2>5, <3>1
      <3>6. One(runtime'.bridge, x) \in Nat /\ One(runtime'.audio_bridge, x) \in Nat
        BY <2>4
      <3>7. One(b, x) \in Nat /\ One(ab, x) \in Nat
        BY <2>4
      <3> QED
        BY <3>1, <3>2, <3>3, <3>4, <3>5, <3>6, <3>7
    <2> QED
      BY <2>5, <2>6
  <1>12. call[c].at \in {"opening", "audio_opening"} /\ "audio" \in Streams /\ k.at \in {"audio", "record"}
         /\ Step(c, k) /\ UNCHANGED <<worker, lease, player>>
    BY <1>1, <1>5 DEF Streams
  <1> HIDE DEF k, ab, b, bs
  <1> QED
    BY <1>3, <1>4, <1>5, <1>7, <1>8, <1>9, <1>10, <1>11, <1>12, OpenPublishes

\* It succeeds: the sound becomes the session's.
LEMMA AudioAcceptedStep ==
    ASSUME MirrorInv, NEW c \in Connections, NEW ok \in BOOLEAN, audio_ends(c, ok), AudioAccepted(c, ok)
    PROVE  MirrorInv'
  <1> DEFINE b == call[c].bridge
             ab == call[c].audio_bridge
             created == b = 0
             sounds == IF created THEN 0 ELSE ab
             next == next_generation(call[c].previous)
             with_audio == [runtime EXCEPT !.audio = ab, !.audio_bridge = sounds,
                                           !.attach_queued = FALSE, !.opening = FALSE]
             opened == [with_audio EXCEPT
                             !.bridge = ab, !.session = c, !.audio_only = TRUE,
                             !.generation = next,
                             !.load_queued = FALSE, !.play_queued = FALSE]
  <1>1. /\ call[c].at = "audio_opening"
        /\ commands' = IF created THEN set_status(commands, opened, "PREPARING") ELSE commands
        /\ runtime' = IF created THEN [opened EXCEPT !.status = "PREPARING"] ELSE with_audio
    BY DEF audio_ends, AudioAccepted
  <1>2. call[c] \in Opens /\ c \in Callers /\ call[c] \in CallStates /\ runtime \in Runtimes
        /\ c \in Peers /\ c # "none"
    BY <1>1, OpensTyped, PlacesTyped DEF CallStates, MirrorInv, MirrorTypes
  <1>3. ab \in BridgeIds /\ ab \in Ids /\ ab # 0 /\ ab # b /\ next \in Nat /\ sounds \in Ids /\ b \in Ids
    <2>1. ab # 0 /\ ab # b
      BY <1>1 DEF MirrorInv, CallsLinked, OpenLinked
    <2> QED
      BY <1>2, <2>1 DEF Opens, Ids, next_generation
  <1>4. /\ runtime.audio = 0 /\ runtime.bridge = b /\ runtime.transport = c
        /\ runtime.session \in {"none", c} /\ (created => runtime.session = "none")
    BY DEF AudioAccepted
  <1>5. /\ runtime.audio_bridge = 0
        /\ created => runtime.mirror = 0
        /\ ~created => runtime.mirror # 0 /\ ~runtime.audio_only /\ runtime.session = c
    BY <1>4 DEF MirrorInv, RuntimeLinked
  <1> HIDE DEF ab, b, next, sounds
  <1>6. /\ with_audio \in Runtimes /\ with_audio.audio = ab /\ with_audio.audio_bridge = sounds
        /\ ~with_audio.opening /\ with_audio.mirror = runtime.mirror /\ with_audio.bridge = runtime.bridge
        /\ with_audio.transport = runtime.transport /\ with_audio.session = runtime.session
        /\ with_audio.audio_only = runtime.audio_only /\ with_audio.load_queued = runtime.load_queued
    BY <1>2, <1>3 DEF Runtimes
  <1> HIDE DEF with_audio
  <1> DEFINE first == [with_audio EXCEPT !.bridge = ab, !.session = c, !.audio_only = TRUE]
             second == [first EXCEPT !.generation = next, !.load_queued = FALSE, !.play_queued = FALSE]
  <1>7. opened = second
    BY <1>6 DEF Runtimes
  <1>8. /\ first \in Runtimes /\ first.bridge = ab /\ first.session = c /\ first.audio_only
        /\ first.mirror = with_audio.mirror /\ first.audio = with_audio.audio
        /\ first.audio_bridge = with_audio.audio_bridge /\ first.transport = with_audio.transport
        /\ first.opening = with_audio.opening
    BY <1>2, <1>3, <1>6 DEF Runtimes
  <1> HIDE DEF first
  <1>9. /\ second \in Runtimes /\ second.bridge = first.bridge /\ second.session = first.session
        /\ second.audio_only = first.audio_only
        /\ second.mirror = first.mirror /\ second.audio = first.audio
        /\ second.audio_bridge = first.audio_bridge /\ second.transport = first.transport
        /\ second.opening = first.opening /\ ~second.load_queued /\ second.generation \in Nat
    BY <1>3, <1>8 DEF Runtimes
  <1> HIDE DEF second, opened
  <1>10. PICK status \in Statuses : status = "PREPARING"
    BY DEF Statuses
  <1>11. QueueTypes' /\ \A x \in BridgeIds : InQueue(commands', x) = InQueue(commands, x)
    <2>1. commands \in Queues
      BY DEF MirrorInv, MirrorTypes, QueueTypes, Queues
    <2>2. commands' \in Queues /\ \A x \in BridgeIds : InQueue(commands', x) = InQueue(commands, x)
      BY <1>1, <1>7, <1>9, <1>10, <2>1, StatusSet
    <2> QED
      BY <2>2 DEF QueueTypes, Queues
  <1>12. CASE created
    <2> HIDE DEF created
    <2>1. runtime' = [second EXCEPT !.status = status]
      BY <1>1, <1>7, <1>10, <1>12
    <2>2. /\ runtime' \in Runtimes /\ runtime'.bridge = second.bridge /\ runtime'.session = second.session
          /\ runtime'.audio_only = second.audio_only
          /\ runtime'.mirror = second.mirror /\ runtime'.audio = second.audio
          /\ runtime'.audio_bridge = second.audio_bridge /\ runtime'.transport = second.transport
          /\ runtime'.opening = second.opening /\ runtime'.load_queued = second.load_queued
      BY <1>9, <2>1 DEF Runtimes
    <2>3. sounds = 0 /\ b = 0
      BY <1>12 DEF sounds, created
    <2>4. /\ runtime' \in Runtimes /\ runtime'.bridge = ab /\ runtime'.session = c /\ runtime'.audio_only
          /\ runtime'.mirror = 0 /\ runtime.mirror = 0 /\ runtime'.audio = ab
          /\ runtime'.audio_bridge = 0 /\ runtime'.transport = c
          /\ ~runtime'.opening /\ ~runtime'.load_queued
      BY <1>4, <1>5, <1>6, <1>8, <1>9, <1>12, <2>2, <2>3
    <2>5. RuntimeLinked'
      BY <1>2, <1>3, <2>4 DEF RuntimeLinked
    <2>6. call[c].bridge = 0 /\ runtime'.bridge = call[c].audio_bridge /\ runtime'.audio = call[c].audio_bridge
      BY <2>3, <2>4 DEF b, ab
    <2> QED
      BY <1>5, <1>11, <2>4, <2>5, <2>6, AudioPublishes
  <1>13. CASE ~created
    <2>1. sounds = ab /\ b # 0
      BY <1>13 DEF sounds
    <2>2. /\ runtime' \in Runtimes /\ runtime'.bridge = b /\ runtime'.session = c /\ ~runtime'.audio_only
          /\ runtime'.mirror = runtime.mirror /\ runtime.mirror # 0 /\ runtime'.audio = ab
          /\ runtime'.audio_bridge = ab /\ runtime'.transport = c /\ ~runtime'.opening
      BY <1>1, <1>4, <1>5, <1>6, <1>13, <2>1
    <2>3. RuntimeLinked'
      BY <1>2, <1>3, <2>1, <2>2 DEF RuntimeLinked
    <2>4. call[c].bridge # 0 /\ runtime'.bridge = call[c].bridge /\ runtime'.audio_bridge = call[c].audio_bridge
          /\ runtime'.audio = call[c].audio_bridge
      BY <2>1, <2>2 DEF b, ab
    <2> QED
      BY <1>5, <1>11, <2>2, <2>3, <2>4, AudioPublishes
  <1> QED
    BY <1>12, <1>13

-----------------------------------------------------------------------------
(* MirrorControl: the theorems. *)

\* The invariant holds when the runtime is created.
LEMMA MirrorInitial ==
    ASSUME MirrorInit
    PROVE  MirrorInv
  <1>1. /\ 0 \in Ids /\ "none" \in Peers /\ NoThread \in ThreadStates /\ ~NoThread.live /\ ~NoThread.recording
        /\ NoThread.on = {} /\ NoThread.waits = {}
        /\ FreshContext \in ContextStates /\ Idle \in Plain /\ Idle.at = "idle"
        /\ NoLease \in [token : Peers, generation : Nat] /\ NoCommand.bridge = 0
        /\ "IDLE" \in Statuses /\ "app" \in Callers
    BY DEF Ids, Peers, NoThread, ThreadStates, FreshContext, ContextStates, Idle, Plain, NoLease,
           NoCommand, Statuses, Callers
  <1>2. /\ runtime \in Runtimes /\ runtime.mirror = 0 /\ runtime.audio = 0 /\ runtime.bridge = 0
        /\ runtime.audio_bridge = 0 /\ runtime.transport = "none" /\ runtime.session = "none"
        /\ ~runtime.opening /\ ~runtime.audio_only /\ ~runtime.load_queued
    BY <1>1 DEF MirrorInit, Runtimes
  <1>3. \A c \in Callers : call[c] = Idle
    BY DEF MirrorInit
  <1>4. \A t \in Streams \X BridgeIds : threads[t] = NoThread
    BY DEF MirrorInit
  <1>5. MirrorTypes
    <2>1. QueueTypes
      BY MirrorAssumption DEF MirrorInit, QueueTypes
    <2>2. player \in [video : Ids, audio : Ids] /\ refs \in [BridgeIds -> Int] /\ cancelled \subseteq BridgeIds
      BY <1>1 DEF MirrorInit
    <2>3. threads \in [Streams \X BridgeIds -> ThreadStates] /\ context \in [Connections -> ContextStates]
      BY <1>1 DEF MirrorInit
    <2>4. call \in [Callers -> CallStates]
      BY <1>1 DEF MirrorInit, CallStates
    <2>5. worker \in Workers /\ lease \in [token : Peers, generation : Nat]
      BY <1>1 DEF MirrorInit, Workers
    <2> QED
      BY <1>2, <2>1, <2>2, <2>3, <2>4, <2>5 DEF MirrorTypes
  <1>6. FewCalls
    <2>1. {c \in Callers : call[c].at # "idle"} = {}
      BY <1>1, <1>3
    <2> QED
      BY <2>1, FS_EmptySet DEF FewCalls, FewBusy
  <1>7. RefsBalanced
    <2> SUFFICES ASSUME NEW b \in BridgeIds PROVE refs[b] = Holders(b)
      BY DEF RefsBalanced
    <2>1. b # 0
      BY BridgesPositive
    <2>2. /\ One(runtime.bridge, b) = 0 /\ One(runtime.audio_bridge, b) = 0 /\ One(player.video, b) = 0
          /\ One(player.audio, b) = 0 /\ One(worker.bridge, b) = 0
      BY <1>1, <1>2, <2>1 DEF One, MirrorInit
    <2>3. Cardinality({}) = 0
      BY FS_EmptySet
    <2>4. InQueue(commands, b) = 0
      <3>1. {i \in DOMAIN commands : commands[i].bridge = b} = {}
        BY DEF MirrorInit
      <3> QED
        BY <2>3, <3>1 DEF InQueue
    <2>5. ThreadsHeld(threads, b) = 0
      <3>1. DOMAIN threads = Streams \X BridgeIds
        BY DEF MirrorInit
      <3>2. {t \in DOMAIN threads : b \in threads[t].on} = {}
        BY <1>1, <1>4, <3>1
      <3> QED
        BY <2>3, <3>2 DEF ThreadsHeld
    <2>6. CallsHeld(call, b) = 0
      <3>1. \A c \in Callers : CallHold(call[c], b) = 0
        BY <1>1, <1>3 DEF CallHold
      <3>2. {c \in Callers : CallHold(call[c], b) > 0} = {} /\ {c \in Callers : CallHold(call[c], b) > 1} = {}
        BY <3>1
      <3> QED
        BY <2>3, <3>2 DEF CallsHeld
    <2>7. refs[b] = 0
      BY DEF MirrorInit
    <2> QED
      BY <2>2, <2>4, <2>5, <2>6, <2>7, HoldersNow
  <1>8. RuntimeLinked /\ TransportInitial /\ OpeningOwned
    BY <1>2 DEF RuntimeLinked, TransportInitial, OpeningOwned
  <1>9. CallsLinked /\ OpensQuiet
    BY <1>1, <1>3 DEF CallsLinked, OpenLinked, OpensQuiet, Callers
  <1>10. ThreadsOwned
    <2>1. \A c \in Callers, s \in Streams : Owns(call[c], s) = 0
      BY <1>1, <1>3 DEF Owns
    <2>2. \A s \in Streams : RuntimeOwns(s) = 0
      BY <1>2 DEF RuntimeOwns
    <2>3. \A s \in Streams, b \in BridgeIds : b # 0 /\ ~threads[<<s, b>>].live
      BY <1>1, <1>4, BridgesPositive
    <2> QED
      BY <2>1, <2>2, <2>3 DEF ThreadsOwned
  <1>11. ThreadsQuiet
    BY <1>1, <1>4 DEF ThreadsQuiet
  <1>12. WaitsEnd
    <2>1. DOMAIN threads = Streams \X BridgeIds
      BY DEF MirrorInit
    <2> QED
      BY <1>1, <1>4, <2>1 DEF WaitsEnd
  <1> QED
    BY <1>5, <1>6, <1>7, <1>8, <1>9, <1>10, <1>11, <1>12 DEF MirrorInv

\* Every step keeps the invariant.
LEMMA MirrorStep == MirrorInv /\ [MirrorNext]_MirrorVars => MirrorInv'
  <1> SUFFICES ASSUME MirrorInv, [MirrorNext]_MirrorVars
               PROVE  MirrorInv'
    OBVIOUS
  <1>1. DOMAIN threads = Streams \X BridgeIds
    BY DEF MirrorInv, MirrorTypes
  <1>2. ASSUME NEW c \in Connections, NEW initial \in BOOLEAN, NEW streams \in SUBSET Streams,
               handle_setup(c, initial, streams)
        PROVE  MirrorInv'
    BY <1>2, SetupStep
  <1>3. ASSUME NEW c \in Connections,
               \/ handle_record(c) \/ starts(c) \/ fails(c) \/ session_closed(c)
               \/ open_begins(c) \/ open_refused(c) \/ audio_begins(c) \/ audio_refused(c)
               \/ mirror_records(c) \/ mirror_observes(c) \/ streams_stopped(c)
        PROVE  MirrorInv'
    BY <1>3, RecordStep, StartsStep, ResetStep, OpenBeginsStep, RefusedStep, AudioBeginsStep,
       MirrorRecordsStep, ObserveStep, StoppedStep
  <1>4. ASSUME NEW c \in Connections, NEW streams \in SUBSET Streams, handle_teardown(c, streams)
        PROVE  MirrorInv'
    BY <1>4, TeardownStep
  <1>5. ASSUME NEW c \in Connections, NEW ok \in BOOLEAN, open_ends(c, ok)
        PROVE  MirrorInv'
    BY <1>5, OpenAcceptedStep, OpenFailedStep
  <1>6. ASSUME NEW c \in Connections, NEW ok \in BOOLEAN, audio_ends(c, ok)
        PROVE  MirrorInv'
    BY <1>6, AudioAcceptedStep, AudioFailedStep
  <1>7. ASSUME NEW c \in Connections, NEW ok \in BOOLEAN, mirror_claims(c, ok)
        PROVE  MirrorInv'
    BY <1>7, ClaimStep
  <1>8. CASE stop_active_media
    BY <1>8, StopActiveStep
  <1>9. ASSUME NEW who \in Callers, cancels(who) \/ joins(who)
        PROVE  MirrorInv'
    BY <1>9, CancelsStep, JoinsStep
  <1>10. ASSUME NEW t \in DOMAIN threads, video_arrives(t) \/ audio_arrives(t)
         PROVE  MirrorInv'
    BY <1>1, <1>10, VideoArrivesStep, AudioArrivesStep
  <1>11. ASSUME NEW t \in DOMAIN threads, NEW pushed \in BOOLEAN, NEW keyframe \in BOOLEAN,
                video_pushed(t, pushed, keyframe)
         PROVE  MirrorInv'
    BY <1>1, <1>11, VideoPushedStep
  <1>12. ASSUME NEW t \in DOMAIN threads, NEW pushed \in BOOLEAN, audio_pushed(t, pushed)
         PROVE  MirrorInv'
    BY <1>1, <1>12, AudioPushedStep
  <1>13. CASE worker_pops \/ process_stop
    BY <1>13, PopsStep, ProcessStopStep
  <1>14. ASSUME process_notify \/ \E ok \in BOOLEAN : process_play(ok)
         PROVE  MirrorInv'
    BY <1>14, ProcessBareStep
  <1>15. ASSUME NEW ok \in BOOLEAN, process_load(ok) \/ process_bound(ok) \/ process_audio(ok)
         PROVE  MirrorInv'
    BY <1>15, ProcessLoadStep, ProcessBoundStep, ProcessAudioStep
  <1>16. CASE UNCHANGED MirrorVars
    <2>1. UNCHANGED <<runtime, commands, worker, refs, cancelled, threads, context, call, lease, player>>
      BY <1>16 DEF MirrorVars
    <2>2. MirrorTypes' /\ FewCalls' /\ RuntimeLinked' /\ TransportInitial' /\ CallsLinked'
      BY <2>1 DEF MirrorInv, MirrorTypes, QueueTypes, FewCalls, FewBusy, RuntimeLinked, TransportInitial,
                  CallsLinked
    <2>3. RefsBalanced'
      BY <2>1, HoldersNow, HoldersNext DEF MirrorInv, RefsBalanced
    <2>4. ThreadsOwned' /\ ThreadsQuiet' /\ OpensQuiet'
      BY <2>1 DEF MirrorInv, ThreadsOwned, RuntimeOwns, ThreadsQuiet, OpensQuiet
    <2>5. WaitsEnd' /\ OpeningOwned'
      <3>1. BeingCancelled' = BeingCancelled
        BY <2>1 DEF BeingCancelled
      <3>2. \A c \in Connections : Frees(call[c], c)' <=> Frees(call[c], c)
        BY <2>1 DEF Frees
      <3> QED
        BY <2>1, <3>1, <3>2 DEF MirrorInv, WaitsEnd, OpeningOwned
    <2> QED
      BY <2>2, <2>3, <2>4, <2>5 DEF MirrorInv
  <1> QED
    BY <1>2, <1>3, <1>4, <1>5, <1>6, <1>7, <1>8, <1>9, <1>10, <1>11, <1>12, <1>13, <1>14, <1>15, <1>16
       DEF MirrorNext

\* The inductive invariant of MirrorControl.
LEMMA MirrorInvariant == MirrorSpec => []MirrorInv
  <1>1. MirrorInit => MirrorInv
    BY MirrorInitial
  <1>2. MirrorInv /\ [MirrorNext]_MirrorVars => MirrorInv'
    BY MirrorStep
  <1> QED
    BY <1>1, <1>2, PTL DEF MirrorSpec

\* The counts of the holders are natural numbers.
LEMMA HoldersCounted ==
    ASSUME MirrorInv
    PROVE  refs \in [BridgeIds -> Nat]
  <1> SUFFICES ASSUME NEW b \in BridgeIds PROVE refs[b] \in Nat
    BY DEF MirrorInv, MirrorTypes
  <1>1. \A x : One(x, b) \in Nat
    BY DEF One
  <1>2. InQueue(commands, b) \in Nat
    BY InQueueType DEF MirrorInv, MirrorTypes, QueueTypes
  <1>3. ThreadsHeld(threads, b) \in Nat /\ CallsHeld(call, b) \in Nat
    BY HeldTypes
  <1>5. refs[b] = Holders(b)
    BY DEF MirrorInv, RefsBalanced
  <1> QED
    BY <1>1, <1>2, <1>3, <1>5, HoldersNow

\* The runtime's generation, owners and queue stay in their ranges, and no
\* bridge's count goes below zero.
THEOREM MirrorTypeCorrect == MirrorSpec => []MirrorTypeOK
  <1>1. MirrorInv => MirrorTypeOK
    <2> SUFFICES ASSUME MirrorInv PROVE MirrorTypeOK
      OBVIOUS
    <2>1. refs \in [BridgeIds -> Nat]
      BY HoldersCounted
    <2> QED
      BY <2>1 DEF MirrorInv, MirrorTypes, QueueTypes, Runtimes, Peers, MirrorTypeOK
  <1> QED
    BY <1>1, MirrorInvariant, PTL

\* Every bridge has exactly the references its holders have.
THEOREM RefsCorrect == MirrorSpec => []RefsBalanced
  <1>1. MirrorInv => RefsBalanced
    BY DEF MirrorInv
  <1> QED
    BY <1>1, MirrorInvariant, PTL

\* No callback waits for a bridge nobody will end, and a session leaves nothing.
THEOREM MirrorQuietens == MirrorSpec => [](WaitsEnd /\ PromotionIsUnloaded /\ NothingLeft)
  <1>1. MirrorInv => WaitsEnd /\ PromotionIsUnloaded /\ NothingLeft
    <2> SUFFICES ASSUME MirrorInv PROVE WaitsEnd /\ PromotionIsUnloaded /\ NothingLeft
      OBVIOUS
    <2>1. PromotionIsUnloaded
      BY DEF MirrorInv, RuntimeLinked, PromotionIsUnloaded
    <2>2. ASSUME Quiet, runtime.session = "none"
          PROVE  /\ ~runtime.opening
                 /\ \A t \in DOMAIN threads : ~threads[t].live
                 /\ runtime.transport # "none" => context[runtime.transport].initial
      <3>1. \A c \in Callers : call[c].at = "idle"
        BY <2>2 DEF Quiet
      <3>2. ~runtime.opening
        BY <3>1 DEF MirrorInv, OpeningOwned, Frees, Stopped, Stops, Callers
      <3>3. \A s \in Streams : RuntimeOwns(s) = 0
        BY <2>2 DEF MirrorInv, RuntimeLinked, RuntimeOwns
      <3>4. \A s \in Streams, c \in Callers : Owns(call[c], s) = 0
        BY <3>1 DEF Owns
      <3>5. \A s \in Streams, b \in BridgeIds : ~threads[<<s, b>>].live
        BY <3>3, <3>4, BridgesPositive DEF MirrorInv, ThreadsOwned
      <3>6. \A t \in DOMAIN threads : ~threads[t].live
        BY <3>5 DEF MirrorInv, MirrorTypes
      <3> QED
        BY <3>2, <3>6 DEF MirrorInv, TransportInitial
    <2> QED
      BY <2>1, <2>2 DEF MirrorInv, NothingLeft
  <1> QED
    BY <1>1, MirrorInvariant, PTL

-----------------------------------------------------------------------------
(* MirrorControl: the lease of a session that ended. *)

\* A lease is given up by a notice that must find room in the queue.
RoomLeft == Len(commands) < QueueCapacity

Elements(q) == {q[i] : i \in DOMAIN q}
Pending == Elements(commands) \cup {worker}
LoadTypes == {"LOAD", "BOUND"}

\* The status follows the player's load, and a load under way is known.
StatusLinked ==
    /\ runtime.load_queued => runtime.status # "DISCONNECTED"
    /\ runtime.status = "WAITING_KEYFRAME" => runtime.load_queued
LoadsLinked ==
    \A k \in Pending : k.type \in LoadTypes =>
        /\ k.generation <= runtime.generation
        /\ k.generation = runtime.generation /\ runtime.session # "none" => runtime.load_queued

\* A lease is of a session that the player was asked to load, or the notice of
\* that session's end is on its way, or the thread that took it will look again.
Farewell(S, g) == \E k \in S : k.type = "NOTIFY" /\ k.status = "DISCONNECTED" /\ k.generation = g
Watched(g) == \E c \in Connections : call[c].at = "observe" /\ call[c].generation = g
LeaseKept ==
    lease # NoLease =>
       \/ runtime.generation = lease.generation /\ runtime.load_queued
       \/ Farewell(Pending, lease.generation)
       \/ Watched(lease.generation)

LeaseInv == StatusLinked /\ LoadsLinked /\ LeaseKept

\* What a step keeps of it.
KeepsNotices ==
    \A k \in Pending : k.type = "NOTIFY" /\ k.status = "DISCONNECTED" => k \in Pending'
KeepsWatchers == \A c \in Connections : call[c].at = "observe" => call'[c] = call[c]
NoNewLoads ==
    \A k \in Pending' : k.type \in LoadTypes =>
       \/ \E j \in Pending : j.type \in LoadTypes /\ j.generation = k.generation
       \/ k.generation = runtime'.generation /\ runtime'.load_queued

\* The commands of a longer queue ...
LEMMA AppendElements ==
    ASSUME NEW S, NEW q \in Seq(S), NEW x \in S
    PROVE  Elements(Append(q, x)) = Elements(q) \cup {x}
  <1> DEFINE t == Append(q, x)
  <1>1. DOMAIN t = DOMAIN q \cup {Len(q) + 1} /\ t[Len(q) + 1] = x /\ \A i \in DOMAIN q : t[i] = q[i]
    OBVIOUS
  <1> HIDE DEF t
  <1>2. Elements(t) = Elements(q) \cup {x}
    BY <1>1 DEF Elements
  <1> QED
    BY <1>2 DEF t

\* ... and of a shorter one.
LEMMA TailElements ==
    ASSUME NEW S, NEW q \in Seq(S), q # <<>>
    PROVE  Elements(q) = Elements(Tail(q)) \cup {Head(q)}
  <1> DEFINE t == Tail(q)
  <1>1. /\ DOMAIN q = 1 .. Len(q) /\ Len(q) \in Nat \ {0} /\ DOMAIN t = 1 .. Len(q) - 1
        /\ \A i \in DOMAIN t : t[i] = q[i + 1]
    OBVIOUS
  <1>2. Head(q) = q[1]
    OBVIOUS
  <1> HIDE DEF t
  <1>3. ASSUME NEW x \in Elements(q) PROVE x \in Elements(t) \cup {Head(q)}
    <2>1. PICK i \in DOMAIN q : x = q[i]
      BY DEF Elements
    <2>2. CASE i = 1
      BY <1>2, <2>1, <2>2
    <2>3. CASE i # 1
      <3>1. i - 1 \in DOMAIN t /\ t[i - 1] = q[i]
        BY <1>1, <2>3
      <3> QED
        BY <2>1, <3>1 DEF Elements
    <2> QED
      BY <2>2, <2>3
  <1>4. ASSUME NEW x \in Elements(t) \cup {Head(q)} PROVE x \in Elements(q)
    <2>1. CASE x = Head(q)
      BY <1>1, <1>2, <2>1 DEF Elements
    <2>2. CASE x \in Elements(t)
      <3>1. PICK i \in DOMAIN t : x = t[i]
        BY <2>2 DEF Elements
      <3>2. i + 1 \in DOMAIN q /\ t[i] = q[i + 1]
        BY <1>1
      <3> QED
        BY <3>1, <3>2 DEF Elements
    <2> QED
      BY <2>1, <2>2
  <1> QED
    BY <1>3, <1>4 DEF t

\* A queue with room left after an insertion took the command.
LEMMA EnqueueElements ==
    ASSUME NEW q \in Queues, NEW k \in CommandStates
    PROVE  /\ Elements(q) \subseteq Elements(enqueue(q, k))
           /\ Elements(enqueue(q, k)) \subseteq Elements(q) \cup {k}
           /\ Len(enqueue(q, k)) < QueueCapacity => k \in Elements(enqueue(q, k)) /\ Len(q) < QueueCapacity
           /\ enqueue(q, k) # q => k \in Elements(enqueue(q, k))
  <1>1. QueueCapacity \in Nat /\ q \in Seq(CommandStates) /\ Len(q) \in Nat /\ Len(q) <= QueueCapacity
    BY MirrorAssumption DEF Queues
  <1>2. CASE Len(q) = QueueCapacity
    <2>1. enqueue(q, k) = q
      BY <1>2 DEF enqueue
    <2> QED
      BY <1>1, <1>2, <2>1
  <1>3. CASE Len(q) # QueueCapacity
    <2>1. enqueue(q, k) = Append(q, k)
      BY <1>3 DEF enqueue
    <2>2. Elements(Append(q, k)) = Elements(q) \cup {k}
      BY <1>1, AppendElements
    <2> QED
      BY <1>1, <1>3, <2>1, <2>2
  <1> QED
    BY <1>2, <1>3

\* A change of status is announced, if there was room.
LEMMA StatusElements ==
    ASSUME NEW q \in Queues, NEW r, r.generation \in Nat, NEW s \in Statuses
    PROVE  /\ Elements(q) \subseteq Elements(set_status(q, r, s))
           /\ Elements(set_status(q, r, s)) \subseteq Elements(q) \cup {NotifyCommand(r.generation, s)}
           /\ Len(set_status(q, r, s)) < QueueCapacity =>
                 /\ Len(q) < QueueCapacity
                 /\ r.status # s => NotifyCommand(r.generation, s) \in Elements(set_status(q, r, s))
  <1> DEFINE k == NotifyCommand(r.generation, s)
  <1>1. k \in CommandStates
    <2>1. 0 \in Ids
      BY DEF Ids
    <2> QED
      BY <2>1, CommandsTyped
  <1>2. set_status(q, r, s) = IF r.status = s THEN q ELSE enqueue(q, k)
    BY DEF set_status
  <1> HIDE DEF k
  <1>3. /\ Elements(q) \subseteq Elements(enqueue(q, k))
        /\ Elements(enqueue(q, k)) \subseteq Elements(q) \cup {k}
        /\ Len(enqueue(q, k)) < QueueCapacity => k \in Elements(enqueue(q, k)) /\ Len(q) < QueueCapacity
    BY <1>1, EnqueueElements
  <1>4. CASE r.status = s
    BY <1>2, <1>4 DEF k
  <1>5. CASE r.status # s
    BY <1>2, <1>3, <1>5 DEF k
  <1> QED
    BY <1>4, <1>5

\* Which commands load, and what a notice says.
LEMMA KindsOf ==
    ASSUME NEW g, NEW b, NEW s
    PROVE  /\ StopCommand(g).type \notin LoadTypes /\ AudioCommand(g, b).type \notin LoadTypes
           /\ PlayCommand(g).type \notin LoadTypes /\ NotifyCommand(g, s).type \notin LoadTypes
           /\ NotifyCommand(g, s).type = "NOTIFY" /\ NotifyCommand(g, s).status = s
           /\ NotifyCommand(g, s).generation = g /\ LoadCommand(g, b).generation = g
           /\ NoCommand.type \notin LoadTypes /\ NoCommand.type # "NOTIFY"
  BY DEF StopCommand, AudioCommand, PlayCommand, NotifyCommand, LoadCommand, NoCommand, LoadTypes

\* A load under way has the number of a session.
LEMMA PendingTyped ==
    ASSUME MirrorInv
    PROVE  \A k \in Pending : k.type \in LoadTypes => k.generation \in Nat
  <1>1. ASSUME NEW k \in Elements(commands) PROVE k \in CommandStates
    BY <1>1 DEF Elements, MirrorInv, MirrorTypes, QueueTypes
  <1>2. \A k \in CommandStates : k.generation \in Nat
    BY DEF CommandStates, Holding, Bare, Notices
  <1>3. worker \in CommandStates \/ worker = NoCommand
    BY DEF MirrorInv, MirrorTypes, Workers
  <1> QED
    BY <1>1, <1>2, <1>3, KindsOf DEF Pending

\* A step that leaves the lease alone.
LEMMA LeaseStays ==
    ASSUME MirrorInv, LeaseInv, lease' = lease, KeepsNotices, KeepsWatchers, NoNewLoads, StatusLinked',
           runtime'.generation \in Nat, runtime.generation <= runtime'.generation,
           runtime'.generation = runtime.generation /\ runtime'.session # "none" =>
               runtime.session # "none" /\ (runtime.load_queued => runtime'.load_queued),
           runtime.load_queued =>
               \/ runtime'.generation = runtime.generation /\ runtime'.load_queued
               \/ Farewell(Pending', runtime.generation)
    PROVE  LeaseInv'
  <1>1. runtime.generation \in Nat
    BY DEF MirrorInv, MirrorTypes, Runtimes
  <1>2. LoadsLinked'
    <2> SUFFICES ASSUME NEW k \in Pending', k.type \in LoadTypes
                 PROVE  /\ k.generation <= runtime'.generation
                        /\ k.generation = runtime'.generation /\ runtime'.session # "none" => runtime'.load_queued
      BY DEF LoadsLinked
    <2>1. CASE k.generation = runtime'.generation /\ runtime'.load_queued
      BY <2>1
    <2>2. CASE ~(k.generation = runtime'.generation /\ runtime'.load_queued)
      <3>1. PICK j \in Pending : j.type \in LoadTypes /\ j.generation = k.generation
        BY <2>2 DEF NoNewLoads
      <3>2. /\ j.generation <= runtime.generation /\ j.generation \in Nat
            /\ j.generation = runtime.generation /\ runtime.session # "none" => runtime.load_queued
        BY <3>1, PendingTyped DEF LeaseInv, LoadsLinked
      <3> QED
        BY <1>1, <3>1, <3>2
    <2> QED
      BY <2>1, <2>2
  <1>3. LeaseKept'
    <2> SUFFICES ASSUME lease' # NoLease
                 PROVE  \/ runtime'.generation = lease'.generation /\ runtime'.load_queued
                        \/ Farewell(Pending', lease'.generation)
                        \/ Watched(lease.generation)'
      BY DEF LeaseKept
    <2>1. CASE runtime.generation = lease.generation /\ runtime.load_queued
      BY <2>1
    <2>2. CASE Farewell(Pending, lease.generation)
      <3>1. Farewell(Pending', lease.generation)
        BY <2>2 DEF Farewell, KeepsNotices
      <3> QED
        BY <3>1
    <2>3. CASE Watched(lease.generation)
      <3>1. Watched(lease.generation)'
        BY <2>3 DEF Watched, KeepsWatchers
      <3> QED
        BY <3>1
    <2> QED
      BY <2>1, <2>2, <2>3 DEF LeaseInv, LeaseKept
  <1> QED
    BY <1>2, <1>3 DEF LeaseInv

\* The queue grows, or the worker is done.
LEMMA QueueGrows ==
    ASSUME Elements(commands) \subseteq Elements(commands'),
           \A k \in Elements(commands') : k \in Elements(commands) \/ k.type \notin LoadTypes,
           worker' = worker \/ (worker' = NoCommand /\ worker.type # "NOTIFY")
    PROVE  KeepsNotices /\ NoNewLoads
  <1>1. NoCommand.type \notin LoadTypes
    BY KindsOf
  <1>2. KeepsNotices
    BY DEF KeepsNotices, Pending
  <1>3. NoNewLoads
    BY <1>1 DEF NoNewLoads, Pending
  <1> QED
    BY <1>2, <1>3

\* What the lease depends on is left as it was.
SameTerm ==
    /\ runtime'.generation = runtime.generation /\ runtime'.session = runtime.session
    /\ runtime'.load_queued = runtime.load_queued /\ runtime'.status = runtime.status

\* A step that leaves session, commands and lease alone keeps the invariant.
LEMMA LeaseStill ==
    ASSUME MirrorInv, LeaseInv, SameTerm, UNCHANGED <<commands, worker, lease>>, KeepsWatchers
    PROVE  LeaseInv'
  <1>1. KeepsNotices /\ NoNewLoads
    BY QueueGrows
  <1>2. StatusLinked'
    BY DEF LeaseInv, StatusLinked, SameTerm
  <1>3. runtime.generation \in Nat
    BY DEF MirrorInv, MirrorTypes, Runtimes
  <1> QED
    BY <1>1, <1>2, <1>3, LeaseStays DEF SameTerm

\* Only its own step ends a call's watch.
LEMMA Watchers ==
    ASSUME MirrorInv, NEW c \in Callers, NEW k, Step(c, k), call[c].at # "observe"
    PROVE  KeepsWatchers
  BY DEF MirrorInv, MirrorTypes, KeepsWatchers, Step, Callers

\* An entry point whose caller is not looking at the status again.
LEMMA LeaseStep ==
    ASSUME MirrorInv, LeaseInv, NEW c \in Callers, NEW k, Step(c, k), call[c].at # "observe",
           SameTerm, UNCHANGED <<commands, worker, lease>>
    PROVE  LeaseInv'
  BY Watchers, LeaseStill

\* Assignments that are not about the session's term.
LEMMA TermKept ==
    ASSUME MirrorInv
    PROVE  /\ \A x : runtime' = [runtime EXCEPT !.opening = x] => SameTerm
           /\ \A x : runtime' = [runtime EXCEPT !.transport = x] => SameTerm
           /\ runtime' = record_audio => SameTerm
           /\ runtime' = runtime => SameTerm
  <1>1. runtime \in Runtimes
    BY DEF MirrorInv, MirrorTypes
  <1>2. runtime.mirror = 0 => runtime.load_queued = FALSE
    BY <1>1 DEF MirrorInv, RuntimeLinked, Runtimes
  <1>3. \A x : runtime' = [runtime EXCEPT !.opening = x] => SameTerm
    BY <1>1 DEF Runtimes, SameTerm
  <1>4. \A x : runtime' = [runtime EXCEPT !.transport = x] => SameTerm
    BY <1>1 DEF Runtimes, SameTerm
  <1>5. runtime' = record_audio => SameTerm
    <2>1. CASE runtime.mirror # 0
      BY <2>1 DEF record_audio, SameTerm
    <2>2. CASE runtime.mirror = 0
      BY <1>1, <1>2, <2>2 DEF record_audio, Runtimes, SameTerm
    <2> QED
      BY <2>1, <2>2
  <1> QED
    BY <1>3, <1>4, <1>5 DEF SameTerm

\* Requests that neither end a session nor claim the lease.
LEMMA LeaseCalls ==
    ASSUME MirrorInv, LeaseInv, NEW c \in Connections,
           \/ handle_record(c) \/ open_refused(c) \/ audio_refused(c) \/ open_begins(c) \/ audio_begins(c)
           \/ starts(c) \/ streams_stopped(c)
           \/ \E initial \in BOOLEAN, streams \in SUBSET Streams : handle_setup(c, initial, streams)
    PROVE  LeaseInv'
  <1>1. c \in Callers
    BY DEF Callers
  <1>2. ASSUME handle_record(c) \/ open_refused(c) \/ audio_refused(c) PROVE LeaseInv'
    <2>1. /\ UNCHANGED <<runtime, commands, worker, lease>> /\ call[c].at # "observe"
          /\ \E k : Step(c, k)
      BY <1>2 DEF handle_record, Request, open_refused, audio_refused
    <2> QED
      BY <1>1, <2>1, TermKept, LeaseStep
  <1>3. ASSUME open_begins(c) PROVE LeaseInv'
    <2>1. /\ runtime' = [runtime EXCEPT !.opening = TRUE]
          /\ UNCHANGED <<commands, worker, lease>> /\ call[c].at # "observe"
          /\ \E k : Step(c, k)
      BY <1>3 DEF open_begins
    <2> QED
      BY <1>1, <2>1, TermKept, LeaseStep
  <1>4. ASSUME audio_begins(c) PROVE LeaseInv'
    <2>1. /\ runtime' = [runtime EXCEPT !.opening = TRUE]
          /\ UNCHANGED <<commands, worker, lease>> /\ call[c].at # "observe"
          /\ \E k : Step(c, k)
      BY <1>4 DEF audio_begins
    <2> QED
      BY <1>1, <2>1, TermKept, LeaseStep
  <1>5. ASSUME starts(c) PROVE LeaseInv'
    <2>1. /\ runtime' = runtime \/ runtime' = record_audio
          /\ UNCHANGED <<commands, worker, lease>> /\ call[c].at # "observe"
          /\ Step(c, Idle) \/ Step(c, [at |-> "failed"]) \/ Step(c, [at |-> "claim"])
      BY <1>5 DEF starts
    <2> QED
      BY <1>1, <2>1, TermKept, LeaseStep
  <1>6. ASSUME streams_stopped(c) PROVE LeaseInv'
    <2>1. /\ runtime' = [runtime EXCEPT !.opening = runtime.opening /\ runtime.transport # c]
          /\ UNCHANGED <<commands, worker, lease>> /\ call[c].at # "observe"
          /\ Step(c, Idle)
      BY <1>6 DEF streams_stopped
    <2> QED
      BY <1>1, <2>1, TermKept, LeaseStep
  <1>7. ASSUME NEW initial \in BOOLEAN, NEW streams \in SUBSET Streams, handle_setup(c, initial, streams)
        PROVE LeaseInv'
    <2>1. /\ \/ runtime' = runtime
             \/ runtime' = [runtime EXCEPT !.transport = IF initial THEN c ELSE runtime.transport]
          /\ UNCHANGED <<commands, worker, lease>> /\ call[c].at # "observe"
      BY <1>7 DEF handle_setup, Request
    <2>2. \E k : Step(c, k)
      BY <1>7 DEF handle_setup
    <2> QED
      BY <1>1, <2>1, <2>2, TermKept, LeaseStep
  <1> QED
    BY <1>2, <1>3, <1>4, <1>5, <1>6, <1>7

\* Joins and arriving frames.
LEMMA LeaseThreads ==
    ASSUME MirrorInv, LeaseInv,
           \/ \E who \in Callers : cancels(who) \/ joins(who)
           \/ \E t : video_arrives(t) \/ audio_arrives(t)
    PROVE  LeaseInv'
  <1>1. ASSUME NEW who \in Callers, cancels(who) \/ joins(who) PROVE LeaseInv'
    <2>1. /\ UNCHANGED <<runtime, commands, worker, lease>> /\ call[who].at # "observe"
          /\ \E k : Step(who, k)
      BY <1>1 DEF cancels, joins
    <2> QED
      BY <2>1, TermKept, LeaseStep
  <1>2. ASSUME NEW t, video_arrives(t) \/ audio_arrives(t) PROVE LeaseInv'
    <2>1. UNCHANGED <<runtime, commands, worker, lease, call>>
      BY <1>2 DEF video_arrives, audio_arrives
    <2>2. KeepsWatchers
      BY <2>1 DEF KeepsWatchers
    <2> QED
      BY <2>1, <2>2, TermKept, LeaseStill
  <1> QED
    BY <1>1, <1>2

\* An open that fails reports an error, one that succeeds a new generation.
LEMMA LeaseOpens ==
    ASSUME MirrorInv, LeaseInv, NEW c \in Connections, NEW ok \in BOOLEAN, open_ends(c, ok)
    PROVE  LeaseInv'
  <1>1. /\ call[c].at = "opening" /\ UNCHANGED <<worker, lease>> /\ \E k : Step(c, k)
    BY DEF open_ends
  <1>2. runtime \in Runtimes /\ runtime.generation \in Nat /\ commands \in Queues /\ c \in Callers
    BY DEF MirrorInv, MirrorTypes, Runtimes, QueueTypes, Queues, Callers
  <1>3. KeepsWatchers
    BY <1>1, <1>2, Watchers
  <1>4. CASE ok /\ open_accepted(c)
    <2> DEFINE next == next_generation(call[c].previous)
               opened == [runtime EXCEPT
                        !.mirror = call[c].bridge, !.bridge = call[c].bridge, !.audio_bridge = call[c].audio_bridge,
                        !.attach_queued = FALSE, !.transport = c, !.session = c,
                        !.generation = next, !.load_queued = FALSE,
                        !.play_queued = FALSE, !.opening = FALSE, !.audio_only = FALSE]
    <2>1. /\ commands' = set_status(commands, opened, "PREPARING")
          /\ runtime' = [opened EXCEPT !.status = "PREPARING"]
      BY <1>4 DEF open_ends
    <2>2. runtime.generation = call[c].previous /\ runtime.mirror = 0
      BY <1>4 DEF open_accepted
    <2>3. next \in Nat /\ next = runtime.generation + 1
      BY <1>2, <2>2 DEF next_generation
    <2>4. ~runtime.load_queued
      BY <2>2 DEF MirrorInv, RuntimeLinked
    <2> HIDE DEF next
    <2>5. opened.generation = next /\ runtime'.generation = next /\ runtime'.status = "PREPARING"
          /\ ~runtime'.load_queued
      BY <1>2, <2>1 DEF Runtimes
    <2> HIDE DEF opened
    <2>6. /\ Elements(commands) \subseteq Elements(commands')
          /\ Elements(commands') \subseteq Elements(commands) \cup {NotifyCommand(next, "PREPARING")}
      <3>1. "PREPARING" \in Statuses
        BY DEF Statuses
      <3> QED
        BY <1>2, <2>1, <2>3, <2>5, <3>1, StatusElements
    <2>7. KeepsNotices /\ NoNewLoads
      BY <1>1, <2>6, KindsOf, QueueGrows
    <2>8. StatusLinked'
      BY <2>5 DEF StatusLinked
    <2> QED
      BY <1>1, <1>2, <1>3, <2>3, <2>4, <2>5, <2>7, <2>8, LeaseStays
  <1>5. CASE ~(ok /\ open_accepted(c))
    <2> DEFINE mine == runtime.opening /\ runtime.generation = call[c].previous
               failed == [runtime EXCEPT !.opening = FALSE]
    <2>1. \/ commands' = commands /\ (runtime' = runtime \/ runtime' = failed)
          \/ commands' = set_status(commands, failed, "ERROR") /\ runtime' = [failed EXCEPT !.status = "ERROR"]
      BY <1>5 DEF open_ends
    <2>2. CASE commands' = commands /\ (runtime' = runtime \/ runtime' = failed)
      BY <1>1, <1>2, <1>3, <2>2, TermKept, LeaseStill
    <2>3. CASE commands' = set_status(commands, failed, "ERROR") /\ runtime' = [failed EXCEPT !.status = "ERROR"]
      <3>1. /\ failed.generation = runtime.generation
            /\ runtime'.generation = runtime.generation /\ runtime'.session = runtime.session
            /\ runtime'.load_queued = runtime.load_queued /\ runtime'.status = "ERROR"
        BY <1>2, <2>3 DEF Runtimes
      <3> HIDE DEF failed
      <3>2. /\ Elements(commands) \subseteq Elements(commands')
            /\ Elements(commands') \subseteq Elements(commands) \cup {NotifyCommand(runtime.generation, "ERROR")}
        <4>1. "ERROR" \in Statuses
          BY DEF Statuses
        <4> QED
          BY <1>2, <2>3, <3>1, <4>1, StatusElements
      <3>3. KeepsNotices /\ NoNewLoads
        BY <1>1, <3>2, KindsOf, QueueGrows
      <3>4. StatusLinked'
        BY <3>1 DEF StatusLinked
      <3> QED
        BY <1>1, <1>2, <1>3, <3>1, <3>3, <3>4, LeaseStays
    <2> QED
      BY <2>1, <2>2, <2>3
  <1> QED
    BY <1>4, <1>5

\* Opening the sound.
LEMMA LeaseAudio ==
    ASSUME MirrorInv, LeaseInv, NEW c \in Connections, NEW ok \in BOOLEAN, audio_ends(c, ok)
    PROVE  LeaseInv'
  <1>1. /\ call[c].at = "audio_opening" /\ UNCHANGED <<worker, lease>>
    BY DEF audio_ends
  <1>2. \E k : Step(c, k)
    BY DEF audio_ends
  <1>3. runtime \in Runtimes /\ runtime.generation \in Nat /\ commands \in Queues /\ c \in Callers
    BY DEF MirrorInv, MirrorTypes, Runtimes, QueueTypes, Queues, Callers
  <1>4. KeepsWatchers
    BY <1>1, <1>2, <1>3, Watchers
  <1>5. CASE ~AudioAccepted(c, ok)
    <2>1. PICK x : runtime' = [runtime EXCEPT !.opening = x] /\ commands' = commands
      BY <1>5 DEF audio_ends, AudioAccepted
    <2> QED
      BY <1>1, <1>4, <2>1, TermKept, LeaseStill
  <1>6. CASE AudioAccepted(c, ok)
    <2> DEFINE ab == call[c].audio_bridge
               created == call[c].bridge = 0
               next == next_generation(call[c].previous)
               with_audio == [runtime EXCEPT !.audio = ab, !.audio_bridge = IF created THEN 0 ELSE ab,
                                             !.attach_queued = FALSE, !.opening = FALSE]
               opened == [with_audio EXCEPT
                             !.bridge = ab, !.session = c, !.audio_only = TRUE, !.generation = next,
                             !.load_queued = FALSE, !.play_queued = FALSE]
    <2>1. /\ commands' = IF created THEN set_status(commands, opened, "PREPARING") ELSE commands
          /\ runtime' = IF created THEN [opened EXCEPT !.status = "PREPARING"] ELSE with_audio
      BY <1>6 DEF audio_ends, AudioAccepted
    <2>2. runtime.generation = call[c].previous /\ runtime.bridge = call[c].bridge
      BY <1>6 DEF AudioAccepted
    <2>3. next \in Nat /\ next = runtime.generation + 1
      BY <1>3, <2>2 DEF next_generation
    <2> HIDE DEF next
    <2>4. CASE ~created
      <3>1. SameTerm /\ commands' = commands
        BY <1>3, <2>1, <2>4 DEF Runtimes, SameTerm
      <3> QED
        BY <1>1, <1>4, <3>1, LeaseStill
    <2>5. CASE created
      <3>1. ~runtime.load_queued
        BY <2>2, <2>5 DEF MirrorInv, RuntimeLinked
      <3>2. opened.generation = next /\ runtime'.generation = next /\ runtime'.status = "PREPARING"
            /\ ~runtime'.load_queued
        BY <1>3, <2>1, <2>5 DEF Runtimes
      <3> HIDE DEF opened
      <3>3. /\ Elements(commands) \subseteq Elements(commands')
            /\ Elements(commands') \subseteq Elements(commands) \cup {NotifyCommand(next, "PREPARING")}
        <4>1. "PREPARING" \in Statuses
          BY DEF Statuses
        <4> QED
          BY <1>3, <2>1, <2>3, <2>5, <3>2, <4>1, StatusElements
      <3>4. KeepsNotices /\ NoNewLoads
        BY <1>1, <3>3, KindsOf, QueueGrows
      <3>5. StatusLinked'
        BY <3>2 DEF StatusLinked
      <3> QED
        BY <1>1, <1>3, <1>4, <2>3, <3>1, <3>2, <3>4, <3>5, LeaseStays
    <2> QED
      BY <2>4, <2>5
  <1> QED
    BY <1>5, <1>6

\* A stop says farewell in the name of the generation it ends.
LEMMA LeaseStop ==
    ASSUME MirrorInv, LeaseInv, RoomLeft', NEW who \in Callers, call[who].at # "observe",
           NEW token, stop_runtime(who, token, Idle), UNCHANGED <<worker, lease>>
    PROVE  LeaseInv'
  <1>1. runtime \in Runtimes /\ runtime.generation \in Nat /\ commands \in Queues
    BY DEF MirrorInv, MirrorTypes, Runtimes, QueueTypes, Queues
  <1>2. CASE ~stop_applies(token)
    <2>1. UNCHANGED <<commands, runtime>> /\ Step(who, Idle)
      BY <1>2 DEF stop_runtime
    <2> QED
      BY <2>1, TermKept, LeaseStep
  <1>3. CASE stop_applies(token)
    <2> DEFINE stop == StopCommand(runtime.generation)
               queue == IF runtime.load_queued THEN enqueue(commands, stop) ELSE commands
               had == runtime.session # "none"
               end == NotifyCommand(runtime.generation, "DISCONNECTED")
    <2>1. commands' = IF had THEN set_status(queue, runtime, "DISCONNECTED") ELSE queue
      BY <1>3 DEF stop_runtime
    <2>2. runtime' = [runtime EXCEPT
                   !.mirror = 0, !.audio = 0, !.bridge = 0, !.audio_bridge = 0,
                   !.transport = "none", !.session = "none", !.opening = FALSE,
                   !.recording = FALSE, !.load_queued = FALSE, !.play_queued = FALSE,
                   !.attach_queued = FALSE, !.audio_only = FALSE,
                   !.status = IF had THEN "DISCONNECTED" ELSE @]
      BY <1>3 DEF stop_runtime
    <2>3. \E k : Step(who, k)
      BY <1>3 DEF stop_runtime
    <2>4. KeepsWatchers
      BY <2>3, Watchers
    <2>5. runtime'.generation = runtime.generation /\ runtime'.session = "none" /\ ~runtime'.load_queued
          /\ runtime'.status = IF had THEN "DISCONNECTED" ELSE runtime.status
      BY <1>1, <2>2 DEF Runtimes
    <2>6. stop \in CommandStates /\ "DISCONNECTED" \in Statuses /\ stop.type \notin LoadTypes
      <3>1. 0 \in Ids /\ "DISCONNECTED" \in Statuses
        BY DEF Ids, Statuses
      <3> QED
        BY <1>1, <3>1, CommandsTyped, KindsOf
    <2> HIDE DEF stop
    <2>7. /\ queue \in Queues /\ Elements(commands) \subseteq Elements(queue)
          /\ Elements(queue) \subseteq Elements(commands) \cup {stop}
      BY <1>1, <2>6, Enqueued, EnqueueElements
    <2>8. runtime.load_queued => had /\ runtime.status # "DISCONNECTED"
      BY DEF MirrorInv, RuntimeLinked, LeaseInv, StatusLinked
    <2> HIDE DEF queue
    <2>9. /\ Elements(queue) \subseteq Elements(commands')
          /\ Elements(commands') \subseteq Elements(queue) \cup {end}
          /\ had /\ runtime.status # "DISCONNECTED" => end \in Elements(commands')
      <3>1. CASE had
        BY <1>1, <2>1, <2>6, <2>7, <3>1, StatusElements DEF RoomLeft
      <3>2. CASE ~had
        BY <2>1, <3>2
      <3> QED
        BY <3>1, <3>2
    <2>10. end.type = "NOTIFY" /\ end.status = "DISCONNECTED" /\ end.generation = runtime.generation
           /\ end.type \notin LoadTypes
      BY KindsOf
    <2> HIDE DEF end
    <2>11. KeepsNotices /\ NoNewLoads
      BY <2>6, <2>7, <2>9, <2>10, QueueGrows
    <2>12. runtime.load_queued => Farewell(Pending', runtime.generation)
      BY <2>8, <2>9, <2>10 DEF Farewell, Pending
    <2>13. StatusLinked'
      <3>1. ~had => ~runtime.load_queued
        BY <2>8
      <3> QED
        BY <2>5, <3>1 DEF StatusLinked, LeaseInv
    <2> QED
      BY <1>1, <2>4, <2>5, <2>11, <2>12, <2>13, LeaseStays
  <1> QED
    BY <1>2, <1>3

\* Whatever ends the session announces it.
LEMMA LeaseStops ==
    ASSUME MirrorInv, LeaseInv, RoomLeft',
           \/ stop_active_media
           \/ \E c \in Connections : \/ fails(c) \/ session_closed(c)
                                     \/ \E ok \in BOOLEAN : mirror_claims(c, ok)
    PROVE  LeaseInv'
  <1>1. CASE stop_active_media
    <2>1. /\ "app" \in Callers /\ call["app"].at # "observe" /\ stop_runtime("app", lease.token, Idle)
          /\ UNCHANGED <<worker, lease>>
      BY <1>1 DEF stop_active_media, Callers
    <2> QED
      BY <2>1, LeaseStop
  <1>2. ASSUME NEW c \in Connections, fails(c) \/ session_closed(c) PROVE LeaseInv'
    <2>1. /\ call[c].at # "observe" /\ c \in Callers /\ UNCHANGED <<worker, lease>>
          /\ \/ stop_runtime(c, c, Idle)
             \/ UNCHANGED <<runtime, commands>> /\ (Step(c, Idle) \/ call' = call)
      BY <1>2 DEF fails, session_closed, Callers
    <2>2. CASE stop_runtime(c, c, Idle)
      BY <2>1, <2>2, LeaseStop
    <2>3. CASE UNCHANGED <<runtime, commands>> /\ (Step(c, Idle) \/ call' = call)
      BY <2>1, <2>3, SamePlace, TermKept, LeaseStep
    <2> QED
      BY <2>1, <2>2, <2>3
  <1>3. ASSUME NEW c \in Connections, NEW ok \in BOOLEAN, mirror_claims(c, ok) PROVE LeaseInv'
    <2>1. /\ call[c].at # "observe" /\ c \in Callers /\ UNCHANGED <<worker, lease>>
          /\ \/ stop_runtime(c, c, Idle)
             \/ UNCHANGED <<runtime, commands>> /\ Step(c, [at |-> "claimed", generation |-> runtime.generation])
      BY <1>3 DEF mirror_claims, Callers
    <2>2. CASE stop_runtime(c, c, Idle)
      BY <2>1, <2>2, LeaseStop
    <2>3. CASE UNCHANGED <<runtime, commands>> /\ Step(c, [at |-> "claimed", generation |-> runtime.generation])
      BY <2>1, <2>3, TermKept, LeaseStep
    <2> QED
      BY <2>1, <2>2, <2>3
  <1> QED
    BY <1>1, <1>2, <1>3

\* So does a TEARDOWN that leaves nothing.
LEMMA LeaseTeardown ==
    ASSUME MirrorInv, LeaseInv, RoomLeft', NEW c \in Connections, NEW streams \in SUBSET Streams,
           handle_teardown(c, streams)
    PROVE  LeaseInv'
  <1>1. /\ call[c].at # "observe" /\ c \in Callers /\ UNCHANGED <<worker, lease>>
        /\ \/ UNCHANGED <<runtime, commands, call>>
           \/ stop_streams(c, streams \cap context[c].setup)
    BY DEF handle_teardown, Request, Callers
  <1>2. CASE UNCHANGED <<runtime, commands, call>>
    BY <1>1, <1>2, SamePlace, TermKept, LeaseStep
  <1>3. CASE stop_streams(c, streams \cap context[c].setup)
    <2>1. runtime \in Runtimes /\ runtime.generation \in Nat /\ commands \in Queues
      BY DEF MirrorInv, MirrorTypes, Runtimes, QueueTypes, Queues
    <2> DEFINE kv == runtime.mirror # 0 /\ "video" \notin (streams \cap context[c].setup)
               g == runtime.generation
               detach == kv /\ "audio" \in (streams \cap context[c].setup) /\ runtime.attach_queued
               sounds == AudioCommand(g, 0)
               stop == StopCommand(g)
               end == NotifyCommand(g, "DISCONNECTED")
               queue == IF detach THEN enqueue(commands, sounds) ELSE commands
               longer == enqueue(queue, stop)
               stopped == ~kv /\ runtime.load_queued
    <2>2. /\ commands' = IF stopped THEN set_status(longer, runtime, "DISCONNECTED") ELSE queue
          /\ runtime'.generation = IF kv THEN g ELSE next_generation(g)
          /\ runtime'.load_queued = (runtime.load_queued /\ kv)
          /\ runtime'.status = IF stopped THEN "DISCONNECTED" ELSE runtime.status
          /\ \E k : Step(c, k)
      <3>1. commands' = IF stopped THEN set_status(longer, runtime, "DISCONNECTED") ELSE queue
        BY <1>3 DEF stop_streams
      <3>2. runtime'.generation = IF kv THEN g ELSE next_generation(g)
        BY <1>3, <2>1 DEF stop_streams, Runtimes
      <3>3. runtime'.load_queued = (runtime.load_queued /\ kv)
        BY <1>3, <2>1 DEF stop_streams, Runtimes
      <3>4. runtime'.status = IF stopped THEN "DISCONNECTED" ELSE runtime.status
        BY <1>3, <2>1 DEF stop_streams, Runtimes
      <3>5. \E k : Step(c, k)
        BY <1>3 DEF stop_streams
      <3> QED
        BY <3>1, <3>2, <3>3, <3>4, <3>5
    <2>3. runtime'.session = runtime.session \/ runtime'.session = "none"
      BY <1>3, <2>1 DEF stop_streams, Runtimes
    <2>4. /\ sounds \in CommandStates /\ stop \in CommandStates /\ "DISCONNECTED" \in Statuses
          /\ stop.type \notin LoadTypes /\ sounds.type \notin LoadTypes /\ end.type \notin LoadTypes
          /\ end.type = "NOTIFY" /\ end.status = "DISCONNECTED" /\ end.generation = g
      <3>1. 0 \in Ids /\ "DISCONNECTED" \in Statuses
        BY DEF Ids, Statuses
      <3> QED
        BY <2>1, <3>1, CommandsTyped, KindsOf
    <2> HIDE DEF sounds, stop, detach, kv
    <2>5. /\ queue \in Queues /\ Elements(commands) \subseteq Elements(queue)
          /\ Elements(queue) \subseteq Elements(commands) \cup {sounds}
      BY <2>1, <2>4, Enqueued, EnqueueElements
    <2> HIDE DEF queue
    <2>6. /\ longer \in Queues /\ Elements(queue) \subseteq Elements(longer)
          /\ Elements(longer) \subseteq Elements(queue) \cup {stop}
      BY <2>4, <2>5, Enqueued, EnqueueElements
    <2> HIDE DEF longer
    <2>7. runtime.load_queued => runtime.status # "DISCONNECTED"
      BY DEF LeaseInv, StatusLinked
    <2>8. stopped => /\ Elements(longer) \subseteq Elements(commands')
                     /\ Elements(commands') \subseteq Elements(longer) \cup {end}
                     /\ end \in Elements(commands')
      BY <2>1, <2>2, <2>4, <2>6, <2>7, StatusElements DEF RoomLeft
    <2>9. ~stopped => commands' = queue
      BY <2>2
    <2> HIDE DEF end
    <2>10. /\ Elements(commands) \subseteq Elements(commands')
           /\ \A k \in Elements(commands') : k \in Elements(commands) \/ k.type \notin LoadTypes
      BY <2>4, <2>5, <2>6, <2>8, <2>9
    <2>11. KeepsNotices /\ NoNewLoads
      BY <1>1, <2>10, QueueGrows
    <2>12. stopped => Farewell(Pending', g)
      BY <2>4, <2>8 DEF Farewell, Pending
    <2>13. StatusLinked'
      BY <2>2 DEF LeaseInv, StatusLinked
    <2>14. KeepsWatchers
      BY <1>1, <2>2, Watchers
    <2>15. runtime'.generation \in Nat /\ g <= runtime'.generation /\ (~kv => runtime'.generation # g)
      BY <2>1, <2>2 DEF next_generation
    <2> QED
      BY <1>1, <2>1, <2>2, <2>3, <2>11, <2>12, <2>13, <2>14, <2>15, LeaseStays
  <1> QED
    BY <1>1, <1>2, <1>3

\* The thread that took the lease looks at the status again.
LEMMA LeaseObserves ==
    ASSUME MirrorInv, LeaseInv, NEW c \in Connections, mirror_observes(c)
    PROVE  LeaseInv'
  <1>1. /\ UNCHANGED <<runtime, commands, worker>> /\ call[c].at = "observe"
        /\ \/ lease' = NoLease
           \/ lease' = lease /\ (lease.generation = call[c].generation =>
                 runtime.status = "WAITING_KEYFRAME" /\ runtime.generation = call[c].generation)
    BY DEF mirror_observes
  <1>2. \A d \in Connections \ {c} : call'[d] = call[d]
    BY DEF mirror_observes, Step, MirrorInv, MirrorTypes, Callers
  <1>3. StatusLinked' /\ LoadsLinked' /\ Pending' = Pending
    BY <1>1 DEF LeaseInv, StatusLinked, LoadsLinked, Pending
  <1>4. LeaseKept'
    <2> SUFFICES ASSUME lease' # NoLease
                 PROVE  \/ runtime'.generation = lease'.generation /\ runtime'.load_queued
                        \/ Farewell(Pending', lease'.generation)
                        \/ Watched(lease.generation)'
      BY DEF LeaseKept
    <2>1. CASE Watched(lease.generation)
      <3>1. PICK d \in Connections : call[d].at = "observe" /\ call[d].generation = lease.generation
        BY <2>1 DEF Watched
      <3>2. CASE d = c
        BY <1>1, <3>1, <3>2 DEF LeaseInv, StatusLinked
      <3>3. CASE d # c
        <4>1. Watched(lease.generation)'
          BY <1>1, <1>2, <3>1, <3>3 DEF Watched
        <4> QED
          BY <4>1
      <3> QED
        BY <3>2, <3>3
    <2>2. CASE ~Watched(lease.generation)
      BY <1>1, <1>3, <2>2 DEF LeaseInv, LeaseKept
    <2> QED
      BY <2>1, <2>2
  <1> QED
    BY <1>3, <1>4 DEF LeaseInv

\* RECORD asks the player to load.
LEMMA LeaseRecords ==
    ASSUME MirrorInv, LeaseInv, NEW c \in Connections, mirror_records(c)
    PROVE  LeaseInv'
  <1> DEFINE g == runtime.generation
             load == LoadCommand(g, runtime.bridge)
             queue == enqueue(commands, load)
             room == queue # commands
             status == IF room THEN "WAITING_KEYFRAME" ELSE "ERROR"
  <1>1. runtime \in Runtimes /\ g \in Nat /\ commands \in Queues /\ c \in Callers /\ call[c] \in CallStates
    BY DEF MirrorInv, MirrorTypes, Runtimes, QueueTypes, Queues, Callers
  <1>2. /\ call[c].at = "claimed" /\ lease' = [token |-> c, generation |-> call[c].generation]
        /\ Step(c, [call[c] EXCEPT !.at = "observe"]) /\ worker' = worker
        /\ \/ UNCHANGED <<commands, runtime>>
           \/ /\ commands' = set_status(queue, runtime, status)
              /\ runtime' = [runtime EXCEPT !.recording = TRUE, !.load_queued = room, !.status = status]
    BY DEF mirror_records, runtime_record
  <1>3. LeaseKept'
    <2>1. call[c] \in Claims
      BY <1>1, <1>2 DEF CallStates, Plain, Opens, Stops
    <2>2. call'[c].at = "observe" /\ call'[c].generation = call[c].generation
      BY <1>1, <1>2, <2>1 DEF Step, MirrorInv, MirrorTypes, Claims
    <2>3. Watched(lease.generation)'
      BY <1>2, <2>2 DEF Watched
    <2> QED
      BY <2>3 DEF LeaseKept
  <1>4. CASE UNCHANGED <<commands, runtime>>
    <2>1. StatusLinked' /\ LoadsLinked'
      BY <1>2, <1>4 DEF LeaseInv, StatusLinked, LoadsLinked, Pending
    <2> QED
      BY <1>3, <2>1 DEF LeaseInv
  <1>5. CASE /\ commands' = set_status(queue, runtime, status)
             /\ runtime' = [runtime EXCEPT !.recording = TRUE, !.load_queued = room, !.status = status]
    <2>1. /\ runtime'.generation = g /\ runtime'.session = runtime.session
          /\ runtime'.load_queued = room /\ runtime'.status = status
      BY <1>1, <1>5 DEF Runtimes
    <2>2. load \in CommandStates /\ load.generation = g /\ status \in Statuses
      <3>1. runtime.bridge \in Ids /\ "ERROR" \in Statuses /\ "WAITING_KEYFRAME" \in Statuses
        BY <1>1 DEF Runtimes, Statuses
      <3> QED
        BY <1>1, <3>1, CommandsTyped, KindsOf
    <2> HIDE DEF load
    <2>3. queue \in Queues /\ Elements(queue) \subseteq Elements(commands) \cup {load}
      BY <1>1, <2>2, Enqueued, EnqueueElements
    <2>4. ~room => queue = commands
      OBVIOUS
    <2>5. (status = "WAITING_KEYFRAME" => room) /\ status # "DISCONNECTED"
      OBVIOUS
    <2> HIDE DEF queue, status, room
    <2>6. Elements(commands') \subseteq Elements(queue) \cup {NotifyCommand(g, status)}
      BY <1>1, <1>5, <2>2, <2>3, StatusElements
    <2>7. NotifyCommand(g, status).type \notin LoadTypes
      BY KindsOf
    <2>8. LoadsLinked'
      <3> SUFFICES ASSUME NEW k \in Pending', k.type \in LoadTypes
                   PROVE  /\ k.generation <= runtime'.generation
                          /\ k.generation = runtime'.generation /\ runtime'.session # "none" => runtime'.load_queued
        BY DEF LoadsLinked
      <3>1. k \in Pending \/ (k = load /\ room)
        BY <1>2, <2>3, <2>4, <2>6, <2>7 DEF Pending
      <3>2. CASE k = load /\ room
        BY <1>1, <2>1, <2>2, <3>2
      <3>3. CASE k \in Pending /\ room
        BY <2>1, <3>3 DEF LeaseInv, LoadsLinked
      <3>4. CASE k \in Pending /\ ~room
        <4>1. /\ k.generation <= g
              /\ k.generation = g /\ runtime.session # "none" => runtime.load_queued
          BY <3>4 DEF LeaseInv, LoadsLinked
        <4>2. ~runtime.load_queued
          BY <1>4, <1>5, <2>1, <3>4 DEF mirror_records, runtime_record
        <4> QED
          BY <2>1, <4>1, <4>2
      <3> QED
        BY <3>1, <3>2, <3>3, <3>4
    <2>9. StatusLinked'
      BY <2>1, <2>5 DEF StatusLinked
    <2> QED
      BY <1>3, <2>8, <2>9 DEF LeaseInv
  <1> QED
    BY <1>2, <1>4, <1>5

\* The receiver threads' callbacks report errors and start the player.
LEMMA LeaseVideo ==
    ASSUME MirrorInv, LeaseInv, NEW t \in Streams \X BridgeIds, NEW pushed \in BOOLEAN, NEW keyframe \in BOOLEAN,
           video_pushed(t, pushed, keyframe)
    PROVE  LeaseInv'
  <1> DEFINE g == threads[t].generation
             play == PlayCommand(g)
  <1>1. runtime \in Runtimes /\ runtime.generation \in Nat /\ commands \in Queues
    BY DEF MirrorInv, MirrorTypes, Runtimes, QueueTypes, Queues
  <1>2. g \in Nat
    BY DEF MirrorInv, MirrorTypes, ThreadStates
  <1>3. /\ UNCHANGED <<worker, lease, call>>
        /\ \/ commands' = set_status(commands, runtime, "ERROR")
           \/ commands' = enqueue(commands, play) \/ commands' = commands
    BY DEF video_pushed
  <1>4. \E p, s : /\ runtime' = [runtime EXCEPT !.play_queued = p, !.status = s]
                  /\ s = "ERROR" \/ s = runtime.status
    BY DEF video_pushed
  <1>5. /\ runtime'.generation = runtime.generation /\ runtime'.session = runtime.session
        /\ runtime'.load_queued = runtime.load_queued
        /\ runtime'.status = "ERROR" \/ runtime'.status = runtime.status
    BY <1>1, <1>4 DEF Runtimes
  <1>6. play \in CommandStates /\ play.type \notin LoadTypes /\ "ERROR" \in Statuses
    <2>1. 0 \in Ids /\ "ERROR" \in Statuses
      BY DEF Ids, Statuses
    <2> QED
      BY <1>2, <2>1, CommandsTyped, KindsOf
  <1> HIDE DEF play
  <1>7. /\ Elements(commands) \subseteq Elements(commands')
        /\ Elements(commands') \subseteq
              Elements(commands) \cup {play, NotifyCommand(runtime.generation, "ERROR")}
    BY <1>1, <1>3, <1>6, StatusElements, EnqueueElements
  <1>8. KeepsNotices /\ NoNewLoads
    BY <1>3, <1>6, <1>7, KindsOf, QueueGrows
  <1>9. StatusLinked' /\ KeepsWatchers
    BY <1>3, <1>5 DEF StatusLinked, LeaseInv, KeepsWatchers
  <1> QED
    BY <1>1, <1>3, <1>5, <1>8, <1>9, LeaseStays

\* Pushing sound.
LEMMA LeaseSound ==
    ASSUME MirrorInv, LeaseInv, NEW t \in Streams \X BridgeIds, NEW pushed \in BOOLEAN, audio_pushed(t, pushed)
    PROVE  LeaseInv'
  <1> DEFINE sounds == AudioCommand(threads[t].generation, runtime.audio_bridge)
  <1>1. runtime \in Runtimes /\ runtime.generation \in Nat /\ commands \in Queues /\ runtime.audio_bridge \in Ids
    BY DEF MirrorInv, MirrorTypes, Runtimes, QueueTypes, Queues
  <1>2. threads[t].generation \in Nat
    BY DEF MirrorInv, MirrorTypes, ThreadStates
  <1>3. /\ UNCHANGED <<worker, lease, call>>
        /\ commands' = enqueue(commands, sounds) \/ commands' = commands
        /\ \E x : runtime' = [runtime EXCEPT !.attach_queued = x]
    BY DEF audio_pushed
  <1>4. SameTerm
    BY <1>1, <1>3 DEF Runtimes, SameTerm
  <1>5. sounds \in CommandStates /\ sounds.type \notin LoadTypes
    <2>1. "ERROR" \in Statuses
      BY DEF Statuses
    <2> QED
      BY <1>1, <1>2, <2>1, CommandsTyped, KindsOf
  <1> HIDE DEF sounds
  <1>6. /\ Elements(commands) \subseteq Elements(commands')
        /\ Elements(commands') \subseteq Elements(commands) \cup {sounds}
    BY <1>1, <1>3, <1>5, EnqueueElements
  <1>7. KeepsNotices /\ NoNewLoads
    BY <1>3, <1>5, <1>6, QueueGrows
  <1>8. StatusLinked' /\ KeepsWatchers
    BY <1>3, <1>4 DEF StatusLinked, LeaseInv, KeepsWatchers, SameTerm
  <1> QED
    BY <1>1, <1>3, <1>4, <1>7, <1>8, LeaseStays DEF SameTerm

\* The worker.
LEMMA LeasePops ==
    ASSUME MirrorInv, LeaseInv, worker_pops
    PROVE  LeaseInv'
  <1>1. /\ worker = NoCommand /\ commands # <<>> /\ worker' = Head(commands) /\ commands' = Tail(commands)
        /\ UNCHANGED <<runtime, lease, call>>
    BY DEF worker_pops
  <1>2. Elements(commands) = Elements(Tail(commands)) \cup {Head(commands)}
    BY <1>1, TailElements DEF MirrorInv, MirrorTypes, QueueTypes
  <1>3. Pending = Pending' \cup {NoCommand}
    BY <1>1, <1>2 DEF Pending
  <1>4. NoCommand.type # "NOTIFY" /\ NoCommand.type \notin LoadTypes
    BY KindsOf
  <1>5. KeepsNotices /\ NoNewLoads /\ KeepsWatchers
    BY <1>1, <1>3, <1>4 DEF KeepsNotices, NoNewLoads, KeepsWatchers
  <1>6. runtime.generation \in Nat
    BY DEF MirrorInv, MirrorTypes, Runtimes
  <1>7. StatusLinked'
    BY <1>1 DEF LeaseInv, StatusLinked
  <1> QED
    BY <1>1, <1>5, <1>6, <1>7, LeaseStays

\* Completing a command of the session in force, or of a dead one.
LEMMA LeaseCompletes ==
    ASSUME MirrorInv, LeaseInv, NEW g, NEW ok \in BOOLEAN, NEW success \in {"WAITING_KEYFRAME", "PLAYING"},
           command_complete(g, ok, success), worker' = NoCommand, worker.type # "NOTIFY",
           UNCHANGED <<lease, call>>,
           active(g) /\ ok /\ success = "WAITING_KEYFRAME" => runtime.load_queued
    PROVE  LeaseInv'
  <1> DEFINE status == IF ok THEN success ELSE "ERROR"
  <1>1. runtime \in Runtimes /\ runtime.generation \in Nat /\ commands \in Queues
    BY DEF MirrorInv, MirrorTypes, Runtimes, QueueTypes, Queues
  <1>2. KeepsWatchers
    BY DEF KeepsWatchers
  <1>3. CASE ~active(g)
    <2>1. UNCHANGED <<commands, runtime>>
      BY <1>3 DEF command_complete
    <2>2. KeepsNotices /\ NoNewLoads
      BY <2>1, QueueGrows
    <2>3. StatusLinked'
      BY <2>1 DEF LeaseInv, StatusLinked
    <2> QED
      BY <1>1, <1>2, <2>1, <2>2, <2>3, LeaseStays
  <1>4. CASE active(g)
    <2>1. commands' = set_status(commands, runtime, status) /\ runtime' = [runtime EXCEPT !.status = status]
      BY <1>4 DEF command_complete
    <2>2. status \in Statuses /\ status # "DISCONNECTED" /\ (status = "WAITING_KEYFRAME" => runtime.load_queued)
      BY <1>4 DEF Statuses
    <2> HIDE DEF status
    <2>3. /\ runtime'.generation = runtime.generation /\ runtime'.session = runtime.session
          /\ runtime'.load_queued = runtime.load_queued /\ runtime'.status = status
      BY <1>1, <2>1 DEF Runtimes
    <2>4. /\ Elements(commands) \subseteq Elements(commands')
          /\ Elements(commands') \subseteq Elements(commands) \cup {NotifyCommand(runtime.generation, status)}
      BY <1>1, <2>1, <2>2, StatusElements
    <2>5. KeepsNotices /\ NoNewLoads
      BY <2>4, KindsOf, QueueGrows
    <2>6. StatusLinked'
      BY <2>2, <2>3 DEF StatusLinked
    <2> QED
      BY <1>1, <1>2, <2>3, <2>5, <2>6, LeaseStays
  <1> QED
    BY <1>3, <1>4

\* The worker's commands; a notice gives up the lease of its session.
LEMMA LeaseWorker ==
    ASSUME MirrorInv, LeaseInv,
           \/ process_stop \/ process_notify
           \/ \E ok \in BOOLEAN : process_load(ok) \/ process_bound(ok) \/ process_play(ok) \/ process_audio(ok)
    PROVE  LeaseInv'
  <1>1. ASSUME process_stop \/ \E ok \in BOOLEAN : process_audio(ok) PROVE LeaseInv'
    <2>1. UNCHANGED <<runtime, commands, lease, call>> /\ worker' = NoCommand /\ worker.type # "NOTIFY"
      BY <1>1 DEF process_stop, process_audio
    <2>2. KeepsNotices /\ NoNewLoads /\ KeepsWatchers
      BY <2>1, QueueGrows DEF KeepsWatchers
    <2>3. StatusLinked' /\ runtime.generation \in Nat
      BY <2>1 DEF LeaseInv, StatusLinked, MirrorInv, MirrorTypes, Runtimes
    <2> QED
      BY <2>1, <2>2, <2>3, LeaseStays
  <1>2. ASSUME NEW ok \in BOOLEAN, process_play(ok) PROVE LeaseInv'
    <2>1. /\ command_complete(worker.generation, ok /\ lease_for(worker.generation), "PLAYING")
          /\ worker' = NoCommand /\ worker.type # "NOTIFY" /\ UNCHANGED <<lease, call>>
      BY <1>2 DEF process_play
    <2>2. PICK done \in BOOLEAN : done = (ok /\ lease_for(worker.generation))
      OBVIOUS
    <2> QED
      BY <2>1, <2>2, LeaseCompletes
  <1>3. ASSUME NEW ok \in BOOLEAN, process_bound(ok) PROVE LeaseInv'
    <2>1. PICK done \in BOOLEAN : done = (ok /\ active(worker.generation) /\ lease_for(worker.generation))
      OBVIOUS
    <2>2. /\ command_complete(worker.generation, done, "WAITING_KEYFRAME")
          /\ worker' = NoCommand /\ worker.type = "BOUND" /\ UNCHANGED <<lease, call>>
      BY <1>3, <2>1 DEF process_bound
    <2>3. active(worker.generation) => runtime.load_queued
      BY <2>2 DEF active, LeaseInv, LoadsLinked, Pending, LoadTypes
    <2> QED
      BY <2>2, <2>3, LeaseCompletes
  <1>4. ASSUME NEW ok \in BOOLEAN, process_load(ok) PROVE LeaseInv'
    <2>1. worker.type = "LOAD" /\ UNCHANGED <<lease, call>>
          /\ \/ /\ worker' = [worker EXCEPT !.type = "BOUND"] /\ UNCHANGED <<commands, runtime>>
             \/ /\ worker' = NoCommand
                /\ command_complete(worker.generation, FALSE, "WAITING_KEYFRAME")
      BY <1>4 DEF process_load
    <2>2. CASE worker' = [worker EXCEPT !.type = "BOUND"] /\ UNCHANGED <<commands, runtime>>
      <3>1. worker \in Holding
        BY <2>1 DEF MirrorInv, MirrorTypes, Workers, CommandStates, Bare, Notices, BareTypes, NoCommand
      <3>2. worker'.generation = worker.generation /\ worker'.type = "BOUND"
        BY <2>2, <3>1 DEF Holding
      <3>3. KeepsNotices /\ KeepsWatchers
        BY <2>1, <2>2 DEF KeepsNotices, KeepsWatchers, Pending
      <3>4. NoNewLoads
        BY <2>1, <2>2, <3>2 DEF NoNewLoads, Pending, LoadTypes
      <3>5. StatusLinked' /\ runtime.generation \in Nat
        BY <2>2 DEF LeaseInv, StatusLinked, MirrorInv, MirrorTypes, Runtimes
      <3> QED
        BY <2>1, <2>2, <3>3, <3>4, <3>5, LeaseStays
    <2>3. CASE worker' = NoCommand /\ command_complete(worker.generation, FALSE, "WAITING_KEYFRAME")
      BY <2>1, <2>3, LeaseCompletes
    <2> QED
      BY <2>1, <2>2, <2>3
  <1>5. ASSUME process_notify PROVE LeaseInv'
    <2>1. /\ worker.type = "NOTIFY" /\ worker' = NoCommand /\ UNCHANGED <<runtime, commands, call>>
          /\ lease' = IF worker.status = "DISCONNECTED" /\ lease_for(worker.generation) THEN NoLease ELSE lease
      BY <1>5 DEF process_notify
    <2>2. StatusLinked'
      BY <2>1 DEF LeaseInv, StatusLinked
    <2>3. LoadsLinked'
      BY <2>1, KindsOf DEF LeaseInv, LoadsLinked, Pending
    <2>4. LeaseKept'
      <3> SUFFICES ASSUME lease' # NoLease
                   PROVE  \/ runtime'.generation = lease'.generation /\ runtime'.load_queued
                          \/ Farewell(Pending', lease'.generation)
                          \/ Watched(lease.generation)'
        BY DEF LeaseKept
      <3>1. lease' = lease /\ ~(worker.status = "DISCONNECTED" /\ worker.generation = lease.generation)
        BY <2>1 DEF lease_for
      <3>2. Watched(lease.generation) => Watched(lease.generation)'
        BY <2>1, <3>1 DEF Watched
      <3>3. Farewell(Pending, lease.generation) => Farewell(Pending', lease.generation)
        BY <2>1, <3>1 DEF Farewell, Pending
      <3> QED
        BY <2>1, <3>1, <3>2, <3>3 DEF LeaseInv, LeaseKept
    <2> QED
      BY <2>2, <2>3, <2>4 DEF LeaseInv
  <1> QED
    BY <1>1, <1>2, <1>3, <1>4, <1>5

\* No lease is held when the runtime is created.
LEMMA LeaseInitial ==
    ASSUME MirrorInit
    PROVE  LeaseInv
  <1>1. Pending = {NoCommand} /\ lease = NoLease /\ ~runtime.load_queued /\ runtime.status = "IDLE"
    BY DEF MirrorInit, Pending, Elements
  <1> QED
    BY <1>1, KindsOf DEF LeaseInv, StatusLinked, LoadsLinked, LeaseKept

\* Every step that leaves room in the queue keeps the invariant.
LEMMA LeaseNext == MirrorInv /\ LeaseInv /\ RoomLeft' /\ [MirrorNext]_MirrorVars => LeaseInv'
  <1> SUFFICES ASSUME MirrorInv, LeaseInv, RoomLeft', [MirrorNext]_MirrorVars
               PROVE  LeaseInv'
    OBVIOUS
  <1>1. DOMAIN threads = Streams \X BridgeIds
    BY DEF MirrorInv, MirrorTypes
  <1>2. ASSUME NEW c \in Connections, NEW initial \in BOOLEAN, NEW streams \in SUBSET Streams,
               handle_setup(c, initial, streams)
        PROVE  LeaseInv'
    BY <1>2, LeaseCalls
  <1>3. ASSUME NEW c \in Connections,
               \/ handle_record(c) \/ starts(c) \/ fails(c) \/ session_closed(c)
               \/ open_begins(c) \/ open_refused(c) \/ audio_begins(c) \/ audio_refused(c)
               \/ mirror_records(c) \/ mirror_observes(c) \/ streams_stopped(c)
        PROVE  LeaseInv'
    BY <1>3, LeaseCalls, LeaseStops, LeaseRecords, LeaseObserves
  <1>4. ASSUME NEW c \in Connections, NEW streams \in SUBSET Streams, handle_teardown(c, streams)
        PROVE  LeaseInv'
    BY <1>4, LeaseTeardown
  <1>5. ASSUME NEW c \in Connections, NEW ok \in BOOLEAN,
               open_ends(c, ok) \/ audio_ends(c, ok) \/ mirror_claims(c, ok)
        PROVE  LeaseInv'
    BY <1>5, LeaseOpens, LeaseAudio, LeaseStops
  <1>6. CASE stop_active_media
    BY <1>6, LeaseStops
  <1>7. ASSUME NEW who \in Callers, cancels(who) \/ joins(who)
        PROVE  LeaseInv'
    BY <1>7, LeaseThreads
  <1>8. ASSUME NEW t \in DOMAIN threads, video_arrives(t) \/ audio_arrives(t)
        PROVE  LeaseInv'
    BY <1>8, LeaseThreads
  <1>9. ASSUME NEW t \in DOMAIN threads, NEW pushed \in BOOLEAN, NEW keyframe \in BOOLEAN,
               video_pushed(t, pushed, keyframe)
        PROVE  LeaseInv'
    BY <1>1, <1>9, LeaseVideo
  <1>10. ASSUME NEW t \in DOMAIN threads, NEW pushed \in BOOLEAN, audio_pushed(t, pushed)
         PROVE  LeaseInv'
    BY <1>1, <1>10, LeaseSound
  <1>11. CASE worker_pops
    BY <1>11, LeasePops
  <1>12. ASSUME \/ process_stop \/ process_notify
                \/ \E ok \in BOOLEAN :
                      process_load(ok) \/ process_bound(ok) \/ process_play(ok) \/ process_audio(ok)
         PROVE  LeaseInv'
    BY <1>12, LeaseWorker
  <1>13. CASE UNCHANGED MirrorVars
    <2>1. UNCHANGED <<runtime, commands, worker, lease, call>>
      BY <1>13 DEF MirrorVars
    <2>2. KeepsWatchers
      BY <2>1 DEF KeepsWatchers
    <2> QED
      BY <2>1, <2>2, TermKept, LeaseStill
  <1> QED
    BY <1>2, <1>3, <1>4, <1>5, <1>6, <1>7, <1>8, <1>9, <1>10, <1>11, <1>12, <1>13 DEF MirrorNext

\* As long as the queue has room, a session that ended leaves nothing at all:
\* no lease either.
THEOREM MirrorSettled == MirrorSpec /\ []RoomLeft => []MirrorSettles
  <1>1. MirrorInit => LeaseInv
    BY LeaseInitial
  <1>2. MirrorInv /\ LeaseInv /\ RoomLeft' /\ [MirrorNext]_MirrorVars => LeaseInv'
    BY LeaseNext
  <1>3. MirrorInv /\ LeaseInv => LeaseGivenUp
    <2> SUFFICES ASSUME MirrorInv, LeaseInv, Quiet, runtime.session = "none" PROVE lease = NoLease
      BY DEF LeaseGivenUp
    <2>1. ~runtime.load_queued
      BY DEF MirrorInv, RuntimeLinked
    <2>2. Pending = {NoCommand} /\ \A c \in Connections : call[c].at = "idle"
      BY DEF Quiet, Pending, Elements, Callers
    <2> QED
      BY <2>1, <2>2, KindsOf DEF LeaseInv, LeaseKept, Farewell, Watched
  <1>4. WaitsEnd /\ PromotionIsUnloaded /\ NothingLeft /\ LeaseGivenUp => MirrorSettles
    BY DEF MirrorSettles
  <1> QED
    BY <1>1, <1>2, <1>3, <1>4, MirrorInvariant, MirrorQuietens, PTL DEF MirrorSpec
=============================================================================
