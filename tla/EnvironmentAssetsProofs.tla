---------------------- MODULE EnvironmentAssetsProofs ----------------------
(***************************************************************************)
(* Proofs about EnvironmentAssets for any environments, records, scenes    *)
(* and submissions: renderer and coordinator agree on what is drawn, a     *)
(* lease keeps what it leases, a flagged record is never published, and    *)
(* environments are released as DeferredRelease says.                      *)
(***************************************************************************)
EXTENDS EnvironmentAssets, SequenceTheorems, TLAPS

Inv == EnvironmentInvariant

-----------------------------------------------------------------------------
(* Sequences without duplicates.                                           *)

LEMMA AppendedOnce ==
  ASSUME NEW S, NEW s \in Seq(S), NEW x \in S
  PROVE  /\ Append(s, x) \in Seq(S)
         /\ Range(Append(s, x)) = Range(s) \cup {x}
         /\ IsInjective(s) /\ x \notin Range(s) => IsInjective(Append(s, x))
<1>1. /\ Append(s, x) \in Seq(S) /\ Len(Append(s, x)) = Len(s) + 1 /\ Len(s) \in Nat
      /\ \A k \in 1 .. Len(s) : Append(s, x)[k] = s[k]
      /\ Append(s, x)[Len(s) + 1] = x
      /\ DOMAIN s = 1 .. Len(s) /\ DOMAIN Append(s, x) = 1 .. Len(s) + 1
  BY AppendProperties, LenProperties
<1>. DEFINE r == Append(s, x)
            n == Len(s)
<1>. HIDE DEF r, n
<1>2. /\ r \in Seq(S) /\ n \in Nat /\ \A k \in 1 .. n : r[k] = s[k]
      /\ r[n + 1] = x /\ DOMAIN r = 1 .. n + 1 /\ DOMAIN s = 1 .. n
  BY <1>1 DEF r, n
<1>3. Range(r) = Range(s) \cup {x}
  BY <1>2 DEF Range
<1>4. ASSUME IsInjective(s), x \notin Range(s) PROVE IsInjective(r)
  <2>. SUFFICES ASSUME NEW i \in 1 .. n + 1, NEW j \in 1 .. n + 1, r[i] = r[j] PROVE i = j
    BY <1>2 DEF IsInjective
  <2>1. \A k \in 1 .. n : s[k] # x
    BY <1>2, <1>4 DEF Range
  <2>2. \A k \in 1 .. n + 1 : k \in 1 .. n \/ k = n + 1
    BY <1>2
  <2>3. CASE i \in 1 .. n /\ j \in 1 .. n
    BY <1>2, <1>4, <2>3 DEF IsInjective
  <2>. QED BY <1>2, <2>1, <2>2, <2>3
<1>. QED BY <1>2, <1>3, <1>4 DEF r

\* What is left of a sequence without its first k elements, for k that may be one too
\* many, and the element before it.
LEMMA SuffixOf ==
  ASSUME NEW S, NEW s \in Seq(S), NEW k \in 0 .. Len(s) + 1
  PROVE  /\ SubSeq(s, k + 1, Len(s)) \in Seq(S)
         /\ DOMAIN SubSeq(s, k + 1, Len(s)) = 1 .. Len(s) - k
         /\ \A i \in 1 .. Len(s) - k : SubSeq(s, k + 1, Len(s))[i] = s[k + i]
<1>0. Len(s) \in Nat /\ DOMAIN s = 1 .. Len(s)
  BY LenProperties
<1>. DEFINE q == SubSeq(s, k + 1, Len(s))
<1>1. /\ q \in Seq(S) /\ Len(q) = IF k + 1 <= Len(s) THEN Len(s) - (k + 1) + 1 ELSE 0
      /\ \A i \in 1 .. Len(s) - (k + 1) + 1 : q[i] = s[(k + 1) + i - 1]
  <2>1. \A i \in (k + 1) .. Len(s) : s[i] \in S
    BY <1>0
  <2>2. k + 1 \in Int /\ Len(s) \in Int
    BY <1>0
  <2>. QED BY <1>0, <2>1, <2>2, SubSeqProperties
<1>. QED BY <1>0, <1>1, LenProperties

LEMMA SuffixOnce ==
  ASSUME NEW S, NEW s \in Seq(S), NEW k \in 0 .. Len(s) + 1
  PROVE  /\ SubSeq(s, k + 1, Len(s)) \in Seq(S)
         /\ Range(SubSeq(s, k + 1, Len(s))) \subseteq Range(s)
         /\ IsInjective(s) => /\ IsInjective(SubSeq(s, k + 1, Len(s)))
                              /\ k \in 1 .. Len(s) => s[k] \notin Range(SubSeq(s, k + 1, Len(s)))
<1>0. Len(s) \in Nat /\ DOMAIN s = 1 .. Len(s)
  BY LenProperties
<1>. DEFINE q == SubSeq(s, k + 1, Len(s))
            n == Len(s)
<1>1. q \in Seq(S) /\ DOMAIN q = 1 .. n - k /\ \A i \in 1 .. n - k : q[i] = s[k + i]
  BY SuffixOf
<1>. HIDE DEF q
<1>2. \A i \in 1 .. n - k : k + i \in 1 .. n /\ k + i # k
  BY <1>0
<1>. HIDE DEF n
<1>3. Range(q) \subseteq Range(s)
  BY <1>0, <1>1, <1>2 DEF Range, n
<1>4. ASSUME IsInjective(s) PROVE IsInjective(q)
  <2>. SUFFICES ASSUME NEW i \in 1 .. n - k, NEW j \in 1 .. n - k, q[i] = q[j] PROVE i = j
    BY <1>1 DEF IsInjective
  <2>1. k + i = k + j
    BY <1>0, <1>1, <1>2, <1>4 DEF IsInjective, n
  <2>. QED BY <1>0, <2>1 DEF n
<1>5. ASSUME IsInjective(s), k \in 1 .. n PROVE s[k] \notin Range(q)
  <2>. SUFFICES ASSUME NEW i \in 1 .. n - k, s[k] = q[i] PROVE FALSE
    BY <1>1 DEF Range
  <2>. QED BY <1>0, <1>1, <1>2, <1>5 DEF IsInjective, n
<1>. QED BY <1>1, <1>3, <1>4, <1>5 DEF q, n

LEMMA PrefixIn ==
  ASSUME NEW S, NEW s \in Seq(S), NEW k \in 0 .. Len(s)
  PROVE  \A x \in Range(SubSeq(s, 1, k)) : \E j \in 1 .. k : x = s[j]
<1>0. Len(s) \in Nat /\ DOMAIN s = 1 .. Len(s)
  BY LenProperties
<1>. DEFINE q == SubSeq(s, 1, k)
<1>1. /\ q \in Seq(S) /\ Len(q) = IF 1 <= k THEN k - 1 + 1 ELSE 0
      /\ \A i \in 1 .. k - 1 + 1 : q[i] = s[1 + i - 1]
  <2>1. \A i \in 1 .. k : s[i] \in S
    BY <1>0
  <2>2. 1 \in Int /\ k \in Int
    BY <1>0
  <2>. QED BY <1>0, <2>1, <2>2, SubSeqProperties
<1>. HIDE DEF q
<1>2. Len(q) = k /\ k - 1 + 1 = k /\ \A i \in 1 .. k : 1 + i - 1 = i
  BY <1>0, <1>1
<1>3. DOMAIN q = 1 .. k
  BY <1>1, <1>2, LenProperties
<1>. QED BY <1>1, <1>2, <1>3 DEF Range, q

LEMMA TailOnce ==
  ASSUME NEW S, NEW s \in Seq(S), s # <<>>
  PROVE  /\ Head(s) \in S /\ Head(s) \in Range(s) /\ Tail(s) \in Seq(S)
         /\ Range(Tail(s)) \subseteq Range(s)
         /\ IsInjective(s) => IsInjective(Tail(s)) /\ Head(s) \notin Range(Tail(s))
<1>1. Len(s) \in Nat \ {0} /\ DOMAIN s = 1 .. Len(s) /\ Head(s) = s[1]
  BY EmptySeq, LenProperties
<1>. DEFINE q == Tail(s)
            n == Len(s)
<1>2. /\ q \in Seq(S) /\ DOMAIN q = 1 .. n - 1
      /\ \A i \in 1 .. n - 1 : q[i] = s[i + 1]
  BY <1>1, HeadTailProperties, LenProperties
<1>. HIDE DEF q
<1>3. \A i \in 1 .. n - 1 : i + 1 \in 1 .. n /\ i + 1 # 1
  BY <1>1
<1>4. 1 \in 1 .. n /\ Head(s) = s[1] /\ DOMAIN s = 1 .. n /\ s[1] \in S
  BY <1>1
<1>. HIDE DEF n
<1>5. Range(q) \subseteq Range(s) /\ s[1] \in Range(s)
  BY <1>2, <1>3, <1>4 DEF Range
<1>6. ASSUME IsInjective(s) PROVE IsInjective(q)
  <2>. SUFFICES ASSUME NEW i \in 1 .. n - 1, NEW j \in 1 .. n - 1, q[i] = q[j] PROVE i = j
    BY <1>2 DEF IsInjective
  <2>1. i + 1 = j + 1
    BY <1>2, <1>3, <1>4, <1>6 DEF IsInjective
  <2>. QED BY <1>1, <2>1 DEF n
<1>7. ASSUME IsInjective(s) PROVE s[1] \notin Range(q)
  <2>. SUFFICES ASSUME NEW i \in 1 .. n - 1, s[1] = q[i] PROVE FALSE
    BY <1>2 DEF Range
  <2>. QED BY <1>2, <1>3, <1>4, <1>7 DEF IsInjective
<1>. QED BY <1>2, <1>4, <1>5, <1>6, <1>7 DEF q

-----------------------------------------------------------------------------
(* What a request does to the tables.                                      *)

\* A request joins the active record of its environment.
Joins(g) ==
  /\ g \in Held /\ g \in 1 .. generations
  /\ UNCHANGED <<cancellation, tableVars, cpuQueue>>
  /\ \/ Loading(g) /\ state' = state /\ retireAfter' = retireAfter
     \/ Loaded(g) /\ state' = [state EXCEPT ![g] = "Ready"] /\ retireAfter' = [retireAfter EXCEPT ![g] = 0]

\* A request makes a record.
Creates(g) ==
  /\ g = generations + 1 /\ g \in Generations
  /\ generations' = g
  /\ state' = [state EXCEPT ![g] = "Queued"]
  /\ retireAfter' = retireAfter
  /\ cpuQueue' = Append(cpuQueue, g)
  /\ \A h \in Held' : h \in Held \/ h = g
  /\ \A h \in Generations : cancellation'[h] /\ ~cancellation[h] => Loading(h)

\* The types that a request keeps.
TablesOK ==
  /\ state \in [Generations -> States]
  /\ cancellation \in [Generations -> BOOLEAN]
  /\ retireAfter \in [Generations -> Serials]
  /\ generations \in 0 .. MaxGenerations
  /\ active \in [Environments -> 0 .. generations]
  /\ inactive \subseteq 1 .. generations
  /\ cpuQueue \in Seq(Generations)

HeldIn(a, i) == ({a[e] : e \in Environments} \ {None}) \cup i

LEMMA SupersededIs ==
  ASSUME TypeOK, NEW e \in Environments, NEW R, R = Superseded(Tables, e)
  PROVE  /\ R.state = state /\ R.retireAfter = retireAfter /\ R.generations = generations
         /\ R.cpuQueue = cpuQueue /\ R.got = None
         /\ R.active \in [Environments -> 0 .. generations]
         /\ R.inactive \subseteq 1 .. generations
         /\ HeldIn(R.active, R.inactive) \subseteq Held
         /\ R.cancellation \in [Generations -> BOOLEAN]
         /\ \A h \in Generations : R.cancellation[h] /\ ~cancellation[h] => Loading(h)
<1>. DEFINE g == active[e]
<1>1. /\ active \in [Environments -> 0 .. generations] /\ inactive \subseteq 1 .. generations
      /\ generations \in 0 .. MaxGenerations /\ cancellation \in [Generations -> BOOLEAN]
      /\ MaxGenerations \in Nat
  BY EnvironmentBounds DEF TypeOK
<1>2. CASE g = None
  <2>1. R = Tables
    BY <1>2 DEF Superseded, Tables
  <2>. QED BY <1>1, <2>1 DEF Tables, HeldIn, Held
<1>3. CASE g # None
  <2>. DEFINE f == [cancellation EXCEPT ![g] = @ \/ (~Leased(g) /\ state[g] \in LoadingStates)]
  <2>1. R = [Tables EXCEPT !.inactive = inactive \cup {g}, !.active = [active EXCEPT ![e] = None],
                           !.cancellation = f]
    BY <1>3, Zenon DEF Superseded, Tables
  <2>2. /\ R.state = state /\ R.retireAfter = retireAfter /\ R.generations = generations
        /\ R.cpuQueue = cpuQueue /\ R.got = None
        /\ R.active = [active EXCEPT ![e] = None]
        /\ R.inactive = inactive \cup {g}
        /\ R.cancellation = f
    BY <2>1 DEF Tables
  <2>3. g \in 1 .. generations /\ g \in Generations
    BY <1>1, <1>3 DEF None, Generations
  <2>4. [active EXCEPT ![e] = None] \in [Environments -> 0 .. generations]
    BY <1>1 DEF None
  <2>5. HeldIn([active EXCEPT ![e] = None], inactive \cup {g}) \subseteq Held
    BY <1>1, <1>3 DEF HeldIn, Held
  <2>6. f \in [Generations -> BOOLEAN]
    BY <1>1, <2>3
  <2>7. \A h \in Generations : f[h] /\ ~cancellation[h] => Loading(h)
    BY <1>1, <2>3 DEF Loading
  <2>. QED BY <1>1, <2>2, <2>3, <2>4, <2>5, <2>6, <2>7
<1>. QED BY <1>2, <1>3

LEMMA InvalidatedIs ==
  ASSUME TypeOK, NEW e \in Environments, StoreTables(Superseded(Tables, e))
  PROVE  /\ UNCHANGED <<state, retireAfter, generations, cpuQueue>>
         /\ TablesOK' /\ Held' \subseteq Held
         /\ \A h \in Generations : cancellation'[h] /\ ~cancellation[h] => Loading(h)
<1>. DEFINE R == Superseded(Tables, e)
<1>1. /\ R.state = state /\ R.retireAfter = retireAfter /\ R.generations = generations
      /\ R.cpuQueue = cpuQueue
      /\ R.active \in [Environments -> 0 .. generations]
      /\ R.inactive \subseteq 1 .. generations
      /\ HeldIn(R.active, R.inactive) \subseteq Held
      /\ R.cancellation \in [Generations -> BOOLEAN]
      /\ \A h \in Generations : R.cancellation[h] /\ ~cancellation[h] => Loading(h)
  BY SupersededIs
<1>. HIDE DEF R
<1>2. /\ state' = R.state /\ cancellation' = R.cancellation /\ retireAfter' = R.retireAfter
      /\ generations' = R.generations /\ active' = R.active /\ inactive' = R.inactive
      /\ cpuQueue' = R.cpuQueue
  BY DEF StoreTables, R
<1>3. Held' = HeldIn(R.active, R.inactive)
  BY <1>2 DEF Held, HeldIn
<1>. QED BY <1>1, <1>2, <1>3 DEF TablesOK, TypeOK

LEMMA RequestedIs ==
  ASSUME TypeOK, StagesAgree, NEW e \in Environments, NEW reload \in BOOLEAN,
         NEW R, R = Requested(Tables, e, reload), StoreTables(R)
  PROVE  TablesOK' /\ R.got \in 1 .. generations' /\ (Joins(R.got) \/ Creates(R.got))
<1>. DEFINE g == active[e]
            new == generations + 1
<1>1. /\ active \in [Environments -> 0 .. generations] /\ inactive \subseteq 1 .. generations
      /\ generations \in 0 .. MaxGenerations /\ cancellation \in [Generations -> BOOLEAN]
      /\ MaxGenerations \in Nat /\ state \in [Generations -> States]
      /\ retireAfter \in [Generations -> Serials] /\ 0 \in Serials /\ cpuQueue \in Seq(Generations)
  <2>1. 0 \in Serials
    BY SubmissionBound DEF Serials
  <2>. QED BY <2>1, EnvironmentBounds DEF TypeOK
<1>2. /\ state' = R.state /\ cancellation' = R.cancellation /\ retireAfter' = R.retireAfter
      /\ generations' = R.generations /\ active' = R.active /\ inactive' = R.inactive
      /\ cpuQueue' = R.cpuQueue /\ R.generations <= MaxGenerations
  BY DEF StoreTables
<1>3. CASE ~reload /\ Usable(Tables, g)
  <2>1. g \in 1 .. generations /\ g \in Generations /\ g \in Held /\ (Loading(g) \/ Loaded(g))
        /\ state[g] \in LoadingStates \cup {"Ready", "Retiring"}
    BY <1>1, <1>3 DEF Usable, Tables, Held, Generations, Loading, Loaded, None
  <2>. DEFINE joined == [Tables EXCEPT !.got = g]
  <2>2. CASE state[g] \in LoadingStates
    <3>1. R = joined
      BY <1>3, <2>2, Zenon DEF Requested, Tables
    <3>2. R.got = g /\ UNCHANGED <<state, cancellation, retireAfter, tableVars, cpuQueue>>
      BY <1>2, <3>1 DEF Tables, tableVars
    <3>. QED BY <1>1, <2>1, <2>2, <3>2 DEF Joins, TablesOK, tableVars, Loading
  <2>3. CASE state[g] \notin LoadingStates
    <3>1. R = [joined EXCEPT !.state[g] = "Ready", !.retireAfter[g] = 0]
      BY <1>3, <2>3, Zenon DEF Requested, Tables
    <3>2. /\ R.got = g /\ UNCHANGED <<cancellation, tableVars, cpuQueue>>
          /\ state' = [state EXCEPT ![g] = "Ready"]
          /\ retireAfter' = [retireAfter EXCEPT ![g] = 0]
      BY <1>2, <3>1 DEF Tables, tableVars
    <3>3. Loaded(g) /\ "Ready" \in States
      BY <2>1, <2>3 DEF Loaded, States
    <3>. QED BY <1>1, <2>1, <2>3, <3>2, <3>3 DEF Joins, TablesOK, tableVars
  <2>. QED BY <2>2, <2>3
<1>4. CASE ~(~reload /\ Usable(Tables, g))
  <2>. DEFINE old == Superseded(Tables, e)
  <2>1. /\ old.state = state /\ old.retireAfter = retireAfter /\ old.generations = generations
        /\ old.cpuQueue = cpuQueue
        /\ old.active \in [Environments -> 0 .. generations]
        /\ old.inactive \subseteq 1 .. generations
        /\ HeldIn(old.active, old.inactive) \subseteq Held
        /\ old.cancellation \in [Generations -> BOOLEAN]
        /\ \A h \in Generations : old.cancellation[h] /\ ~cancellation[h] => Loading(h)
    BY SupersededIs
  <2>2. R = [old EXCEPT !.generations = new, !.active[e] = new, !.state[new] = "Queued",
                        !.cpuQueue = Append(@, new), !.got = new]
    BY <1>4, Zenon DEF Requested, Tables
  <2>3. \E x \in {Tables} : old = [x EXCEPT !.inactive = old.inactive, !.active = old.active,
                                            !.cancellation = old.cancellation]
    <3>1. old = Tables \/ old = [Tables EXCEPT !.inactive = @ \cup {g}, !.active[e] = None,
               !.cancellation[g] = @ \/ (~Leased(g) /\ Tables.state[g] \in LoadingStates)]
      BY Zenon DEF Superseded, Tables
    <3>. QED BY <3>1 DEF Tables
  <2>. HIDE DEF old
  <2>4. /\ R.got = new /\ R.generations = new
        /\ R.active = [old.active EXCEPT ![e] = new] /\ R.state = [old.state EXCEPT ![new] = "Queued"]
        /\ R.cpuQueue = Append(old.cpuQueue, new) /\ R.inactive = old.inactive
        /\ R.cancellation = old.cancellation /\ R.retireAfter = old.retireAfter
    BY <2>2, <2>3 DEF Tables
  <2>5. new \in Generations /\ new \in 1 .. new /\ new \in 0 .. MaxGenerations
    BY <1>1, <1>2, <2>4 DEF Generations
  <2>6. /\ [old.active EXCEPT ![e] = new] \in [Environments -> 0 .. new]
        /\ old.inactive \subseteq 1 .. new
    BY <1>1, <2>1
  <2>7. [state EXCEPT ![new] = "Queued"] \in [Generations -> States]
    BY <1>1, <2>5 DEF States, LoadingStates
  <2>8. Append(cpuQueue, new) \in Seq(Generations)
    BY <1>1, <2>5, AppendedOnce
  <2>9. Held' \subseteq Held \cup {new}
    <3>1. \A d \in Environments : active'[d] = new \/ active'[d] = old.active[d]
      BY <1>2, <2>1, <2>4
    <3>. QED BY <1>2, <2>1, <2>4, <3>1 DEF Held, HeldIn
  <2>10. TablesOK'
    BY <1>1, <1>2, <2>1, <2>4, <2>5, <2>6, <2>7, <2>8 DEF TablesOK
  <2>11. Creates(new)
    BY <1>2, <2>1, <2>4, <2>5, <2>9 DEF Creates
  <2>. QED BY <1>2, <2>4, <2>5, <2>10, <2>11
<1>. QED BY <1>3, <1>4

-----------------------------------------------------------------------------
(* What a step does to the records that somebody relies on.                *)

\* A published record stays so until it is collected.
LoadedStays == \A g \in Generations : Loaded(g) => Loaded(g)'

\* Only the builder publishes, a record that is not flagged, with its resources.
LoadedBegins ==
  \A g \in Generations : Loaded(g)' /\ ~Loaded(g) =>
    /\ main = "input" /\ main' = "scene"
    /\ g = builder.gen /\ ~cancellation[g]
    /\ kept'[g] /\ state'[g] = "Ready"

\* What is flagged is not published, but by the exit.
FlagStep ==
  \A g \in Generations : cancellation'[g] /\ ~cancellation[g] =>
    main' \in Exiting \/ ~Loaded(g)'

\* Nobody has what is destroyed.
KeptStays == \A g \in Generations : kept[g] /\ ~kept'[g] => ~Leased(g)' /\ g \notin Held'

\* A lease comes from a request, which makes a record or revives one of the tables.
LeasedStep ==
  \A g \in Generations : Leased(g)' =>
    \/ Leased(g)
    \/ ~Loaded(g)'
    \/ g \in Held /\ state'[g] = "Ready"

HeldStep == \A g \in Generations : g \in Held' => g \in Held \/ ~Loaded(g)'

\* What is leased does not retire.
RetiringStep ==
  \A g \in Generations : state'[g] = "Retiring" => state[g] = "Retiring" \/ ~Leased(g)'

Effects ==
  /\ LoadedStays /\ LoadedBegins /\ FlagStep /\ KeptStays
  /\ LeasedStep /\ HeldStep /\ RetiringStep

LEMMA EffectsSame ==
  ASSUME UNCHANGED <<state, cancellation, kept>>, Held' \subseteq Held,
         \A g \in Generations : Leased(g)' => Leased(g)
  PROVE  Effects
<1>1. \A g \in Generations : Loaded(g)' <=> Loaded(g)
  BY DEF Loaded
<1>. QED BY <1>1 DEF Effects, LoadedStays, LoadedBegins, FlagStep, KeptStays, LeasedStep,
           HeldStep, RetiringStep

\* Leases depend on the holders only.
LEMMA LeasedSame ==
  ASSUME UNCHANGED <<pending, shown, scene, world, retiredWorlds>>
  PROVE  \A g \in Generations : Leased(g)' <=> Leased(g)
BY DEF Leased

\* When nothing is leased anew and the tables stay, what happens to the states and the
\* flags is all there is.
LEMMA EffectsOfStates ==
  ASSUME UNCHANGED <<kept, active, inactive, pending, shown, scene, world, retiredWorlds>>,
         \A g \in Generations : state'[g] = state[g] \/ (~Loaded(g) /\ ~Loaded(g)'),
         \A g \in Generations : cancellation'[g] /\ ~cancellation[g] =>
            main' \in Exiting \/ ~Loaded(g)'
  PROVE  Effects
<1>1. \A g \in Generations : Leased(g)' <=> Leased(g)
  BY LeasedSame
<1>2. Held' = Held
  BY DEF Held
<1>3. \A g \in Generations : Loaded(g)' <=> Loaded(g)
  BY DEF Loaded
<1>4. \A g \in Generations : state'[g] = "Retiring" => state[g] = "Retiring"
  BY DEF Loaded
<1>. QED BY <1>1, <1>2, <1>3, <1>4 DEF Effects, LoadedStays, LoadedBegins, FlagStep,
           KeptStays, LeasedStep, HeldStep, RetiringStep

\* The places that hand a scene's or a user's environment on lease what was leased.
LEMMA LeasesPass ==
  ASSUME {pending', shown'} \cup Range(scene'.bound) \cup world' \subseteq
           {None, pending, shown} \cup Range(scene.bound) \cup world,
         \A w \in retiredWorlds' : w \in retiredWorlds \/ w.probes = world
  PROVE  \A g \in Generations : Leased(g)' => Leased(g)
BY DEF Leased, None, Generations

LEMMA NothingIn == Range(<<>>) = {} /\ \A S : <<>> \in Seq(S)
<1>1. <<>> \in Seq({}) /\ Len(<<>>) = 0
  BY EmptySeq
<1>2. DOMAIN <<>> = 1 .. 0
  BY <1>1, LenProperties
<1>. QED BY <1>2, EmptySeq DEF Range

\* The world that is given up becomes one of the retired.
LEMMA RetiredAre == \A w \in RetiredWorlds : w \in retiredWorlds \/ w.probes = world
<1>1. RetiredWorlds = retiredWorlds
      \/ RetiredWorlds = retiredWorlds \cup {[probes |-> world, after |-> submitted]}
  BY Zenon DEF RetiredWorlds
<1>2. ASSUME NEW w \in RetiredWorlds PROVE w \in retiredWorlds \/ w.probes = world
  <2>1. w \in retiredWorlds \/ w = [probes |-> world, after |-> submitted]
    BY <1>1, Zenon
  <2>2. [probes |-> world, after |-> submitted].probes = world
    OBVIOUS
  <2>. QED BY <2>1, <2>2, Zenon
<1>. QED BY <1>2

LEMMA AfterLeases ==
  ASSUME TypeOK, NEW then \in {"input", "clear", "close", "drop scene"}, After(then)
  PROVE  \A g \in Generations : Leased(g)' => Leased(g)
<1>1. CASE then = "input"
  BY <1>1, LeasedSame DEF After, holderVars
<1>2. CASE then = "clear"
  <2>1. /\ pending' = None /\ shown' = None
        /\ UNCHANGED <<scene, scenes, asking, world, retiredWorlds>>
    BY <1>2 DEF After
  <2>. QED BY <2>1, LeasesPass
<1>3. CASE then = "close"
  <2>1. /\ pending' = None /\ shown' = None
        /\ scene' = IF scene.phase = "loading" THEN [scene EXCEPT !.phase = "failed"] ELSE scene
        /\ world' = {} /\ retiredWorlds' = RetiredWorlds
    BY <1>3 DEF After
  <2>2. scene'.bound = scene.bound
    <3>1. scene \in [phase : {"none", "loading", "failed"}, bound : Seq(Generations),
                    global : 0 .. MaxGenerations, probes : SUBSET Generations]
      BY DEF TypeOK
    <3>. QED BY <2>1, <3>1
  <2>3. \A w \in retiredWorlds' : w \in retiredWorlds \/ w.probes = world
    BY <2>1, RetiredAre
  <2>. QED BY <2>1, <2>2, <2>3, LeasesPass
<1>4. CASE then = "drop scene"
  <2>1. scene' = NoScene /\ UNCHANGED <<pending, shown, scenes, asking, world, retiredWorlds>>
    BY <1>4 DEF After
  <2>2. Range(scene'.bound) = {}
    BY <2>1, NothingIn DEF NoScene
  <2>. QED BY <2>1, <2>2, LeasesPass
<1>. QED BY <1>1, <1>2, <1>3, <1>4

LEMMA CancellingLeases ==
  ASSUME TypeOK, NEW gens, NEW then \in {"input", "clear", "close", "drop scene"},
         Cancelling(gens, then)
  PROVE  \A g \in Generations : Leased(g)' => Leased(g)
<1>1. CASE After(then)
  BY <1>1, AfterLeases
<1>2. CASE UNCHANGED <<holderVars, drawVars>>
  BY <1>2, LeasedSame DEF holderVars
<1>. QED BY <1>1, <1>2 DEF Cancelling

\* A request, by the user or for a scene.
LEMMA RequestEffects ==
  ASSUME TypeOK, StagesAgree, FlaggedIsUnpublished, main \notin Exiting, kept' = kept,
         NEW g \in 1 .. generations', g \in Generations, Joins(g) \/ Creates(g),
         \A h \in Generations : Leased(h)' => Leased(h) \/ h = g
  PROVE  Effects
<1>0. state \in [Generations -> States] /\ generations \in Nat
  <2>1. state \in [Generations -> States] /\ generations \in 0 .. MaxGenerations
    BY DEF TypeOK
  <2>. QED BY <2>1, EnvironmentBounds
<1>1. CASE Joins(g)
  <2>1. \A h \in Generations : Loaded(h)' <=> Loaded(h)
    BY <1>0, <1>1 DEF Joins, Loaded
  <2>2. Held' = Held /\ g \in Held /\ UNCHANGED cancellation
    BY <1>1 DEF Joins, Held, tableVars
  <2>3. state'[g] # "Retiring" /\ (Loaded(g) => state'[g] = "Ready")
    BY <1>0, <1>1 DEF Joins, Loading, Loaded, LoadingStates
  <2>4. \A h \in Generations : state'[h] = "Retiring" => state[h] = "Retiring"
    BY <1>0, <1>1 DEF Joins
  <2>5. LeasedStep
    BY <2>1, <2>2, <2>3 DEF LeasedStep
  <2>6. LoadedStays /\ LoadedBegins /\ HeldStep /\ RetiringStep
    BY <2>1, <2>2, <2>4 DEF LoadedStays, LoadedBegins, HeldStep, RetiringStep
  <2>7. FlagStep /\ KeptStays
    BY <2>2 DEF FlagStep, KeptStays
  <2>. QED BY <2>5, <2>6, <2>7 DEF Effects
<1>2. CASE Creates(g)
  <2>1. state[g] = "Unloaded" /\ g \notin 1 .. generations
    BY <1>0, <1>2 DEF Creates, StagesAgree
  <2>2. /\ \A h \in Generations : Loaded(h)' <=> Loaded(h)
        /\ ~Loaded(g)' /\ \A h \in Generations : state'[h] = "Retiring" => state[h] = "Retiring"
    BY <1>0, <1>2, <2>1 DEF Creates, Loaded
  <2>3. LeasedStep /\ HeldStep
    BY <1>2, <2>2 DEF Creates, LeasedStep, HeldStep
  <2>4. LoadedStays /\ LoadedBegins /\ RetiringStep /\ KeptStays
    BY <2>2 DEF LoadedStays, LoadedBegins, RetiringStep, KeptStays
  <2>5. FlagStep
    <3>1. \A h \in Generations : cancellation'[h] /\ ~cancellation[h] => ~Loaded(h)
      BY <1>2 DEF Creates, Loading, Loaded, LoadingStates
    <3>. QED BY <2>2, <3>1 DEF FlagStep
  <2>. QED BY <2>3, <2>4, <2>5 DEF Effects
<1>. QED BY <1>1, <1>2

LEMMA QueueEffects ==
  ASSUME Inv, NEW e \in Environments, NEW reload \in BOOLEAN, QueueEnvironment(e, reload)
  PROVE  /\ Effects /\ TablesOK' /\ pending' \in 1 .. generations'
         /\ Joins(pending') \/ Creates(pending')
<1>0. TypeOK /\ StagesAgree /\ FlaggedIsUnpublished
  BY DEF Inv, EnvironmentInvariant
<1>1. PICK R \in {Requested(Tables, e, reload)} : StoreTables(R) /\ pending' = R.got
  BY DEF QueueEnvironment
<1>2. TablesOK' /\ pending' \in 1 .. generations' /\ (Joins(pending') \/ Creates(pending'))
  BY <1>0, <1>1, RequestedIs
<1>3. main \notin Exiting /\ kept' = kept /\ UNCHANGED <<shown, scene, world, retiredWorlds>>
  BY DEF QueueEnvironment, AtInput, Exiting
<1>4. \A h \in Generations : Leased(h)' => Leased(h) \/ h = pending'
  BY <1>3 DEF Leased
<1>5. pending' \in Generations
  BY <1>2, EnvironmentBounds DEF TablesOK, Generations
<1>. QED BY <1>0, <1>2, <1>3, <1>4, <1>5, RequestEffects

LEMMA InvalidateEffects ==
  ASSUME Inv, NEW e \in Environments, Invalidate(e)
  PROVE  Effects
<1>0. TypeOK /\ FlaggedIsUnpublished
  BY DEF Inv, EnvironmentInvariant
<1>1. /\ UNCHANGED <<state, kept>> /\ Held' \subseteq Held
      /\ \A h \in Generations : cancellation'[h] /\ ~cancellation[h] => Loading(h)
  BY <1>0, InvalidatedIs DEF Invalidate
<1>2. \A g \in Generations : Leased(g)' => Leased(g)
  BY LeasedSame DEF Invalidate, holderVars
<1>3. \A g \in Generations : Loaded(g)' <=> Loaded(g)
  BY <1>1 DEF Loaded
<1>4. FlagStep
  BY <1>1, <1>3 DEF FlagStep, Loading, Loaded, LoadingStates
<1>5. LoadedStays /\ LoadedBegins /\ KeptStays /\ LeasedStep /\ HeldStep /\ RetiringStep
  BY <1>1, <1>2, <1>3 DEF LoadedStays, LoadedBegins, KeptStays, LeasedStep, HeldStep, RetiringStep
<1>. QED BY <1>4, <1>5 DEF Effects

LEMMA UserCancelsEffects ==
  ASSUME Inv, NEW gens, NEW then \in {"input", "clear", "close", "drop scene"},
         UserCancels(gens, then)
  PROVE  Effects
<1>1. \A g \in Generations : Leased(g)' => Leased(g)
  BY CancellingLeases DEF Inv, EnvironmentInvariant, UserCancels
<1>. QED BY <1>1, EffectsSame DEF UserCancels, recordVars, tableVars, Held

LEMMA CancelEffects ==
  ASSUME Inv, Cancel
  PROVE  Effects
<1>0. TypeOK /\ CancelsAreRead /\ main = "cancel"
  BY DEF Inv, EnvironmentInvariant, Cancel
<1>. DEFINE g == Head(cancelling.calls)
<1>1. cancelling.calls \in Seq(Generations) /\ cancelling.calls # <<>> /\ ~Loaded(g)
      /\ cancelling.then \in {"input", "clear", "close", "drop scene"}
  BY <1>0 DEF TypeOK, CancelsAreRead
<1>2. g \in Generations
  BY <1>1, TailOnce
<1>3. /\ cancellation' = [cancellation EXCEPT ![g] = TRUE]
      /\ state' = IF cancelling.idle THEN [state EXCEPT ![g] = "Cancelled"] ELSE state
      /\ Cancelling(Tail(cancelling.calls), cancelling.then)
      /\ UNCHANGED <<kept, active, inactive>>
  BY DEF Cancel, tableVars
<1>4. \A h \in Generations : Leased(h)' => Leased(h)
  BY <1>0, <1>1, <1>3, CancellingLeases
<1>. HIDE DEF g
<1>5. /\ \A h \in Generations : Loaded(h)' <=> Loaded(h)
      /\ \A h \in Generations : state'[h] = "Retiring" => state[h] = "Retiring"
  BY <1>0, <1>1, <1>2, <1>3 DEF TypeOK, Loaded
<1>6. Held' = Held
  BY <1>3 DEF Held
<1>7. FlagStep
  BY <1>0, <1>1, <1>2, <1>3, <1>5 DEF FlagStep, TypeOK
<1>8. LoadedStays /\ LoadedBegins /\ KeptStays /\ LeasedStep /\ HeldStep /\ RetiringStep
  BY <1>3, <1>4, <1>5, <1>6 DEF LoadedStays, LoadedBegins, KeptStays, LeasedStep, HeldStep,
     RetiringStep
<1>. QED BY <1>7, <1>8 DEF Effects

LEMMA AskEffects ==
  ASSUME Inv, NEW e \in Environments, RequestEnvironment(e)
  PROVE  \E g \in 1 .. generations' :
            /\ Effects /\ TablesOK' /\ g \in Generations
            /\ Joins(g) \/ Creates(g)
            /\ scene' = [scene EXCEPT !.bound = Append(@, g),
                                !.global = IF e = asking.global THEN g ELSE @,
                                !.probes = IF e \in asking.probes THEN @ \cup {g} ELSE @]
            /\ Range(scene'.bound) = Range(scene.bound) \cup {g}
<1>0. TypeOK /\ StagesAgree /\ FlaggedIsUnpublished
  BY DEF Inv, EnvironmentInvariant
<1>1. PICK R \in {Requested(Tables, e, FALSE)} :
        /\ StoreTables(R)
        /\ scene' = [scene EXCEPT !.bound = Append(@, R.got),
                                !.global = IF e = asking.global THEN R.got ELSE @,
                                !.probes = IF e \in asking.probes THEN @ \cup {R.got} ELSE @]
  BY DEF RequestEnvironment
<1>. DEFINE g == R.got
<1>2. TablesOK' /\ g \in 1 .. generations' /\ (Joins(g) \/ Creates(g))
  BY <1>0, <1>1, RequestedIs
<1>. HIDE DEF g
<1>3. main \notin Exiting /\ kept' = kept /\ UNCHANGED <<pending, shown, world, retiredWorlds>>
  BY DEF RequestEnvironment, askFrame, Exiting
<1>4. g \in Generations
  <2>1. generations' \in 0 .. MaxGenerations
    BY <1>2 DEF TablesOK
  <2>. QED BY <1>2, <2>1, EnvironmentBounds DEF Generations
<1>5. scene \in [phase : {"none", "loading", "failed"}, bound : Seq(Generations),
               global : 0 .. MaxGenerations, probes : SUBSET Generations]
  BY <1>0 DEF TypeOK
<1>6. scene' = [scene EXCEPT !.bound = Append(@, g),
                              !.global = IF e = asking.global THEN g ELSE @,
                              !.probes = IF e \in asking.probes THEN @ \cup {g} ELSE @]
  BY <1>1 DEF g
<1>7. scene'.bound = Append(scene.bound, g) /\ scene.bound \in Seq(Generations)
  BY <1>5, <1>6
<1>8. Range(scene'.bound) = Range(scene.bound) \cup {g}
  BY <1>4, <1>7, AppendedOnce
<1>9. \A h \in Generations : Leased(h)' => Leased(h) \/ h = g
  BY <1>3, <1>8 DEF Leased
<1>10. Effects
  BY <1>0, <1>2, <1>3, <1>4, <1>9, RequestEffects
<1>. QED BY <1>2, <1>4, <1>6, <1>8, <1>10

-----------------------------------------------------------------------------
(* The repository's pump.                                                  *)

LEMMA BuiltIs ==
  ASSUME builder \in Builders, NEW b \in Built
  PROVE  /\ b \in Builders /\ b.gen = builder.gen
         /\ b.phase = "Ready" => ~cancellation[builder.gen]
<1>0. ImageCount \in Nat /\ builder.images \in 0 .. ImageCount /\ ImageCount \in 0 .. ImageCount
  BY EnvironmentBounds DEF Builders
<1>. DEFINE Batches == {"none", "recorded", "running"}
<1>1. CASE Draining
  <2>1. PICK x \in Polled(builder.batch) :
          b = [builder EXCEPT !.batch = x, !.phase = IF x # "none" THEN "Cancelling"
                 ELSE IF builder.failing THEN "Failed" ELSE "Cancelled"]
    BY <1>1 DEF Built
  <2>2. x \in Batches
    BY DEF Polled
  <2>. QED BY <2>1, <2>2 DEF Builders, BuilderPhases
<1>2. CASE ~Draining /\ builder.phase = "WaitingForGpu"
  <2>1. PICK x \in Polled(builder.batch) :
          b = [builder EXCEPT !.batch = x, !.phase = IF x = "none" THEN "Ready" ELSE "WaitingForGpu"]
    BY <1>2 DEF Built
  <2>2. x \in Batches
    BY DEF Polled
  <2>. QED BY <1>2, <2>1, <2>2 DEF Builders, BuilderPhases, Draining
<1>3. CASE ~Draining /\ builder.phase # "WaitingForGpu"
  <2>1. Built = SomeRecorded \cup AllRecorded \cup RecordingFails
    BY <1>3 DEF Built
  <2>2. ~cancellation[builder.gen]
    BY <1>3 DEF Draining
  <2>3. CASE b \in SomeRecorded
    <3>. DEFINE least == IF builder.batch = "running" THEN builder.images ELSE builder.images + 1
    <3>1. \A n \in least .. ImageCount - 1 : n \in 0 .. ImageCount
      BY <1>0
    <3>. HIDE DEF least
    <3>2. PICK p \in (least .. ImageCount - 1) \X {"recorded", "running"} :
             b = [builder EXCEPT !.images = p[1], !.batch = p[2]]
      BY <2>3 DEF SomeRecorded, least
    <3>3. p[1] \in least .. ImageCount - 1 /\ p[2] \in {"recorded", "running"}
      OBVIOUS
    <3>4. p[1] \in 0 .. ImageCount
      BY <3>1, <3>3
    <3>. QED BY <2>2, <3>2, <3>3, <3>4 DEF Builders
  <2>4. CASE b \in AllRecorded
    <3>1. PICK x \in {"running", "none"} :
             b = [builder EXCEPT !.images = ImageCount, !.batch = x,
                                 !.phase = IF x = "none" THEN "Ready" ELSE "WaitingForGpu"]
      BY <2>4 DEF AllRecorded
    <3>. QED BY <1>0, <2>2, <3>1 DEF Builders, BuilderPhases
  <2>5. CASE b \in RecordingFails
    <3>1. PICK x \in {builder.batch, "recorded"} :
             b = [builder EXCEPT !.phase = "Cancelling", !.failing = TRUE, !.batch = x]
      BY <2>5 DEF RecordingFails
    <3>. QED BY <2>2, <3>1 DEF Builders, BuilderPhases
  <2>. QED BY <2>1, <2>3, <2>4, <2>5
<1>. QED BY <1>1, <1>2, <1>3

LEMMA BuiltStates ==
  ASSUME NEW b \in Builders
  PROVE  BuiltState(b) \in States \ {"Retiring"} /\ (BuiltState(b) = "Ready" <=> b.phase = "Ready")
BY DEF BuiltState, Builders, BuilderPhases, States, LoadingStates

\* What the pump leaves.
LEMMA PumpIs ==
  ASSUME TypeOK, PlacesDistinct, StagesAgree, PumpRepository
  PROVE  /\ state' \in [Generations -> States] /\ cancellation' \in [Generations -> BOOLEAN]
         /\ kept' \in [Generations -> BOOLEAN] /\ gpuQueue' \in Seq(Generations)
         /\ builder' \in Builders
         /\ \A g \in Generations :
              \/ state'[g] = state[g]
              \/ ~Loaded(g)' /\ Unpublished(g)
              \/ /\ g = builder.gen /\ builder'.gen # g
                 /\ state'[g] = "Ready" /\ kept'[g] /\ ~cancellation[g]
         /\ \A g \in Generations : cancellation'[g] /\ ~cancellation[g] => g \in Range(gpuQueue) /\ ~Loaded(g)'
         /\ \A g \in Generations : (kept[g] => kept'[g]) /\ (kept'[g] => kept[g] \/ g = builder.gen)
         /\ Range(gpuQueue') \subseteq Range(gpuQueue) /\ IsInjective(gpuQueue')
         /\ \/ builder'.gen \in Range(gpuQueue) \ Range(gpuQueue')
            \/ builder'.gen = builder.gen
            \/ builder'.gen = None
         /\ builder'.gen = None => builder' = NoBuilder
<1>0. /\ state \in [Generations -> States] /\ cancellation \in [Generations -> BOOLEAN]
      /\ kept \in [Generations -> BOOLEAN] /\ gpuQueue \in Seq(Generations)
      /\ builder \in Builders /\ IsInjective(gpuQueue) /\ (builder.gen = None => builder = NoBuilder)
  BY DEF TypeOK, PlacesDistinct, StagesAgree
<1>1. CASE KeepBuilding
  <2>1. /\ builder # NoBuilder /\ UNCHANGED <<cancellation, kept, gpuQueue>>
        /\ \E b \in Built : /\ b.phase # "Ready" /\ builder' = b
                            /\ state' = [state EXCEPT ![b.gen] = BuiltState(b)]
    BY <1>1 DEF KeepBuilding
  <2>2. PICK b \in Built : /\ b.phase # "Ready" /\ builder' = b
                           /\ state' = [state EXCEPT ![b.gen] = BuiltState(b)]
    BY <2>1
  <2>3. b \in Builders /\ b.gen = builder.gen
    BY <1>0, BuiltIs
  <2>4. BuiltState(b) \in States \ {"Retiring", "Ready"}
    BY <2>2, <2>3, BuiltStates
  <2>5. builder.gen # None
    BY <1>0, <2>1
  <2>6. state' \in [Generations -> States]
    BY <1>0, <2>2, <2>4
  <2>7. \A g \in Generations : state'[g] = state[g] \/ (~Loaded(g)' /\ g = builder.gen)
    BY <1>0, <2>2, <2>3, <2>4 DEF Loaded
  <2>. QED BY <1>0, <2>1, <2>2, <2>3, <2>5, <2>6, <2>7 DEF Unpublished
<1>2. CASE StartNext
  <2>1. PICK i \in 0 .. Len(gpuQueue) :
     LET dropped == {g \in Range(SubSeq(gpuQueue, 1, i)) : state[g] = "ReadyForUpload"}
         next == IF i < Len(gpuQueue) THEN gpuQueue[i + 1] ELSE None
     IN /\ gpuQueue' = SubSeq(gpuQueue, i + 2, Len(gpuQueue))
        /\ builder' = [NoBuilder EXCEPT !.gen = next]
        /\ cancellation' = [g \in Generations |-> cancellation[g] \/ g \in dropped]
        /\ \E b \in IF builder = NoBuilder THEN {NoBuilder}
                   ELSE {x \in Built : x.phase \in {"Ready", "Cancelled", "Failed"}} :
            /\ state' = [g \in Generations |->
                           CASE g = b.gen -> BuiltState(b)
                             [] g \in dropped -> "Cancelled"
                             [] g = next -> "Uploading"
                             [] OTHER -> state[g]]
            /\ kept' = [g \in Generations |->
                          kept[g] \/ (g = b.gen /\ b.phase = "Ready")]
    BY <1>2 DEF StartNext
  <2>. DEFINE dropped == {g \in Range(SubSeq(gpuQueue, 1, i)) : state[g] = "ReadyForUpload"}
              next == IF i < Len(gpuQueue) THEN gpuQueue[i + 1] ELSE None
  <2>2. Len(gpuQueue) \in Nat /\ DOMAIN gpuQueue = 1 .. Len(gpuQueue)
    BY <1>0, LenProperties
  <2>3. dropped \subseteq Range(gpuQueue)
    <3>1. \A x \in dropped : \E j \in 1 .. i : x = gpuQueue[j]
      BY <1>0, PrefixIn
    <3>. QED BY <2>2, <3>1 DEF Range
  <2>4. /\ SubSeq(gpuQueue, i + 2, Len(gpuQueue)) \in Seq(Generations)
        /\ Range(SubSeq(gpuQueue, i + 2, Len(gpuQueue))) \subseteq Range(gpuQueue)
        /\ IsInjective(SubSeq(gpuQueue, i + 2, Len(gpuQueue)))
        /\ i + 1 \in 1 .. Len(gpuQueue) =>
              gpuQueue[i + 1] \notin Range(SubSeq(gpuQueue, i + 2, Len(gpuQueue)))
    <3>1. i + 1 \in 0 .. Len(gpuQueue) + 1 /\ (i + 1) + 1 = i + 2
      BY <2>2
    <3>. QED BY <1>0, <3>1, SuffixOnce
  <2>5. next = None \/ next \in Range(gpuQueue) \ Range(SubSeq(gpuQueue, i + 2, Len(gpuQueue)))
    BY <2>2, <2>4 DEF Range
  <2>6. next \in 0 .. MaxGenerations /\ Range(gpuQueue) \subseteq Generations
    <3>1. Range(gpuQueue) \subseteq Generations
      BY <1>0, <2>2 DEF Range
    <3>. HIDE DEF next
    <3>. QED BY <2>5, <3>1, EnvironmentBounds DEF Generations, None
  <2>7. PICK b \in IF builder = NoBuilder THEN {NoBuilder}
                   ELSE {x \in Built : x.phase \in {"Ready", "Cancelled", "Failed"}} :
            /\ state' = [g \in Generations |->
                           CASE g = b.gen -> BuiltState(b)
                             [] g \in dropped -> "Cancelled"
                             [] g = next -> "Uploading"
                             [] OTHER -> state[g]]
            /\ kept' = [g \in Generations |-> kept[g] \/ (g = b.gen /\ b.phase = "Ready")]
    BY <2>1
  <2>8. b \in Builders /\ b.gen = builder.gen /\ (b.phase = "Ready" => ~cancellation[builder.gen])
    <3>1. CASE builder = NoBuilder
      <4>1. b = NoBuilder
        BY <2>7, <3>1
      <4>. QED BY <1>0, <3>1, <4>1 DEF NoBuilder
    <3>2. CASE builder # NoBuilder
      BY <1>0, <2>7, <3>2, BuiltIs
    <3>. QED BY <3>1, <3>2
  <2>9. /\ gpuQueue' = SubSeq(gpuQueue, i + 2, Len(gpuQueue))
        /\ builder' = [NoBuilder EXCEPT !.gen = next]
        /\ cancellation' = [g \in Generations |-> cancellation[g] \/ g \in dropped]
    BY <2>1
  <2>. HIDE DEF dropped, next
  <2>10. BuiltState(b) \in States \ {"Retiring"} /\ (BuiltState(b) = "Ready" <=> b.phase = "Ready")
    BY <2>8, BuiltStates
  <2>11. \A g \in Generations : /\ g = builder.gen => g \notin dropped /\ g # next
                                /\ g = next => g \notin dropped
    <3>1. \A g \in Generations : g = builder.gen => g \notin Range(gpuQueue)
      BY DEF PlacesDistinct
    <3>2. \A g \in Generations : g = builder.gen => g \notin dropped /\ g # next
      BY <2>3, <2>5, <3>1 DEF Generations, None
    <3>3. next # None => next \notin dropped
      <4>. SUFFICES ASSUME i < Len(gpuQueue), gpuQueue[i + 1] \in Range(SubSeq(gpuQueue, 1, i)) PROVE FALSE
        BY DEF dropped, next
      <4>2. PICK j \in 1 .. i : gpuQueue[i + 1] = gpuQueue[j]
        BY <1>0, PrefixIn
      <4>. QED BY <1>0, <2>2, <4>2 DEF IsInjective
    <3>. QED BY <3>2, <3>3 DEF Generations, None
  <2>12. ASSUME NEW g \in Generations
         PROVE  /\ g = builder.gen => state'[g] = BuiltState(b)
                /\ g # builder.gen /\ g \in dropped => state'[g] = "Cancelled"
                /\ g # builder.gen /\ g \notin dropped /\ g = next => state'[g] = "Uploading"
                /\ g # builder.gen /\ g \notin dropped /\ g # next => state'[g] = state[g]
    BY <2>7, <2>8, <2>11
  <2>13. state' \in [Generations -> States]
    <3>1. {"Cancelled", "Uploading"} \subseteq States
      BY DEF States, LoadingStates
    <3>2. \A g \in Generations : state'[g] \in States
      BY <1>0, <2>10, <2>12, <3>1
    <3>. QED BY <2>7, <3>2
  <2>14. cancellation' \in [Generations -> BOOLEAN] /\ kept' \in [Generations -> BOOLEAN]
    BY <2>7, <2>9
  <2>15. builder' \in Builders /\ builder'.gen = next /\ (next = None => builder' = NoBuilder)
    <3>1. 0 \in 0 .. ImageCount
      BY EnvironmentBounds
    <3>2. [NoBuilder EXCEPT !.gen = next] \in Builders /\ [NoBuilder EXCEPT !.gen = next].gen = next
      BY <2>6, <3>1 DEF NoBuilder, Builders, BuilderPhases
    <3>3. [NoBuilder EXCEPT !.gen = None] = NoBuilder
      <4>1. NoBuilder \in Builders /\ NoBuilder.gen = None
        BY <3>1, EnvironmentBounds DEF NoBuilder, Builders, BuilderPhases, None
      <4>2. \A r \in Builders : [r EXCEPT !.gen = r.gen] = r
        BY DEF Builders
      <4>. QED BY <4>1, <4>2
    <3>. QED BY <2>9, <3>2, <3>3
  <2>16. ASSUME NEW g \in Generations
         PROVE  \/ state'[g] = state[g]
                \/ ~Loaded(g)' /\ Unpublished(g)
                \/ /\ g = builder.gen /\ builder'.gen # g
                   /\ state'[g] = "Ready" /\ kept'[g] /\ ~cancellation[g]
    <3>1. CASE g = builder.gen /\ b.phase = "Ready"
      BY <2>7, <2>8, <2>10, <2>11, <2>12, <2>15, <3>1
    <3>2. CASE g = builder.gen /\ b.phase # "Ready"
      BY <2>10, <2>12, <3>2 DEF Loaded, Unpublished
    <3>3. CASE g # builder.gen /\ g \in dropped
      BY <2>3, <2>12, <3>3 DEF Loaded, Unpublished
    <3>4. CASE g # builder.gen /\ g \notin dropped /\ g = next
      BY <2>5, <2>12, <3>4 DEF Loaded, Unpublished, Generations, None
    <3>. QED BY <2>12, <3>1, <3>2, <3>3, <3>4
  <2>17. \A g \in Generations : cancellation'[g] /\ ~cancellation[g] => g \in Range(gpuQueue) /\ ~Loaded(g)'
    BY <2>3, <2>9, <2>11, <2>12 DEF Loaded
  <2>18. \A g \in Generations : (kept[g] => kept'[g]) /\ (kept'[g] => kept[g] \/ g = builder.gen)
    BY <2>7, <2>8
  <2>. QED BY <2>4, <2>5, <2>9, <2>13, <2>14, <2>15, <2>16, <2>17, <2>18
<1>. QED BY <1>1, <1>2 DEF PumpRepository

LEMMA PumpEffects ==
  ASSUME Inv, PumpEnvironments
  PROVE  Effects
<1>0. TypeOK /\ PlacesDistinct /\ StagesAgree
  BY DEF Inv, EnvironmentInvariant
<1>1. /\ main = "input" /\ main' = "scene" /\ PumpRepository /\ UpdateEnvironmentLoading
      /\ UNCHANGED <<tableVars, scene, world, retiredWorlds>>
  BY DEF PumpEnvironments, AtInput
<1>2. /\ \A g \in Generations :
           \/ state'[g] = state[g]
           \/ ~Loaded(g)' /\ Unpublished(g)
           \/ /\ g = builder.gen /\ builder'.gen # g
              /\ state'[g] = "Ready" /\ kept'[g] /\ ~cancellation[g]
      /\ \A g \in Generations : cancellation'[g] /\ ~cancellation[g] => g \in Range(gpuQueue) /\ ~Loaded(g)'
      /\ \A g \in Generations : kept[g] => kept'[g]
  BY <1>0, <1>1, PumpIs
<1>3. \A g \in Generations : Unpublished(g) => ~Loaded(g)
  BY <1>0 DEF StagesAgree
<1>4. {pending', shown'} \subseteq {None, pending, shown}
  BY <1>1 DEF UpdateEnvironmentLoading
<1>5. \A g \in Generations : Leased(g)' => Leased(g)
  BY <1>1, <1>4, LeasesPass
<1>6. Held' = Held
  BY <1>1 DEF Held, tableVars
<1>7. LoadedStays /\ RetiringStep
  BY <1>2, <1>3 DEF LoadedStays, RetiringStep, Loaded
<1>8. LoadedBegins
  BY <1>1, <1>2 DEF LoadedBegins, Loaded
<1>9. FlagStep /\ KeptStays /\ LeasedStep /\ HeldStep
  BY <1>2, <1>5, <1>6 DEF FlagStep, KeptStays, LeasedStep, HeldStep
<1>. QED BY <1>7, <1>8, <1>9 DEF Effects

-----------------------------------------------------------------------------
(* The collection of a frame.                                              *)

LEMMA ReleaseIs ==
  ASSUME TypeOK, CollectRetired
  PROVE  /\ state' \in [Generations -> States] /\ cancellation' \in [Generations -> BOOLEAN]
         /\ kept' \in [Generations -> BOOLEAN] /\ retireAfter' \in [Generations -> Serials]
         /\ active' \in [Environments -> 0 .. generations] /\ inactive' \subseteq inactive
         /\ \A g \in Generations : Loaded(g)' <=> Loaded(g)
         /\ \A g \in Generations : state'[g] # state[g] => Loaded(g)
         /\ \A g \in Generations : state'[g] = "Retiring" => state[g] = "Retiring" \/ ~Leased(g)'
         /\ \A g \in Generations : cancellation'[g] /\ ~cancellation[g] => Loading(g)
         /\ \A g \in Generations : kept'[g] => kept[g]
         /\ \A g \in Generations : kept[g] /\ ~kept'[g] => ~Leased(g)' /\ g \notin Held'
         /\ Held' \subseteq Held
         /\ \A g \in Generations : Leased(g)' => Leased(g)
<1>. DEFINE unused == {g \in Held : ~Leased(g)'}
            retirees == {g \in unused : state[g] \in {"Ready", "Retiring"}}
            serial(g) == IF state[g] = "Ready" THEN submitted ELSE retireAfter[g]
            expired == {g \in retirees : serial(g) <= completed}
            collected == Collected(expired, unused)
<1>0. /\ state \in [Generations -> States] /\ cancellation \in [Generations -> BOOLEAN]
      /\ kept \in [Generations -> BOOLEAN] /\ retireAfter \in [Generations -> Serials]
      /\ active \in [Environments -> 0 .. generations] /\ submitted \in Serials
  BY DEF TypeOK, ClockTypeOK
<1>1. /\ cancellation' = [g \in Generations |-> cancellation[g] \/ (g \in unused /\ Loading(g))]
      /\ state' = [g \in Generations |->
                     CASE g \in retirees -> "Retiring"
                       [] g \in Held \ unused /\ state[g] = "Retiring" -> "Ready"
                       [] OTHER -> state[g]]
      /\ retireAfter' = [g \in Generations |-> IF g \in retirees THEN serial(g) ELSE retireAfter[g]]
      /\ kept' = [g \in Generations |-> kept[g] /\ g \notin expired]
      /\ active' = [e \in Environments |-> IF active[e] \in collected THEN None ELSE active[e]]
      /\ inactive' = inactive \ collected
  BY DEF CollectRetired, ReleaseUnused
<1>2. \A g \in Generations : serial(g) \in Serials
  BY <1>0
<1>3. /\ \A g \in retirees : state[g] \in {"Ready", "Retiring"} /\ ~Leased(g)'
      /\ \A g \in expired : ~Leased(g)' /\ g \in collected
      /\ \A g \in retirees : g \notin Held \ unused
  BY DEF Collected
<1>. HIDE DEF unused, retirees, serial, expired, collected
<1>4. ASSUME NEW g \in Generations
      PROVE  /\ g \in retirees => state'[g] = "Retiring"
             /\ g \notin retirees /\ g \in Held \ unused /\ state[g] = "Retiring" => state'[g] = "Ready"
             /\ g \notin retirees /\ ~(g \in Held \ unused /\ state[g] = "Retiring") => state'[g] = state[g]
  BY <1>1, <1>3
<1>5. {"Ready", "Retiring"} \subseteq States
  BY DEF States
<1>6. \A g \in Generations : state'[g] \in States
  BY <1>0, <1>4, <1>5
<1>7. /\ state' \in [Generations -> States] /\ cancellation' \in [Generations -> BOOLEAN]
      /\ kept' \in [Generations -> BOOLEAN] /\ retireAfter' \in [Generations -> Serials]
      /\ inactive' \subseteq inactive
  <2>1. state' = [g \in Generations |-> state'[g]]
    BY <1>1
  <2>2. state' \in [Generations -> States]
    BY <1>6, <2>1
  <2>3. cancellation' \in [Generations -> BOOLEAN] /\ kept' \in [Generations -> BOOLEAN]
    BY <1>1
  <2>4. retireAfter' \in [Generations -> Serials]
    BY <1>0, <1>1, <1>2
  <2>. QED BY <1>1, <2>2, <2>3, <2>4
<1>8. active' \in [Environments -> 0 .. generations]
  <2>1. 0 \in 0 .. generations
    <3>1. generations \in 0 .. MaxGenerations
      BY DEF TypeOK
    <3>. QED BY <3>1, EnvironmentBounds
  <2>. QED BY <1>0, <1>1, <2>1 DEF None
<1>9. \A g \in Generations : Loaded(g)' <=> Loaded(g)
  BY <1>3, <1>4 DEF Loaded
<1>10. \A g \in Generations : state'[g] # state[g] => Loaded(g)
  BY <1>3, <1>4 DEF Loaded
<1>11. \A g \in Generations : state'[g] = "Retiring" => state[g] = "Retiring" \/ ~Leased(g)'
  BY <1>3, <1>4
<1>12. \A g \in Generations : cancellation'[g] /\ ~cancellation[g] => Loading(g)
  BY <1>1
<1>13. Held' \subseteq Held \ collected
  <2>1. \A e \in Environments : active'[e] = None \/ (active'[e] = active[e] /\ active[e] \notin collected)
    BY <1>1
  <2>. QED BY <1>1, <2>1 DEF Held
<1>14. \A g \in Generations : kept[g] /\ ~kept'[g] => ~Leased(g)' /\ g \notin Held'
  BY <1>1, <1>3, <1>13
<1>15. \A g \in Generations : kept'[g] => kept[g]
  BY <1>1
<1>16. \A g \in Generations : Leased(g)' => Leased(g)
  <2>1. UNCHANGED <<pending, shown, scene, world>> /\ retiredWorlds' \subseteq retiredWorlds
    BY DEF CollectRetired, Uncompleted
  <2>. QED BY <2>1 DEF Leased
<1>. QED BY <1>7, <1>8, <1>9, <1>10, <1>11, <1>12, <1>13, <1>14, <1>15, <1>16

LEMMA PrepareEffects ==
  ASSUME Inv, PrepareFrame
  PROVE  Effects
<1>0. TypeOK /\ CollectRetired
  BY DEF Inv, EnvironmentInvariant, PrepareFrame
<1>1. /\ \A g \in Generations : Loaded(g)' <=> Loaded(g)
      /\ \A g \in Generations : state'[g] = "Retiring" => state[g] = "Retiring" \/ ~Leased(g)'
      /\ \A g \in Generations : cancellation'[g] /\ ~cancellation[g] => Loading(g)
      /\ \A g \in Generations : kept[g] /\ ~kept'[g] => ~Leased(g)' /\ g \notin Held'
      /\ Held' \subseteq Held
      /\ \A g \in Generations : Leased(g)' => Leased(g)
  BY <1>0, ReleaseIs
<1>2. FlagStep
  BY <1>1 DEF FlagStep, Loading, Loaded, LoadingStates
<1>. QED BY <1>1, <1>2 DEF Effects, LoadedStays, LoadedBegins, KeptStays, LeasedStep, HeldStep,
           RetiringStep

-----------------------------------------------------------------------------
(* The worker, the scene, the exit and the rest.                           *)

LEMMA WorkerEffects ==
  ASSUME Inv, Worker
  PROVE  Effects
<1>0. TypeOK /\ StagesAgree
  BY DEF Inv, EnvironmentInvariant
<1>1. UNCHANGED <<cancellation, kept, active, inactive, pending, shown, scene, world, retiredWorlds>>
  BY DEF Worker, WorkerTakes, WorkerSkips, WorkerStarts, WorkerLoads, WorkerIsReady, WorkerExits,
         workerFrame, tableVars, holderVars
<1>2. \/ state' = state
      \/ \E s \in {"Cancelled", "PreparingCpu", "Failed", "ReadyForUpload"} :
            state' = [state EXCEPT ![worker.gen] = s]
  BY DEF Worker, WorkerTakes, WorkerSkips, WorkerStarts, WorkerLoads, WorkerIsReady, WorkerExits, Store
<1>3. state \in [Generations -> States]
  BY <1>0 DEF TypeOK
<1>4. \A g \in Generations : g = worker.gen => ~Loaded(g)
  BY <1>0 DEF StagesAgree, Unpublished
<1>5. \A g \in Generations : state'[g] = state[g] \/ (~Loaded(g) /\ ~Loaded(g)')
  <2>1. CASE state' = state
    BY <2>1
  <2>2. CASE \E s \in {"Cancelled", "PreparingCpu", "Failed", "ReadyForUpload"} :
               state' = [state EXCEPT ![worker.gen] = s]
    <3>1. PICK s \in {"Cancelled", "PreparingCpu", "Failed", "ReadyForUpload"} :
             state' = [state EXCEPT ![worker.gen] = s]
      BY <2>2
    <3>2. ASSUME NEW g \in Generations, g = worker.gen PROVE ~Loaded(g) /\ ~Loaded(g)'
      BY <1>3, <1>4, <3>1, <3>2 DEF Loaded
    <3>3. ASSUME NEW g \in Generations, g # worker.gen PROVE state'[g] = state[g]
      BY <1>3, <3>1, <3>3
    <3>. QED BY <3>2, <3>3
  <2>. QED BY <1>2, <2>1, <2>2
<1>. QED BY <1>1, <1>5, EffectsOfStates

LEMMA SceneEffects ==
  ASSUME Inv, UpdateScene
  PROVE  Effects
<1>0. TypeOK /\ SceneIsBound
  BY DEF Inv, EnvironmentInvariant
<1>1. UNCHANGED <<state, cancellation, kept, active, inactive>>
  BY DEF UpdateScene, ResolveScene, SceneWaits, SceneFails, FinalizeScene, PublishNativeScene,
         requestVars, tableVars
<1>2. Held' = Held
  BY <1>1 DEF Held
<1>3. scene \in [phase : {"none", "loading", "failed"}, bound : Seq(Generations),
               global : 0 .. MaxGenerations, probes : SUBSET Generations]
  BY <1>0 DEF TypeOK
<1>4. CASE ResolveScene
  <2>1. scene' = [NoScene EXCEPT !.phase = "loading"] /\ UNCHANGED <<pending, shown, world, retiredWorlds>>
    BY <1>4 DEF ResolveScene
  <2>2. scene'.bound = <<>>
    BY <2>1 DEF NoScene
  <2>. QED BY <1>1, <1>2, <2>1, <2>2, NothingIn, LeasesPass, EffectsSame
<1>5. CASE SceneWaits
  BY <1>1, <1>2, <1>5, LeasedSame, EffectsSame DEF SceneWaits, holderVars
<1>6. CASE SceneFails
  <2>1. scene' = [scene EXCEPT !.phase = "failed"] /\ UNCHANGED <<pending, shown, world, retiredWorlds>>
    BY <1>6 DEF SceneFails
  <2>2. scene'.bound = scene.bound
    BY <1>3, <2>1
  <2>. QED BY <1>1, <1>2, <2>1, <2>2, LeasesPass, EffectsSame
<1>7. CASE FinalizeScene
  <2>1. \A g \in Generations : Leased(g)' => Leased(g)
    BY <1>0, <1>7, CancellingLeases DEF FinalizeScene
  <2>. QED BY <1>1, <1>2, <2>1, EffectsSame
<1>8. CASE PublishNativeScene
  <2>1. /\ shown' = scene.global /\ retiredWorlds' = RetiredWorlds /\ world' = scene.probes
        /\ scene' = NoScene /\ pending' = pending
    BY <1>8 DEF PublishNativeScene
  <2>2. scene'.bound = <<>>
    BY <2>1 DEF NoScene
  <2>3. \A w \in retiredWorlds' : w \in retiredWorlds \/ w.probes = world
    BY <2>1, RetiredAre
  <2>4. {pending', shown'} \cup Range(scene'.bound) \cup world' \subseteq
           {None, pending, shown} \cup Range(scene.bound) \cup world
    BY <1>0, <2>1, <2>2, NothingIn DEF SceneIsBound
  <2>5. \A g \in Generations : Leased(g)' => Leased(g)
    BY <2>3, <2>4, LeasesPass
  <2>. QED BY <1>1, <1>2, <2>5, EffectsSame
<1>. QED BY <1>4, <1>5, <1>6, <1>7, <1>8 DEF UpdateScene

\* The steps that only end something of a scene.
LEMMA DropEffects ==
  ASSUME Inv, SupersedeScene \/ CancelSceneLoad \/ ResolveFails
  PROVE  Effects
<1>1. UNCHANGED <<state, cancellation, kept, active, inactive, pending, shown, world, retiredWorlds>>
  BY DEF SupersedeScene, CancelSceneLoad, ResolveFails, recordVars, tableVars, requestVars, askFrame
<1>2. Held' = Held
  BY <1>1 DEF Held
<1>3. scene'.bound = scene.bound \/ scene'.bound = <<>>
  <2>1. scene \in [phase : {"none", "loading", "failed"}, bound : Seq(Generations),
                 global : 0 .. MaxGenerations, probes : SUBSET Generations]
    BY DEF Inv, EnvironmentInvariant, TypeOK
  <2>2. \/ scene' = NoScene
        \/ scene' = [scene EXCEPT !.phase = "failed"]
        \/ scene' = [NoScene EXCEPT !.phase = "failed"]
    BY DEF SupersedeScene, CancelSceneLoad, ResolveFails
  <2>. QED BY <2>1, <2>2 DEF NoScene
<1>. QED BY <1>1, <1>2, <1>3, NothingIn, LeasesPass, EffectsSame

LEMMA QuietEffects ==
  ASSUME Inv, \/ WaitForFence \/ EndFrame \/ DeviceWaitIdle \/ GpuFinish \/ UploadRuns
              \/ UNCHANGED vars
  PROVE  Effects
<1>1. UNCHANGED <<state, cancellation, kept, active, inactive, pending, shown, scene, world,
                  retiredWorlds>>
  BY DEF WaitForFence, EndFrame, DeviceWaitIdle, GpuFinish, UploadRuns, vars, recordVars, tableVars,
         holderVars
<1>. QED BY <1>1, LeasedSame, EffectsSame DEF Held

LEMMA ExitEffects ==
  ASSUME Inv, ShutdownBegin \/ ShutdownFinish \/ DestroyWorlds
  PROVE  Effects
<1>0. TypeOK /\ ExitOrder
  BY DEF Inv, EnvironmentInvariant
<1>1. CASE ShutdownBegin
  <2>1. /\ main' \in Exiting /\ pending' = None /\ shown' = None
        /\ UNCHANGED <<state, kept, active, inactive, scene, world, retiredWorlds>>
    BY <1>1 DEF ShutdownBegin, Exiting, tableVars
  <2>2. \A g \in Generations : Leased(g)' => Leased(g)
    BY <2>1, LeasesPass
  <2>3. Held' = Held /\ \A g \in Generations : Loaded(g)' <=> Loaded(g)
    BY <2>1 DEF Held, Loaded
  <2>. QED BY <2>1, <2>2, <2>3 DEF Effects, LoadedStays, LoadedBegins, FlagStep, KeptStays,
             LeasedStep, HeldStep, RetiringStep
<1>2. CASE ShutdownFinish
  <2>1. /\ active' = [e \in Environments |-> None] /\ inactive' = {}
        /\ kept' = [g \in Generations |-> kept[g] /\ Leased(g)]
        /\ UNCHANGED <<state, cancellation, pending, shown, scene, world, retiredWorlds>>
    BY <1>2 DEF ShutdownFinish, holderVars
  <2>2. \A g \in Generations : Leased(g)' <=> Leased(g)
    BY <2>1, LeasedSame
  <2>3. Held' = {} /\ \A g \in Generations : Loaded(g)' <=> Loaded(g)
    BY <2>1 DEF Held, Loaded
  <2>4. \A g \in Generations : kept[g] /\ ~kept'[g] => ~Leased(g)'
    BY <2>1, <2>2
  <2>. QED BY <2>1, <2>2, <2>3, <2>4 DEF Effects, LoadedStays, LoadedBegins, FlagStep, KeptStays,
             LeasedStep, HeldStep, RetiringStep
<1>3. CASE DestroyWorlds
  <2>1. /\ main = "idle" /\ scene' = NoScene /\ world' = {} /\ retiredWorlds' = {}
        /\ kept' = [g \in Generations |-> FALSE]
        /\ UNCHANGED <<state, cancellation, active, inactive, pending, shown>>
    BY <1>3 DEF DestroyWorlds, tableVars
  <2>2. pending' = None /\ shown' = None /\ Held' = {}
    BY <1>0, <2>1 DEF ExitOrder, Exiting, Held
  <2>3. \A g \in Generations : ~Leased(g)'
    <3>1. Range(scene'.bound) = {}
      BY <2>1, NothingIn DEF NoScene
    <3>. QED BY <2>1, <2>2, <3>1 DEF Leased, Generations, None
  <2>4. \A g \in Generations : Loaded(g)' <=> Loaded(g)
    BY <2>1 DEF Loaded
  <2>. QED BY <2>1, <2>2, <2>3, <2>4 DEF Effects, LoadedStays, LoadedBegins, FlagStep, KeptStays,
             LeasedStep, HeldStep, RetiringStep
<1>. QED BY <1>1, <1>2, <1>3

LEMMA NextEffects ==
  ASSUME Inv, [Next]_vars
  PROVE  Effects
<1>0. TypeOK
  BY DEF Inv, EnvironmentInvariant
<1>1. CASE User
  <2>1. CASE \E e \in Environments : Invalidate(e) \/ \E reload \in BOOLEAN : QueueEnvironment(e, reload)
    BY <2>1, InvalidateEffects, QueueEffects
  <2>2. CASE \E g \in Generations : CancelEnvironmentLoad(g)
    BY <2>2, UserCancelsEffects DEF CancelEnvironmentLoad
  <2>3. CASE ClearEnvironment \/ CloseWorld
    BY <2>3, UserCancelsEffects DEF ClearEnvironment, CloseWorld
  <2>4. CASE SupersedeScene \/ CancelSceneLoad
    BY <2>4, DropEffects
  <2>5. CASE ShutdownBegin
    BY <2>5, ExitEffects
  <2>. QED BY <1>1, <2>1, <2>2, <2>3, <2>4, <2>5 DEF User
<1>2. CASE MainLoop
  <2>1. CASE AskForEnvironments
    <3>1. asking.left \subseteq Environments
      BY <1>0 DEF TypeOK
    <3>. QED BY <2>1, <3>1, AskEffects, DropEffects DEF AskForEnvironments
  <2>. QED BY <1>2, <2>1, PumpEffects, SceneEffects, QuietEffects, PrepareEffects, CancelEffects,
             ExitEffects DEF MainLoop
<1>. QED BY <1>1, <1>2, WorkerEffects, QuietEffects DEF Next, Exited

-----------------------------------------------------------------------------
(* The invariants that follow from these effects.                          *)

LEMMA AssetsStayKept ==
  ASSUME Inv, Effects
  PROVE  AssetsAreKept' /\ LeasedReadyIsKept'
<1>1. AssetsAreKept
  BY DEF Inv, EnvironmentInvariant
<1>2. ASSUME NEW g \in Generations, Loaded(g)', Leased(g)' \/ g \in Held' PROVE kept'[g]
  <2>1. CASE ~Loaded(g)
    BY <1>2, <2>1 DEF Effects, LoadedBegins
  <2>2. CASE Loaded(g)
    <3>1. Leased(g) \/ g \in Held
      BY <1>2 DEF Effects, LeasedStep, HeldStep
    <3>2. kept[g]
      BY <1>1, <2>2, <3>1 DEF AssetsAreKept
    <3>. QED BY <1>2, <3>2 DEF Effects, KeptStays
  <2>. QED BY <2>1, <2>2
<1>3. ASSUME NEW g \in Generations, Leased(g)', state'[g] = "Retiring" PROVE FALSE
  <2>1. Loaded(g)'
    BY <1>3 DEF Loaded
  <2>2. state[g] = "Retiring"
    BY <1>3 DEF Effects, RetiringStep
  <2>3. ~Leased(g)
    BY <1>1, <2>2 DEF AssetsAreKept
  <2>. QED BY <1>3, <2>1, <2>3 DEF Effects, LeasedStep
<1>4. AssetsAreKept'
  BY <1>2, <1>3 DEF AssetsAreKept
<1>5. LeasedReadyIsKept'
  BY <1>2 DEF LeasedReadyIsKept, Loaded
<1>. QED BY <1>4, <1>5

\* The exit does not end but with the program.
LEMMA ExitStays ==
  ASSUME [Next]_vars, main \in Exiting
  PROVE  main' \in Exiting
<1>1. /\ ~User /\ ~PumpEnvironments /\ ~UpdateScene /\ ~AskForEnvironments /\ ~WaitForFence
      /\ ~PrepareFrame /\ ~EndFrame /\ ~Cancel
  BY DEF Exiting, User, Invalidate, QueueEnvironment, CancelEnvironmentLoad, ClearEnvironment,
         CloseWorld, UserCancels, SupersedeScene, CancelSceneLoad, ShutdownBegin, AtInput,
         PumpEnvironments, UpdateScene, AskForEnvironments, ResolveFails, RequestEnvironment,
         WaitForFence, PrepareFrame, EndFrame, Cancel
<1>2. CASE UNCHANGED main
  BY <1>2
<1>3. CASE ShutdownFinish \/ DeviceWaitIdle \/ DestroyWorlds
  BY <1>3 DEF ShutdownFinish, DeviceWaitIdle, DestroyWorlds, Exiting
<1>4. Worker \/ GpuFinish \/ UploadRuns \/ Exited \/ UNCHANGED vars => UNCHANGED main
  BY DEF Worker, WorkerTakes, WorkerSkips, WorkerStarts, WorkerLoads, WorkerIsReady, WorkerExits,
         workerFrame, GpuFinish, UploadRuns, Exited, vars
<1>. QED BY <1>1, <1>2, <1>3, <1>4 DEF Next, MainLoop

LEMMA FlaggedStays ==
  ASSUME Inv, [Next]_vars, Effects
  PROVE  FlaggedIsUnpublished'
<1>. SUFFICES ASSUME main' \notin Exiting, NEW g \in Generations, cancellation'[g], Loaded(g)'
              PROVE  FALSE
  BY DEF FlaggedIsUnpublished
<1>1. main \notin Exiting
  BY ExitStays
<1>2. cancellation[g]
  BY DEF Effects, FlagStep
<1>3. ~Loaded(g)
  BY <1>1, <1>2 DEF Inv, EnvironmentInvariant, FlaggedIsUnpublished
<1>. QED BY <1>2, <1>3 DEF Effects, LoadedBegins

-----------------------------------------------------------------------------
(* Calls of cancel() and what follows them.                                *)

Holders ==
  [phase : {"none", "loading", "failed"}, bound : Seq(Generations),
   global : 0 .. MaxGenerations, probes : SUBSET Generations]

Thens == {"input", "clear", "close", "drop scene"}

\* The holders after they were left alone or gave something up.
HoldersLess ==
  /\ pending' \in {pending, None} /\ UNCHANGED <<scenes, asking>>
  /\ scene' \in {scene, [scene EXCEPT !.phase = "failed"], NoScene}
  /\ \/ UNCHANGED <<world, retiredWorlds>>
     \/ world' = {} /\ retiredWorlds' = RetiredWorlds
  /\ \/ UNCHANGED <<drawVars, shown>>
     \/ PublishEnvironment(None) /\ shown' = None

LEMMA AfterIs ==
  ASSUME NEW then \in Thens, After(then)
  PROVE  HoldersLess /\ main' \in {"input", "frame"}
<1>1. CASE then = "input"
  BY <1>1 DEF After, HoldersLess, holderVars
<1>2. CASE then = "clear"
  BY <1>2 DEF After, HoldersLess
<1>3. CASE then = "close"
  <2>1. /\ main' = "input" /\ pending' = None /\ shown' = None
        /\ scene' = IF scene.phase = "loading" THEN [scene EXCEPT !.phase = "failed"] ELSE scene
        /\ world' = {} /\ retiredWorlds' = RetiredWorlds
        /\ PublishEnvironment(None) /\ UNCHANGED <<scenes, asking>>
    BY <1>3 DEF After
  <2>2. scene' \in {scene, [scene EXCEPT !.phase = "failed"], NoScene}
    BY <2>1, Zenon
  <2>. QED BY <2>1, <2>2 DEF HoldersLess
<1>4. CASE then = "drop scene"
  BY <1>4 DEF After, HoldersLess
<1>. QED BY <1>1, <1>2, <1>3, <1>4 DEF Thens

LEMMA CancellingIs ==
  ASSUME NEW gens \in Seq(Generations), NEW then \in Thens, Cancelling(gens, then)
  PROVE  /\ HoldersLess /\ main' \in {"input", "frame", "cancel"}
         /\ cancelling' \in [calls : Seq(Generations), idle : BOOLEAN, then : Thens]
         /\ main' = "cancel" => cancelling'.calls # <<>> /\ Loading(Head(cancelling'.calls))
<1>0. Len(gens) \in Nat /\ DOMAIN gens = 1 .. Len(gens)
  BY LenProperties
<1>1. CASE cancelling' = NoCalls /\ After(then)
  BY <1>1, AfterIs, NothingIn DEF NoCalls, Thens
<1>2. CASE ~(cancelling' = NoCalls /\ After(then))
  <2>1. PICK first \in DOMAIN gens :
          /\ Loading(gens[first])
          /\ cancelling' = [calls |-> SubSeq(gens, first, Len(gens)),
                            idle |-> state[gens[first]] \in {"Queued", "ReadyForUpload"},
                            then |-> then]
          /\ main' = "cancel"
          /\ UNCHANGED <<holderVars, drawVars>>
    BY <1>2 DEF Cancelling
  <2>. DEFINE q == SubSeq(gens, first, Len(gens))
              k == first - 1
  <2>2. k \in 0 .. Len(gens) + 1 /\ k + 1 = first /\ 1 \in 1 .. Len(gens) - k /\ k + 1 = first
    BY <1>0
  <2>3. q \in Seq(Generations) /\ DOMAIN q = 1 .. Len(gens) - k /\ q[1] = gens[k + 1]
    BY <2>2, SuffixOf
  <2>4. q # <<>> /\ Head(q) = gens[first]
    <3>1. Len(q) # 0 /\ Len(q) \in Nat
      BY <2>2, <2>3, LenProperties
    <3>. QED BY <2>2, <2>3, <3>1, EmptySeq, HeadTailProperties, SMTT(30)
  <2>. HIDE DEF q
  <2>5. HoldersLess
    BY <2>1 DEF HoldersLess, holderVars
  <2>. QED BY <2>1, <2>3, <2>4, <2>5 DEF q
<1>. QED BY <1>1, <1>2

-----------------------------------------------------------------------------
(* The places of the records.                                              *)

Places == PlacesDistinct /\ StagesAgree

\* The states that the collection, a request or a cancel changes.
LEMMA PlacesSame ==
  ASSUME Places, UNCHANGED <<cpuQueue, gpuQueue, worker, builder, generations>>,
         \A g \in Generations : Loaded(g)' => Loaded(g),
         \A g \in Generations : g > generations => state'[g] = state[g]
  PROVE  Places'
<1>1. PlacesDistinct'
  BY DEF Places, PlacesDistinct
<1>2. \A g \in Generations : Unpublished(g)' <=> Unpublished(g)
  BY DEF Unpublished
<1>3. StagesAgree'
  BY <1>2 DEF Places, StagesAgree
<1>. QED BY <1>1, <1>3 DEF Places

LEMMA PlacesRequested ==
  ASSUME TypeOK, Places, UNCHANGED <<gpuQueue, worker, builder>>,
         NEW g \in Generations, Joins(g) \/ Creates(g)
  PROVE  Places'
<1>0. /\ state \in [Generations -> States] /\ cpuQueue \in Seq(Generations)
      /\ generations \in Nat /\ \A h \in Generations : h \in Nat
  <2>1. state \in [Generations -> States] /\ generations \in 0 .. MaxGenerations /\ cpuQueue \in Seq(Generations)
    BY DEF TypeOK
  <2>. QED BY <2>1, EnvironmentBounds DEF Generations
<1>1. CASE Joins(g)
  <2>1. UNCHANGED <<cpuQueue, generations>> /\ g <= generations
    BY <1>1 DEF Joins, tableVars
  <2>2. \A h \in Generations : Loaded(h)' => Loaded(h)
    BY <1>0, <1>1 DEF Joins, Loaded
  <2>3. \A h \in Generations : h > generations => state'[h] = state[h]
    BY <1>0, <1>1, <2>1 DEF Joins
  <2>. QED BY <2>1, <2>2, <2>3, PlacesSame
<1>2. CASE Creates(g)
  <2>1. g = generations + 1 /\ generations' = g /\ ~(g <= generations)
        /\ state' = [state EXCEPT ![g] = "Queued"] /\ cpuQueue' = Append(cpuQueue, g)
    BY <1>0, <1>2 DEF Creates
  <2>2. ~Unpublished(g)
    BY <2>1 DEF Places, StagesAgree
  <2>3. Range(cpuQueue') = Range(cpuQueue) \cup {g} /\ IsInjective(cpuQueue')
    BY <1>0, <2>1, <2>2, AppendedOnce DEF Places, PlacesDistinct, Unpublished
  <2>4. PlacesDistinct'
    BY <2>2, <2>3 DEF Places, PlacesDistinct, Unpublished
  <2>5. \A h \in Generations : Unpublished(h)' => Unpublished(h) \/ h = g
    BY <2>3 DEF Unpublished
  <2>6. \A h \in Generations : Loaded(h)' => Loaded(h) /\ h # g
    BY <1>0, <2>1 DEF Loaded
  <2>7. \A h \in Generations : h <= generations => h <= generations'
    BY <1>0, <2>1
  <2>8. \A h \in Generations : Unpublished(h)' => ~Loaded(h)' /\ h <= generations'
    BY <1>0, <2>1, <2>5, <2>6, <2>7 DEF Places, StagesAgree
  <2>9. \A h \in Generations : h > generations' => h > generations /\ h # g
    BY <1>0, <2>1
  <2>10. \A h \in Generations : h > generations' => state'[h] = "Unloaded"
    BY <1>0, <2>1, <2>9 DEF Places, StagesAgree
  <2>11. StagesAgree'
    BY <2>8, <2>10 DEF Places, StagesAgree
  <2>. QED BY <2>4, <2>11 DEF Places
<1>. QED BY <1>1, <1>2

LEMMA PlacesPumped ==
  ASSUME TypeOK, Places, PumpEnvironments
  PROVE  Places'
<1>1. UNCHANGED <<cpuQueue, worker, generations>>
  BY DEF PumpEnvironments, tableVars
<1>2. /\ \A g \in Generations :
           \/ state'[g] = state[g]
           \/ ~Loaded(g)' /\ Unpublished(g)
           \/ /\ g = builder.gen /\ builder'.gen # g
              /\ state'[g] = "Ready" /\ kept'[g] /\ ~cancellation[g]
      /\ Range(gpuQueue') \subseteq Range(gpuQueue) /\ IsInjective(gpuQueue')
      /\ \/ builder'.gen \in Range(gpuQueue) \ Range(gpuQueue')
         \/ builder'.gen = builder.gen
         \/ builder'.gen = None
      /\ builder'.gen = None => builder' = NoBuilder
  BY PumpIs DEF Places, PumpEnvironments
<1>3. PlacesDistinct'
  BY <1>1, <1>2 DEF Places, PlacesDistinct, Generations, None
<1>4. \A g \in Generations : Unpublished(g)' => Unpublished(g) /\ (g = builder.gen => g = builder'.gen)
  BY <1>1, <1>2 DEF Places, PlacesDistinct, Unpublished, Generations, None
<1>5. \A g \in Generations : Unpublished(g)' => ~Loaded(g)' /\ g <= generations'
  BY <1>1, <1>2, <1>4 DEF Places, StagesAgree, Loaded
<1>6. \A g \in Generations : g > generations => ~Unpublished(g)
  <2>1. generations \in Nat
    <3>1. generations \in 0 .. MaxGenerations
      BY DEF TypeOK
    <3>. QED BY <3>1, EnvironmentBounds
  <2>. QED BY <2>1, EnvironmentBounds DEF Places, StagesAgree, Generations
<1>7. \A g \in Generations : g > generations' => state'[g] = "Unloaded"
  BY <1>1, <1>2, <1>6 DEF Places, StagesAgree, Unpublished
<1>. QED BY <1>1, <1>2, <1>3, <1>5, <1>7 DEF Places, StagesAgree

LEMMA PlacesOfWorker ==
  ASSUME TypeOK, Places, Worker
  PROVE  Places'
<1>0. /\ state \in [Generations -> States] /\ generations \in Nat
      /\ cpuQueue \in Seq(Generations) /\ gpuQueue \in Seq(Generations)
      /\ worker \in [gen : 0 .. MaxGenerations,
                    at : {"waiting", "skip", "prepare", "load", "ready", "exited"}]
      /\ \A g \in Generations : g \in Nat /\ g # None
  <2>1. /\ state \in [Generations -> States] /\ generations \in 0 .. MaxGenerations
        /\ cpuQueue \in Seq(Generations) /\ gpuQueue \in Seq(Generations)
        /\ worker \in [gen : 0 .. MaxGenerations,
                      at : {"waiting", "skip", "prepare", "load", "ready", "exited"}]
    BY DEF TypeOK
  <2>2. generations \in Nat /\ \A g \in Generations : g \in Nat /\ g # None
    BY <2>1, EnvironmentBounds DEF Generations, None
  <2>. QED BY <2>1, <2>2
<1>1. UNCHANGED <<builder, generations>>
  BY DEF Worker, WorkerTakes, WorkerSkips, WorkerStarts, WorkerLoads, WorkerIsReady, WorkerExits,
         workerFrame, tableVars
<1>2. \A g \in Generations : g > generations => g # worker.gen
  BY <1>0 DEF Places, StagesAgree, Unpublished
<1>3. /\ \A g \in Generations : Loaded(g)' => Loaded(g)
      /\ \A g \in Generations : g > generations => state'[g] = "Unloaded"
  <2>1. state' = state \/ \E s \in {"Cancelled", "PreparingCpu", "Failed", "ReadyForUpload"} :
                             state' = [state EXCEPT ![worker.gen] = s]
    BY DEF Worker, WorkerTakes, WorkerSkips, WorkerStarts, WorkerLoads, WorkerIsReady, WorkerExits, Store
  <2>2. \A g \in Generations : \/ state'[g] = state[g]
                               \/ g = worker.gen /\ state'[g] \in {"Cancelled", "PreparingCpu", "Failed", "ReadyForUpload"}
    BY <1>0, <2>1
  <2>. QED BY <1>2, <2>2 DEF Places, StagesAgree, Loaded
<1>4. CASE WorkerTakes
  <2>1. /\ cpuQueue # <<>> /\ cpuQueue' = Tail(cpuQueue) /\ UNCHANGED gpuQueue /\ Working("waiting")
        /\ worker'.gen = Head(cpuQueue) /\ worker'.at \in {"skip", "prepare"}
    BY <1>4 DEF WorkerTakes
  <2>2. /\ Head(cpuQueue) \in Generations /\ Head(cpuQueue) \in Range(cpuQueue)
        /\ Range(cpuQueue') \subseteq Range(cpuQueue)
        /\ IsInjective(cpuQueue') /\ Head(cpuQueue) \notin Range(cpuQueue')
    BY <1>0, <2>1, TailOnce DEF Places, PlacesDistinct
  <2>3. PlacesDistinct'
    BY <1>0, <1>1, <2>1, <2>2 DEF Places, PlacesDistinct
  <2>4. \A g \in Generations : Unpublished(g)' => Unpublished(g)
    BY <1>1, <2>1, <2>2 DEF Unpublished
  <2>5. worker'.gen # None
    BY <1>0, <2>1, <2>2
  <2>. QED BY <1>1, <1>3, <2>1, <2>3, <2>4, <2>5 DEF Places, StagesAgree
<1>5. CASE UNCHANGED <<cpuQueue, gpuQueue>> /\ worker' = IdleWorker
  <2>1. worker'.gen = None /\ worker'.at = "waiting"
    BY <1>5 DEF IdleWorker
  <2>2. PlacesDistinct'
    BY <1>0, <1>1, <1>5, <2>1 DEF Places, PlacesDistinct
  <2>3. \A g \in Generations : Unpublished(g)' => Unpublished(g)
    BY <1>0, <1>1, <1>5, <2>1 DEF Unpublished
  <2>. QED BY <1>1, <1>3, <2>1, <2>2, <2>3 DEF Places, StagesAgree
<1>6. ASSUME UNCHANGED <<cpuQueue, gpuQueue>>,
             NEW at, worker' = [worker EXCEPT !.at = at],
             \/ at \in {"load", "ready"} /\ worker.at \in {"prepare", "load"}
             \/ at = "exited" /\ worker.at = "waiting"
      PROVE  Places'
  <2>1. worker'.gen = worker.gen /\ worker'.at = at
    BY <1>0, <1>6
  <2>2. PlacesDistinct'
    BY <1>1, <1>6, <2>1 DEF Places, PlacesDistinct
  <2>3. \A g \in Generations : Unpublished(g)' => Unpublished(g)
    BY <1>1, <1>6, <2>1 DEF Unpublished
  <2>. QED BY <1>1, <1>3, <1>6, <2>1, <2>2, <2>3 DEF Places, StagesAgree
<1>7. CASE WorkerSkips
  BY <1>5, <1>7 DEF WorkerSkips, Move
<1>8. CASE WorkerStarts
  BY <1>6, <1>8 DEF WorkerStarts, Move, Working
<1>9. CASE WorkerLoads
  BY <1>5, <1>6, <1>9 DEF WorkerLoads, Move, Working
<1>10. CASE WorkerIsReady
  <2>1. /\ worker.at = "ready" /\ UNCHANGED cpuQueue /\ worker' = IdleWorker
        /\ gpuQueue' = Append(gpuQueue, worker.gen)
    BY <1>10 DEF WorkerIsReady, Working, Move
  <2>2. worker.gen \in Generations
    BY <1>0, <2>1, EnvironmentBounds DEF Places, StagesAgree, Generations, None
  <2>3. /\ Range(gpuQueue') = Range(gpuQueue) \cup {worker.gen}
        /\ IsInjective(gpuQueue')
    BY <1>0, <2>1, <2>2, AppendedOnce DEF Places, PlacesDistinct
  <2>4. worker'.gen = None /\ worker'.at = "waiting"
    BY <2>1 DEF IdleWorker
  <2>5. PlacesDistinct'
    BY <1>0, <1>1, <2>1, <2>2, <2>3, <2>4 DEF Places, PlacesDistinct
  <2>6. \A g \in Generations : Unpublished(g)' => Unpublished(g)
    BY <1>0, <1>1, <2>1, <2>3, <2>4 DEF Unpublished
  <2>. QED BY <1>1, <1>3, <2>4, <2>5, <2>6 DEF Places, StagesAgree
<1>11. CASE WorkerExits
  BY <1>6, <1>11 DEF WorkerExits, Move, Working
<1>. QED BY <1>4, <1>7, <1>8, <1>9, <1>10, <1>11 DEF Worker

LEMMA PlacesStay ==
  ASSUME Inv, [Next]_vars
  PROVE  PlacesDistinct' /\ StagesAgree'
<1>. SUFFICES Places'
  BY DEF Places
<1>0. TypeOK /\ Places /\ ExitOrder /\ CancelsAreRead
  BY DEF Inv, EnvironmentInvariant, Places
<1>1. CASE UNCHANGED <<state, cpuQueue, gpuQueue, worker, builder, generations>>
  BY <1>0, <1>1, PlacesSame DEF Loaded
<1>2. ASSUME NEW e \in Environments, NEW reload \in BOOLEAN, QueueEnvironment(e, reload) PROVE Places'
  <2>1. pending' \in 1 .. generations' /\ TablesOK' /\ (Joins(pending') \/ Creates(pending'))
    BY <1>2, QueueEffects
  <2>2. pending' \in Generations
    BY <2>1, EnvironmentBounds DEF TablesOK, Generations
  <2>. QED BY <1>0, <1>2, <2>1, <2>2, PlacesRequested DEF QueueEnvironment
<1>3. ASSUME NEW e \in Environments, RequestEnvironment(e) PROVE Places'
  <2>1. \E g \in Generations : Joins(g) \/ Creates(g)
    BY <1>3, AskEffects
  <2>. QED BY <1>0, <1>3, <2>1, PlacesRequested DEF RequestEnvironment, askFrame
<1>4. ASSUME NEW e \in Environments, Invalidate(e) PROVE Places'
  <2>1. UNCHANGED <<state, generations, cpuQueue>>
    BY <1>0, <1>4, InvalidatedIs DEF Invalidate
  <2>. QED BY <1>1, <1>4, <2>1 DEF Invalidate
<1>5. CASE Cancel
  <2>. DEFINE g == Head(cancelling.calls)
  <2>1. /\ main = "cancel" /\ UNCHANGED <<cpuQueue, gpuQueue, worker, builder, generations>>
        /\ state' = IF cancelling.idle THEN [state EXCEPT ![g] = "Cancelled"] ELSE state
    BY <1>5 DEF Cancel, queueVars, tableVars
  <2>2. g <= generations
    BY <1>0, <2>1 DEF CancelsAreRead
  <2>. HIDE DEF g
  <2>3. \A h \in Generations : \/ state'[h] = state[h]
                               \/ h = g /\ state'[h] = "Cancelled"
    BY <1>0, <2>1 DEF TypeOK
  <2>4. \A h \in Generations : (Loaded(h)' => Loaded(h)) /\ (h > generations => state'[h] = state[h])
    <3>1. generations \in 0 .. MaxGenerations
      BY <1>0 DEF TypeOK
    <3>2. \A h \in Generations : h > generations => ~(h <= generations)
      BY <3>1, EnvironmentBounds DEF Generations
    <3>. QED BY <2>2, <2>3, <3>2 DEF Loaded
  <2>. QED BY <1>0, <2>1, <2>4, PlacesSame
<1>6. CASE PrepareFrame
  <2>1. UNCHANGED <<cpuQueue, gpuQueue, worker, builder, generations>>
    BY <1>6 DEF PrepareFrame, queueVars
  <2>2. \A g \in Generations : (Loaded(g)' => Loaded(g)) /\ (state'[g] # state[g] => Loaded(g))
    BY <1>0, <1>6, ReleaseIs DEF PrepareFrame
  <2>3. \A g \in Generations : g > generations => ~Loaded(g)
    BY <1>0 DEF Places, StagesAgree, Loaded
  <2>. QED BY <1>0, <2>1, <2>2, <2>3, PlacesSame
<1>7. CASE UploadRuns \/ ShutdownFinish
  <2>1. UNCHANGED <<state, cpuQueue, gpuQueue, worker, generations>>
    BY <1>7 DEF UploadRuns, ShutdownFinish, recordVars, queueVars, tableVars
  <2>2. builder'.gen \in {None, builder.gen} /\ (builder'.gen = None => builder' = NoBuilder)
    <3>1. CASE ShutdownFinish
      BY <3>1 DEF ShutdownFinish, NoBuilder
    <3>2. CASE UploadRuns
      <4>1. builder \in Builders /\ builder.batch = "running" /\ builder' = [builder EXCEPT !.batch = "none"]
        BY <1>0, <3>2 DEF UploadRuns, TypeOK
      <4>2. NoBuilder.batch = "none"
        BY DEF NoBuilder
      <4>. QED BY <1>0, <4>1, <4>2 DEF Places, StagesAgree, Builders
    <3>. QED BY <1>7, <3>1, <3>2
  <2>3. \A g \in Generations : g # None
    BY EnvironmentBounds DEF Generations, None
  <2>4. PlacesDistinct'
    BY <1>0, <2>1, <2>2, <2>3 DEF Places, PlacesDistinct
  <2>5. \A g \in Generations : Unpublished(g)' => Unpublished(g)
    BY <2>1, <2>2, <2>3 DEF Unpublished
  <2>6. \A g \in Generations : Loaded(g)' <=> Loaded(g)
    BY <2>1 DEF Loaded
  <2>. QED BY <1>0, <2>1, <2>2, <2>4, <2>5, <2>6 DEF Places, StagesAgree
<1>8. CASE User
  <2>1. CASE ClearEnvironment \/ CloseWorld
             \/ (\E g \in Generations : CancelEnvironmentLoad(g)) \/ SupersedeScene \/ CancelSceneLoad
             \/ ShutdownBegin
    <3>1. UNCHANGED <<state, cpuQueue, gpuQueue, worker, builder, generations>>
      BY <2>1 DEF ClearEnvironment, CloseWorld, CancelEnvironmentLoad, UserCancels, SupersedeScene,
                  CancelSceneLoad, ShutdownBegin, recordVars, queueVars, tableVars
    <3>. QED BY <1>1, <3>1
  <2>. QED BY <1>2, <1>4, <1>8, <2>1 DEF User
<1>9. CASE MainLoop
  <2>1. CASE UpdateScene \/ ResolveFails \/ WaitForFence \/ EndFrame \/ DeviceWaitIdle \/ DestroyWorlds
    <3>1. UNCHANGED <<state, cpuQueue, gpuQueue, worker, builder, generations>>
      <4>1. CASE UpdateScene
        BY <4>1 DEF UpdateScene, ResolveScene, SceneWaits, SceneFails, FinalizeScene,
                    PublishNativeScene, requestVars, tableVars
      <4>2. CASE ResolveFails
        BY <4>2 DEF ResolveFails, requestVars, askFrame, tableVars
      <4>3. CASE WaitForFence \/ EndFrame \/ DeviceWaitIdle \/ DestroyWorlds
        BY <4>3 DEF WaitForFence, EndFrame, DeviceWaitIdle, DestroyWorlds, recordVars, queueVars, tableVars
      <4>. QED BY <2>1, <4>1, <4>2, <4>3
    <3>. QED BY <1>1, <3>1
  <2>2. asking.left \subseteq Environments
    BY <1>0 DEF TypeOK
  <2>. QED BY <1>0, <1>3, <1>5, <1>6, <1>7, <1>9, <2>1, <2>2, PlacesPumped DEF MainLoop, AskForEnvironments
<1>10. GpuFinish \/ Exited \/ UNCHANGED vars =>
         UNCHANGED <<state, cpuQueue, gpuQueue, worker, builder, generations>>
  BY DEF GpuFinish, Exited, vars, recordVars, queueVars, tableVars
<1>. QED BY <1>0, <1>1, <1>7, <1>8, <1>9, <1>10, PlacesOfWorker DEF Next

-----------------------------------------------------------------------------
(* Calls of cancel(): what was read stays unpublished.                     *)

\* The steps that make calls.
LEMMA CallsStart ==
  ASSUME Inv, [Next]_vars, main' = "cancel", ~(main = "cancel" /\ cancelling' = cancelling)
  PROVE  /\ UNCHANGED generations
         /\ \E gens \in Seq(Generations), then \in Thens : Cancelling(gens, then)
<1>0. TypeOK
  BY DEF Inv, EnvironmentInvariant
<1>1. CASE User
  <2>1. ~SupersedeScene /\ ~CancelSceneLoad /\ ~ShutdownBegin
    BY DEF SupersedeScene, CancelSceneLoad, ShutdownBegin, AtInput
  <2>2. \A e \in Environments : ~Invalidate(e) /\ \A reload \in BOOLEAN : ~QueueEnvironment(e, reload)
    BY DEF Invalidate, QueueEnvironment, AtInput
  <2>3. PICK gens \in Seq(Generations), then \in Thens : UserCancels(gens, then)
    <3>1. ASSUME NEW g \in Generations PROVE <<g>> \in Seq(Generations)
      OBVIOUS
    <3>2. LatestIfUnfinished \in Seq(Generations)
      <4>1. pending = None \/ pending \in Generations
        <5>1. pending \in 0 .. generations /\ generations \in 0 .. MaxGenerations
          BY <1>0 DEF TypeOK
        <5>. QED BY <5>1, EnvironmentBounds DEF Generations, None
      <4>. QED BY <3>1, <4>1, NothingIn DEF LatestIfUnfinished
    <3>. QED BY <1>1, <2>1, <2>2, <3>1, <3>2 DEF User, CancelEnvironmentLoad, ClearEnvironment, CloseWorld, Thens
  <2>. QED BY <2>3 DEF UserCancels, tableVars
<1>2. CASE Cancel
  <2>1. /\ cancelling.calls \in Seq(Generations) /\ cancelling.calls # <<>>
        /\ cancelling.then \in Thens
    BY <1>2 DEF Inv, EnvironmentInvariant, TypeOK, CancelsAreRead, Cancel, Thens
  <2>2. Tail(cancelling.calls) \in Seq(Generations)
    BY <2>1, TailOnce
  <2>. QED BY <1>2, <2>1, <2>2 DEF Cancel, tableVars
<1>3. CASE UpdateScene
  <2>1. scene.bound \in Seq(Generations)
    BY <1>0 DEF TypeOK
  <2>2. FinalizeScene
    BY <1>3 DEF UpdateScene, ResolveScene, SceneWaits, SceneFails, PublishNativeScene
  <2>. QED BY <1>3, <2>1, <2>2 DEF FinalizeScene, Thens, requestVars, tableVars
<1>4. CASE MainLoop /\ ~Cancel /\ ~UpdateScene
  BY <1>4 DEF MainLoop, PumpEnvironments, AskForEnvironments, ResolveFails, RequestEnvironment,
              WaitForFence, PrepareFrame, EndFrame, ShutdownFinish, DeviceWaitIdle, DestroyWorlds,
              Observe
<1>5. CASE Worker
  BY <1>5 DEF Worker, WorkerTakes, WorkerSkips, WorkerStarts, WorkerLoads, WorkerIsReady, WorkerExits,
         workerFrame
<1>6. CASE GpuFinish \/ UploadRuns \/ Exited \/ UNCHANGED vars
  BY <1>6 DEF GpuFinish, UploadRuns, Exited, vars
<1>. QED BY <1>1, <1>2, <1>3, <1>4, <1>5, <1>6 DEF Next

\* The records are numbered in the order of their requests.
LEMMA GenerationsGrow ==
  ASSUME Inv, [Next]_vars
  PROVE  generations' \in Nat /\ generations <= generations' /\ generations' <= MaxGenerations
<1>0. generations \in Nat /\ generations <= MaxGenerations /\ TypeOK
  <2>1. generations \in 0 .. MaxGenerations
    BY DEF Inv, EnvironmentInvariant, TypeOK
  <2>. QED BY <2>1, EnvironmentBounds DEF Inv, EnvironmentInvariant
<1>1. CASE UNCHANGED generations
  BY <1>0, <1>1
<1>2. ASSUME NEW g, Joins(g) \/ Creates(g) PROVE generations' \in Nat /\ generations <= generations' /\ generations' <= MaxGenerations
  BY <1>0, <1>2, EnvironmentBounds DEF Joins, Creates, tableVars, Generations
<1>3. CASE User
  <2>1. ASSUME NEW e \in Environments, Invalidate(e) PROVE UNCHANGED generations
    BY <1>0, <2>1, InvalidatedIs DEF Invalidate
  <2>2. CASE ClearEnvironment \/ CloseWorld
             \/ (\E g \in Generations : CancelEnvironmentLoad(g)) \/ SupersedeScene \/ CancelSceneLoad
             \/ ShutdownBegin
    <3>1. UNCHANGED generations
      BY <2>2 DEF ClearEnvironment, CloseWorld, CancelEnvironmentLoad, UserCancels, SupersedeScene,
                  CancelSceneLoad, ShutdownBegin, tableVars
    <3>. QED BY <1>1, <3>1
  <2>. QED BY <1>1, <1>2, <1>3, <2>1, <2>2, QueueEffects DEF User
<1>4. CASE MainLoop
  <2>1. asking.left \subseteq Environments
    BY <1>0 DEF TypeOK
  <2>2. CASE AskForEnvironments
    BY <1>1, <1>2, <2>1, <2>2, AskEffects DEF AskForEnvironments, ResolveFails, requestVars, tableVars
  <2>3. CASE ~AskForEnvironments
    <3>1. UNCHANGED generations
      BY <1>4, <2>3 DEF MainLoop, PumpEnvironments, UpdateScene, ResolveScene, SceneWaits, SceneFails,
              FinalizeScene, PublishNativeScene, requestVars,
              WaitForFence, PrepareFrame, EndFrame, Cancel, ShutdownFinish, DeviceWaitIdle, DestroyWorlds,
              tableVars
    <3>. QED BY <1>1, <3>1
  <2>. QED BY <2>2, <2>3
<1>5. CASE Worker
  BY <1>1, <1>5 DEF Worker, WorkerTakes, WorkerSkips, WorkerStarts, WorkerLoads, WorkerIsReady, WorkerExits,
         workerFrame, tableVars
<1>6. CASE GpuFinish \/ UploadRuns \/ Exited \/ UNCHANGED vars
  BY <1>1, <1>6 DEF GpuFinish, UploadRuns, Exited, vars, tableVars
<1>. QED BY <1>3, <1>4, <1>5, <1>6 DEF Next

LEMMA CancelsStay ==
  ASSUME Inv, [Next]_vars, Effects
  PROVE  CancelsAreRead'
<1>. SUFFICES ASSUME main' = "cancel"
              PROVE  /\ cancelling'.calls # <<>>
                     /\ Head(cancelling'.calls) <= generations'
                     /\ state'[Head(cancelling'.calls)] \notin {"Ready", "Retiring"}
  BY DEF CancelsAreRead, Loaded
<1>0. TypeOK /\ CancelsAreRead /\ StagesAgree /\ generations \in Nat
      /\ \A g \in Generations : g \in Nat
  <2>1. generations \in 0 .. MaxGenerations /\ TypeOK /\ CancelsAreRead /\ StagesAgree
    BY DEF Inv, EnvironmentInvariant, TypeOK
  <2>. QED BY <2>1, EnvironmentBounds DEF Generations
<1>1. \A g \in Generations : ~Loaded(g) => ~Loaded(g)'
  BY DEF Effects, LoadedBegins
<1>2. CASE main = "cancel" /\ cancelling' = cancelling
  <2>1. /\ cancelling.calls # <<>> /\ cancelling.calls \in Seq(Generations)
        /\ Head(cancelling.calls) <= generations
        /\ ~Loaded(Head(cancelling.calls))
    BY <1>0, <1>2 DEF TypeOK, CancelsAreRead
  <2>2. Head(cancelling.calls) \in Generations
    BY <2>1, TailOnce
  <2>3. PICK g \in Generations : g = Head(cancelling.calls) /\ ~Loaded(g)
    BY <2>1, <2>2
  <2>5. state'[g] \notin {"Ready", "Retiring"}
    BY <1>1, <2>3 DEF Loaded
  <2>4. Head(cancelling.calls) <= generations'
    BY <1>0, <2>1, <2>2, GenerationsGrow
  <2>. QED BY <1>2, <2>1, <2>3, <2>4, <2>5
<1>3. CASE ~(main = "cancel" /\ cancelling' = cancelling)
  <2>1. PICK gens \in Seq(Generations), then \in Thens : Cancelling(gens, then)
    BY <1>3, CallsStart
  <2>2. /\ cancelling' \in [calls : Seq(Generations), idle : BOOLEAN, then : Thens]
        /\ cancelling'.calls # <<>> /\ Loading(Head(cancelling'.calls))
    BY <2>1, CancellingIs
  <2>3. PICK g \in Generations : g = Head(cancelling'.calls) /\ Loading(g)
    BY <2>2, TailOnce
  <2>4. g <= generations /\ ~Loaded(g)
    BY <1>0, <2>3 DEF StagesAgree, Loading, LoadingStates, Loaded
  <2>5. state'[g] \notin {"Ready", "Retiring"} /\ UNCHANGED generations
    BY <1>1, <1>3, <2>4, CallsStart DEF Loaded
  <2>. QED BY <2>2, <2>3, <2>4, <2>5
<1>. QED BY <1>2, <1>3

-----------------------------------------------------------------------------
(* The kinds of steps.                                                     *)

Askings ==
  [global : Environments \cup {None}, probes : SUBSET Environments, left : SUBSET Environments]

\* cancel() is called, or a list of calls goes on.
CallStep ==
  /\ main \notin Exiting
  /\ \E gens \in Seq(Generations), then \in Thens : Cancelling(gens, then)
  /\ UNCHANGED <<clockVars, kept, retireAfter, lastUse, tableVars, queueVars, builder, worker>>
  /\ state' \in [Generations -> States] /\ cancellation' \in [Generations -> BOOLEAN]

\* A scene begins, waits or ends.
SceneStep ==
  /\ main \notin Exiting /\ main' \in Stages \ (Exiting \cup {"cancel"})
  /\ main' = "scene" => main = "scene"
  /\ UNCHANGED <<clockVars, recordVars, tableVars, queueVars, builder, worker, cancelling,
                 pending, shown, world, retiredWorlds, drawVars>>
  /\ scene' \in {scene, NoScene, [scene EXCEPT !.phase = "failed"],
                 [NoScene EXCEPT !.phase = "loading"], [NoScene EXCEPT !.phase = "failed"]}
  /\ scenes' \in 0 .. MaxScenes
  /\ asking' \in Askings

\* A scene is published.
PublishStep == UpdateScene /\ PublishNativeScene

\* A step of the exit, of the GPU, of a fence or of nobody.
OtherStep ==
  /\ \/ WaitForFence \/ GpuFinish \/ UploadRuns
     \/ ShutdownBegin \/ ShutdownFinish \/ DeviceWaitIdle \/ DestroyWorlds
     \/ UNCHANGED vars
  /\ UNCHANGED <<state, retireAfter, lastUse, generations, queueVars, worker, cancelling,
                 scenes, asking>>

LEMMA UserCancelsIs ==
  ASSUME TypeOK, NEW gens \in Seq(Generations), NEW then \in Thens, UserCancels(gens, then)
  PROVE  CallStep
<1>1. main \notin Exiting /\ Cancelling(gens, then)
      /\ UNCHANGED <<clockVars, recordVars, tableVars, queueVars, builder, worker>>
  BY DEF UserCancels, AtInput, Exiting
<1>2. state' \in [Generations -> States] /\ cancellation' \in [Generations -> BOOLEAN]
  BY <1>1 DEF TypeOK, recordVars
<1>. QED BY <1>1, <1>2 DEF CallStep, recordVars

LEMMA CancelIs ==
  ASSUME TypeOK, CancelsAreRead, Cancel
  PROVE  CallStep
<1>1. /\ cancelling.calls \in Seq(Generations) /\ cancelling.calls # <<>>
      /\ cancelling.then \in Thens
  BY DEF TypeOK, CancelsAreRead, Cancel, Thens
<1>2. Tail(cancelling.calls) \in Seq(Generations) /\ Head(cancelling.calls) \in Generations
  BY <1>1, TailOnce
<1>3. Cancelling(Tail(cancelling.calls), cancelling.then) /\ main \notin Exiting
      /\ UNCHANGED <<clockVars, kept, retireAfter, lastUse, tableVars, queueVars, builder, worker>>
  BY DEF Cancel, Exiting
<1>4. state' \in [Generations -> States] /\ cancellation' \in [Generations -> BOOLEAN]
  <2>1. "Cancelled" \in States
    BY DEF States
  <2>. QED BY <1>2, <2>1 DEF TypeOK, Cancel
<1>. QED BY <1>1, <1>2, <1>3, <1>4 DEF CallStep

LEMMA UpdateSceneIs ==
  ASSUME TypeOK, UpdateScene
  PROVE  CallStep \/ SceneStep \/ PublishStep
<1>0. /\ main = "scene" /\ UNCHANGED <<clockVars, kept, lastUse, gpuQueue, builder, worker>>
      /\ main \notin Exiting
  BY DEF UpdateScene, Exiting
<1>1. {"scene", "ask", "frame"} \subseteq Stages \ (Exiting \cup {"cancel"})
  BY DEF Stages, Exiting
<1>2. scenes \in 0 .. MaxScenes /\ asking \in Askings /\ scene.bound \in Seq(Generations)
      /\ state \in [Generations -> States] /\ cancellation \in [Generations -> BOOLEAN]
  BY DEF TypeOK, Askings
<1>3. CASE ResolveScene
  <2>1. PICK global \in Environments \cup {None}, probes \in SUBSET Environments :
            LET named == (probes \cup {global}) \ {None}
            IN /\ asking' = [global |-> global, probes |-> probes, left |-> named]
               /\ main' = IF named = {} THEN "scene" ELSE "ask"
    BY <1>3 DEF ResolveScene
  <2>2. asking' \in Askings /\ main' \in {"scene", "ask"}
    BY <2>1 DEF Askings
  <2>3. scenes' \in 0 .. MaxScenes
    BY <1>2, <1>3, EnvironmentBounds DEF ResolveScene
  <2>. QED BY <1>0, <1>1, <1>3, <2>2, <2>3 DEF ResolveScene, SceneStep, requestVars, recordVars,
             queueVars
<1>4. CASE SceneWaits
  BY <1>0, <1>1, <1>2, <1>4 DEF SceneWaits, SceneStep, requestVars, recordVars, queueVars, holderVars
<1>5. CASE SceneFails
  BY <1>0, <1>1, <1>2, <1>5 DEF SceneFails, SceneStep, requestVars, recordVars, queueVars
<1>6. CASE FinalizeScene
  <2>1. Cancelling(scene.bound, "drop scene") /\ "drop scene" \in Thens
        /\ UNCHANGED <<state, cancellation, retireAfter, tableVars, cpuQueue>>
    BY <1>6 DEF FinalizeScene, Thens, requestVars
  <2>. QED BY <1>0, <1>2, <2>1 DEF CallStep, queueVars
<1>7. CASE PublishNativeScene
  BY <1>7 DEF PublishStep
<1>. QED BY <1>3, <1>4, <1>5, <1>6, <1>7 DEF UpdateScene

LEMMA DroppedIs ==
  ASSUME TypeOK, SupersedeScene \/ CancelSceneLoad \/ ResolveFails
  PROVE  SceneStep
<1>1. main' \in {"input", "frame"} /\ main \notin Exiting
  BY DEF SupersedeScene, CancelSceneLoad, ResolveFails, AtInput, Exiting
<1>2. {"input", "frame"} \subseteq Stages \ (Exiting \cup {"cancel"})
  BY DEF Stages, Exiting
<1>3. UNCHANGED <<clockVars, recordVars, tableVars, queueVars, builder, worker, cancelling,
                 pending, shown, world, retiredWorlds, drawVars>>
  BY DEF SupersedeScene, CancelSceneLoad, ResolveFails, requestVars, askFrame, recordVars, queueVars
<1>4. scene' \in {scene, NoScene, [scene EXCEPT !.phase = "failed"],
                 [NoScene EXCEPT !.phase = "loading"], [NoScene EXCEPT !.phase = "failed"]}
  BY DEF SupersedeScene, CancelSceneLoad, ResolveFails
<1>5. scenes' \in 0 .. MaxScenes /\ asking' \in Askings
  <2>1. NoQuestions \in Askings
    BY DEF NoQuestions, Askings
  <2>2. scenes \in 0 .. MaxScenes /\ asking \in Askings
    BY DEF TypeOK, Askings
  <2>3. scenes' = scenes /\ asking' \in {asking, NoQuestions}
    BY DEF SupersedeScene, CancelSceneLoad, ResolveFails, askFrame
  <2>. QED BY <2>1, <2>2, <2>3
<1>. QED BY <1>1, <1>2, <1>3, <1>4, <1>5 DEF SceneStep

LEMMA NextCases ==
  ASSUME Inv, [Next]_vars
  PROVE  \/ \E e \in Environments, reload \in BOOLEAN : QueueEnvironment(e, reload)
         \/ \E e \in Environments : RequestEnvironment(e) \/ Invalidate(e)
         \/ CallStep \/ SceneStep \/ PublishStep
         \/ PumpEnvironments \/ PrepareFrame \/ EndFrame \/ Worker
         \/ OtherStep
<1>0. TypeOK /\ CancelsAreRead
  BY DEF Inv, EnvironmentInvariant
<1>1. CASE User /\ ~ShutdownBegin
  <2>1. CASE (\E g \in Generations : CancelEnvironmentLoad(g)) \/ ClearEnvironment \/ CloseWorld
    <3>1. ASSUME NEW g \in Generations PROVE <<g>> \in Seq(Generations)
      OBVIOUS
    <3>2. LatestIfUnfinished \in Seq(Generations)
      <4>1. pending = None \/ pending \in Generations
        <5>1. pending \in 0 .. generations /\ generations \in 0 .. MaxGenerations
          BY <1>0 DEF TypeOK
        <5>. QED BY <5>1, EnvironmentBounds DEF Generations, None
      <4>. QED BY <3>1, <4>1, NothingIn DEF LatestIfUnfinished
    <3>3. \E gens \in Seq(Generations), then \in Thens : UserCancels(gens, then)
      BY <2>1, <3>1, <3>2 DEF CancelEnvironmentLoad, ClearEnvironment, CloseWorld, Thens
    <3>. QED BY <1>0, <3>3, UserCancelsIs
  <2>. QED BY <1>0, <1>1, <2>1, DroppedIs DEF User
<1>2. CASE AskForEnvironments
  <2>1. asking.left \subseteq Environments
    BY <1>0 DEF TypeOK
  <2>. QED BY <1>0, <1>2, <2>1, DroppedIs DEF AskForEnvironments
<1>3. CASE \/ WaitForFence \/ GpuFinish \/ UploadRuns
           \/ ShutdownBegin \/ ShutdownFinish \/ DeviceWaitIdle \/ DestroyWorlds
           \/ UNCHANGED vars
  <2>1. UNCHANGED <<state, retireAfter, lastUse, generations, queueVars, worker, cancelling,
                    scenes, asking>>
    BY <1>3 DEF WaitForFence, GpuFinish, UploadRuns, ShutdownBegin, ShutdownFinish, DeviceWaitIdle,
            DestroyWorlds, vars, recordVars, tableVars, holderVars
  <2>. QED BY <1>3, <2>1 DEF OtherStep
<1>. QED BY <1>0, <1>1, <1>2, <1>3, CancelIs, UpdateSceneIs DEF Next, MainLoop, Exited

-----------------------------------------------------------------------------
(* The clock, and what is drawn.                                           *)

LEMMA ClockStays ==
  ASSUME Inv, [Next]_vars
  PROVE  /\ ClockTypeOK' /\ ClockOrder' /\ completed <= completed' /\ submitted <= submitted'
         /\ ~EndFrame => UNCHANGED submitted
<1>0. /\ MaxSubmissions \in Nat
      /\ submitted \in 0 .. MaxSubmissions /\ finished \in 0 .. MaxSubmissions
      /\ completed \in 0 .. MaxSubmissions /\ completed <= finished /\ finished <= submitted
  BY SubmissionBound DEF Inv, EnvironmentInvariant, TypeOK, ClockTypeOK, ClockOrder, Serials
<1>. DEFINE Goal == /\ ClockTypeOK' /\ ClockOrder' /\ completed <= completed' /\ submitted <= submitted'
                    /\ ~EndFrame => UNCHANGED submitted
<1>1. CASE UNCHANGED clockVars
  BY <1>0, <1>1 DEF ClockTypeOK, ClockOrder, Serials, clockVars
<1>2. CASE Submit /\ EndFrame
  BY <1>0, <1>2 DEF ClockTypeOK, ClockOrder, Serials, Submit
<1>3. CASE Finish
  BY <1>0, <1>3 DEF ClockTypeOK, ClockOrder, Serials, Finish
<1>4. CASE Observe
  BY <1>0, <1>4 DEF ClockTypeOK, ClockOrder, Serials, Observe
<1>5. CASE DeviceWaitIdle
  BY <1>0, <1>5 DEF ClockTypeOK, ClockOrder, Serials, DeviceWaitIdle
<1>6. CASE EndFrame
  BY <1>1, <1>2, <1>6 DEF EndFrame
<1>7. CASE OtherStep
  <2>1. ShutdownBegin \/ ShutdownFinish \/ DestroyWorlds \/ UploadRuns \/ UNCHANGED vars => UNCHANGED clockVars
    BY DEF ShutdownBegin, ShutdownFinish, DestroyWorlds, UploadRuns, vars
  <2>2. (WaitForFence => Observe) /\ (GpuFinish => Finish)
    BY DEF WaitForFence, GpuFinish
  <2>. QED BY <1>1, <1>3, <1>4, <1>5, <1>7, <2>1, <2>2 DEF OtherStep
<1>8. CASE CallStep \/ SceneStep \/ PublishStep \/ PumpEnvironments \/ PrepareFrame \/ Worker
  <2>1. UNCHANGED clockVars
    <3>1. CASE Worker
      BY <3>1 DEF Worker, WorkerTakes, WorkerSkips, WorkerStarts, WorkerLoads, WorkerIsReady, WorkerExits,
                  workerFrame
    <3>2. CASE CallStep \/ SceneStep \/ PublishStep \/ PumpEnvironments \/ PrepareFrame
      BY <3>2 DEF CallStep, SceneStep, PublishStep, UpdateScene, PumpEnvironments, PrepareFrame
    <3>. QED BY <1>8, <3>1, <3>2
  <2>. QED BY <1>1, <2>1
<1>9. CASE (\E e \in Environments, reload \in BOOLEAN : QueueEnvironment(e, reload))
            \/ \E e \in Environments : RequestEnvironment(e) \/ Invalidate(e)
  <2>1. UNCHANGED clockVars
    BY <1>9 DEF QueueEnvironment, RequestEnvironment, Invalidate, askFrame
  <2>. QED BY <1>1, <2>1
<1>. QED BY <1>6, <1>7, <1>8, <1>9, NextCases

\* The lighting is left alone, and so is what the coordinator believes of it.
LightRests ==
  /\ UNCHANGED <<drawVars, lastUse>>
  /\ main' \notin {"stopping", "stopped", "idle"} =>
        main \notin {"stopping", "stopped", "idle"} /\ shown' = shown

\* Another environment is published, or none.
Relights ==
  /\ UNCHANGED lastUse
  /\ \E env \in 0 .. MaxGenerations :
       /\ PublishEnvironment(env) /\ shown' = env
       /\ env # None => env \in Generations /\ Loaded(env)' /\ Leased(env)
  /\ main \notin Exiting

\* The probes' environments are collected.
Reprobes ==
  /\ UpdateLighting /\ UNCHANGED <<lastUse, shown, clockVars, world>>
  /\ main \notin Exiting

LEMMA LessLights ==
  ASSUME HoldersLess, main \notin Exiting, UNCHANGED lastUse
  PROVE  LightRests \/ Relights
<1>1. CASE UNCHANGED <<drawVars, shown>>
  BY <1>1 DEF LightRests, Exiting
<1>2. CASE PublishEnvironment(None) /\ shown' = None
  BY <1>2, EnvironmentBounds DEF Relights, None
<1>. QED BY <1>1, <1>2 DEF HoldersLess

LEMMA CallIs ==
  ASSUME CallStep
  PROVE  /\ HoldersLess /\ main' \in {"input", "frame", "cancel"}
         /\ cancelling' \in [calls : Seq(Generations), idle : BOOLEAN, then : Thens]
BY CancellingIs DEF CallStep

LEMMA LightSteps ==
  ASSUME Inv, [Next]_vars
  PROVE  LightRests \/ Relights \/ Reprobes \/ EndFrame \/ DestroyWorlds
<1>0. TypeOK /\ SceneIsBound /\ \A g \in 1 .. generations : g \in Generations /\ g \in 0 .. MaxGenerations
  <2>1. TypeOK /\ SceneIsBound /\ generations \in 0 .. MaxGenerations
    BY DEF Inv, EnvironmentInvariant, TypeOK
  <2>. QED BY <2>1, EnvironmentBounds DEF Generations
<1>1. CASE CallStep
  <2>1. HoldersLess /\ main \notin Exiting /\ UNCHANGED lastUse
    BY <1>1, CallIs DEF CallStep
  <2>. QED BY <2>1, LessLights
<1>2. CASE SceneStep
  BY <1>2 DEF SceneStep, LightRests, Exiting, recordVars
<1>3. CASE PublishStep
  <2>1. /\ main = "scene" /\ UNCHANGED <<lastUse, state>>
        /\ PublishEnvironment(scene.global) /\ shown' = scene.global
        /\ \A g \in Range(scene.bound) : state[g] \in {"Ready", "Retiring"}
    BY <1>3 DEF PublishStep, UpdateScene, PublishNativeScene, SceneLighting, requestVars
  <2>2. scene \in Holders
    BY <1>0 DEF TypeOK, Holders
  <2>3. scene.global \in 0 .. MaxGenerations
    BY <2>2 DEF Holders
  <2>4. scene.global # None => scene.global \in Generations /\ state'[scene.global] \in {"Ready", "Retiring"}
    <3>1. scene.global # None => scene.global \in Generations
      BY <2>3, EnvironmentBounds DEF Generations, None
    <3>. QED BY <1>0, <2>1, <3>1 DEF SceneIsBound
  <2>5. PICK env \in 0 .. MaxGenerations : env = scene.global
    BY <2>3
  <2>6. /\ PublishEnvironment(env) /\ shown' = env
        /\ env # None => env \in Generations /\ Loaded(env)' /\ Leased(env)
    <3>1. env # None => env \in Generations /\ Leased(env)
      BY <1>0, <2>4, <2>5 DEF SceneIsBound, Leased
    <3>. QED BY <2>1, <2>4, <2>5, <3>1 DEF Loaded
  <2>. QED BY <2>1, <2>6 DEF Relights, Exiting
<1>4. CASE PumpEnvironments
  <2>1. main = "input" /\ UNCHANGED lastUse /\ UpdateEnvironmentLoading
    BY <1>4 DEF PumpEnvironments, AtInput
  <2>2. CASE pending # None /\ state'[pending] = "Ready"
    <3>1. PublishEnvironment(pending) /\ shown' = pending
      BY <2>1, <2>2 DEF UpdateEnvironmentLoading
    <3>2. pending \in Generations
      <4>1. pending \in 0 .. generations /\ generations \in 0 .. MaxGenerations
        BY <1>0 DEF TypeOK
      <4>. QED BY <2>2, <4>1, EnvironmentBounds DEF Generations, None
    <3>3. PICK env \in Generations : env = pending
      BY <3>2
    <3>4. /\ env \in 0 .. MaxGenerations /\ PublishEnvironment(env) /\ shown' = env
          /\ Loaded(env)' /\ Leased(env)
      BY <2>2, <3>1, <3>3, EnvironmentBounds DEF Loaded, Leased, Generations
    <3>. QED BY <2>1, <3>3, <3>4 DEF Relights, Exiting
  <2>3. CASE ~(pending # None /\ state'[pending] = "Ready")
    <3>1. UNCHANGED <<shown, drawVars>>
      BY <2>1, <2>3 DEF UpdateEnvironmentLoading
    <3>. QED BY <2>1, <3>1 DEF LightRests
  <2>. QED BY <2>2, <2>3
<1>5. CASE PrepareFrame
  <2>1. main = "frame" /\ UNCHANGED <<lastUse, clockVars, shown, world>> /\ (UpdateLighting \/ UNCHANGED drawVars)
    BY <1>5 DEF PrepareFrame, CollectRetired
  <2>. QED BY <2>1 DEF LightRests, Reprobes, Exiting
<1>6. CASE Worker
  BY <1>6 DEF Worker, WorkerTakes, WorkerSkips, WorkerStarts, WorkerLoads, WorkerIsReady, WorkerExits,
                  workerFrame, holderVars, LightRests
<1>7. CASE OtherStep /\ ~DestroyWorlds
  <2>1. WaitForFence \/ GpuFinish \/ UploadRuns \/ UNCHANGED vars => UNCHANGED <<drawVars, lastUse, main, shown>>
    BY DEF WaitForFence, GpuFinish, UploadRuns, vars, recordVars, holderVars
  <2>2. ShutdownBegin \/ ShutdownFinish \/ DeviceWaitIdle =>
          UNCHANGED <<drawVars, lastUse>> /\ main' \in {"stopping", "stopped", "idle"}
    BY DEF ShutdownBegin, ShutdownFinish, DeviceWaitIdle, recordVars
  <2>. QED BY <1>7, <2>1, <2>2 DEF LightRests, OtherStep
<1>8. CASE (\E e \in Environments, reload \in BOOLEAN : QueueEnvironment(e, reload))
            \/ \E e \in Environments : RequestEnvironment(e) \/ Invalidate(e)
  BY <1>8 DEF QueueEnvironment, RequestEnvironment, Invalidate, askFrame, LightRests, AtInput, holderVars
<1>. QED BY <1>1, <1>2, <1>3, <1>4, <1>5, <1>6, <1>7, <1>8, NextCases DEF OtherStep

\* Worlds are given up, or made of a scene whose environments are published.
LEMMA WorldSteps ==
  ASSUME Inv, [Next]_vars
  PROVE  /\ world' \in SUBSET Generations
         /\ \A g \in world' : g \in world \/ Loaded(g)
         /\ \/ retiredWorlds' \subseteq retiredWorlds
            \/ retiredWorlds' = RetiredWorlds
<1>0. TypeOK /\ SceneIsBound /\ world \in SUBSET Generations
  BY DEF Inv, EnvironmentInvariant, TypeOK
<1>1. CASE UNCHANGED <<world, retiredWorlds>>
  BY <1>0, <1>1
<1>2. CASE CallStep
  BY <1>0, <1>2, CallIs DEF HoldersLess
<1>3. CASE PublishStep
  <2>1. /\ world' = scene.probes /\ retiredWorlds' = RetiredWorlds
        /\ \A g \in Range(scene.bound) : state[g] \in {"Ready", "Retiring"}
    BY <1>3 DEF PublishStep, PublishNativeScene
  <2>2. scene.probes \in SUBSET Generations /\ scene.probes \subseteq Range(scene.bound)
    BY <1>0 DEF TypeOK, SceneIsBound
  <2>. QED BY <2>1, <2>2 DEF Loaded
<1>4. CASE SceneStep \/ PumpEnvironments \/ EndFrame
  BY <1>1, <1>4 DEF SceneStep, PumpEnvironments, EndFrame, holderVars
<1>5. CASE PrepareFrame
  BY <1>0, <1>5 DEF PrepareFrame, CollectRetired, Uncompleted
<1>6. CASE Worker
  BY <1>1, <1>6 DEF Worker, WorkerTakes, WorkerSkips, WorkerStarts, WorkerLoads, WorkerIsReady, WorkerExits,
                  workerFrame, holderVars
<1>7. CASE OtherStep
  <2>1. CASE DestroyWorlds
    BY <2>1 DEF DestroyWorlds
  <2>2. CASE ~DestroyWorlds
    <3>1. UNCHANGED <<world, retiredWorlds>>
      BY <1>7, <2>2 DEF OtherStep, WaitForFence, GpuFinish, UploadRuns, vars, ShutdownBegin, ShutdownFinish,
                    DeviceWaitIdle, holderVars
    <3>. QED BY <1>1, <3>1
  <2>. QED BY <2>1, <2>2
<1>8. CASE (\E e \in Environments, reload \in BOOLEAN : QueueEnvironment(e, reload))
            \/ \E e \in Environments : RequestEnvironment(e) \/ Invalidate(e)
  <2>1. UNCHANGED <<world, retiredWorlds>>
    BY <1>8 DEF QueueEnvironment, RequestEnvironment, Invalidate, askFrame, holderVars
  <2>. QED BY <1>1, <2>1
<1>. QED BY <1>2, <1>3, <1>4, <1>5, <1>6, <1>7, <1>8, NextCases

-----------------------------------------------------------------------------
(* What is drawn was published, and is remembered.                         *)

\* Somebody has it for the frames.
Remembered(g) ==
  \/ g \in Drawn(lighting)
  \/ \E l \in retiredLighting : g \in Drawn(l) /\ lastUse[g] <= l.after

LEMMA RetiredIs ==
  ASSUME NEW l
  PROVE  Retired(l).env = l.env /\ Retired(l).probes = l.probes /\ Retired(l).after = submitted
         /\ Drawn(Retired(l)) = Drawn(l)
<1>1. Retired(l).env = l.env /\ Retired(l).probes = l.probes /\ Retired(l).after = submitted
  BY DEF Retired
<1>. QED BY <1>1 DEF Drawn

LEMMA RelitIs ==
  ASSUME NEW env, PublishEnvironment(env)
  PROVE  /\ lighting'.env = env /\ lighting'.probes = lighting.probes
         /\ retiredLighting' = retiredLighting \cup {Retired(lighting)}
BY DEF PublishEnvironment, Relit

LEMMA ReprobedIs ==
  ASSUME TypeOK, UpdateLighting
  PROVE  /\ lighting'.env = lighting.env /\ lighting'.probes = {g \in world : kept'[g]}
         /\ retiredLighting' \subseteq retiredLighting \cup {Retired(lighting)}
         /\ \A l \in retiredLighting : l \in retiredLighting' \/ ~(l.after > completed)
         /\ \/ lighting'.probes = lighting.probes
            \/ Retired(lighting) \in retiredLighting'
            \/ ~(submitted > completed)
<1>. DEFINE probes == {g \in world : kept'[g]}
            old == IF probes = lighting.probes THEN {} ELSE {Retired(lighting)}
<1>1. /\ lighting' = [lighting EXCEPT !.probes = probes]
      /\ retiredLighting' = Uncompleted(retiredLighting \cup old)
  BY DEF UpdateLighting
<1>2. old \subseteq {Retired(lighting)} /\ (probes = lighting.probes \/ Retired(lighting) \in old)
  BY Zenon
<1>3. lighting \in Lightings
  BY DEF TypeOK
<1>. HIDE DEF probes, old
<1>4. lighting'.env = lighting.env /\ lighting'.probes = probes
  BY <1>1, <1>3 DEF Lightings
<1>5. /\ retiredLighting' \subseteq retiredLighting \cup {Retired(lighting)}
      /\ \A l \in retiredLighting : l \in retiredLighting' \/ ~(l.after > completed)
  BY <1>1, <1>2 DEF Uncompleted
<1>6. Retired(lighting) \in old => Retired(lighting) \in retiredLighting' \/ ~(submitted > completed)
  BY <1>1, RetiredIs DEF Uncompleted
<1>. QED BY <1>2, <1>4, <1>5, <1>6 DEF probes

LEMMA DrawnStays ==
  ASSUME Inv, [Next]_vars, Effects
  PROVE  DrawnIsLoaded'
<1>0. TypeOK /\ DrawnIsLoaded
  BY DEF Inv, EnvironmentInvariant
<1>1. \A g \in Generations : Loaded(g) => Loaded(g)'
  BY DEF Effects, LoadedStays
<1>2. \A g \in Generations : g \in world' => Loaded(g)'
  BY <1>0, <1>1, WorldSteps DEF DrawnIsLoaded
<1>. SUFFICES ASSUME NEW g \in Generations,
                     g \in Drawn(lighting') \/ \E l \in retiredLighting' : g \in Drawn(l)
              PROVE  Loaded(g) \/ Loaded(g)'
  BY <1>1, <1>2 DEF DrawnIsLoaded, Drawn
<1>3. CASE LightRests \/ EndFrame
  <2>1. UNCHANGED <<lighting, retiredLighting>>
    BY <1>3 DEF LightRests, EndFrame, drawVars
  <2>. QED BY <1>0, <2>1 DEF DrawnIsLoaded
<1>4. CASE Relights
  <2>1. PICK env \in 0 .. MaxGenerations :
          PublishEnvironment(env) /\ (env # None => env \in Generations /\ Loaded(env)')
    BY <1>4 DEF Relights
  <2>2. /\ lighting'.env = env /\ lighting'.probes = lighting.probes
        /\ retiredLighting' = retiredLighting \cup {Retired(lighting)}
    BY <2>1, RelitIs
  <2>3. CASE g \in Drawn(lighting')
    BY <1>0, <2>1, <2>2, <2>3 DEF Drawn, DrawnIsLoaded, Generations, None
  <2>4. CASE \E l \in retiredLighting' : g \in Drawn(l)
    BY <1>0, <2>2, <2>4, RetiredIs DEF DrawnIsLoaded
  <2>. QED BY <2>3, <2>4
<1>5. CASE Reprobes
  <2>1. /\ lighting'.env = lighting.env /\ lighting'.probes \subseteq world
        /\ retiredLighting' \subseteq retiredLighting \cup {Retired(lighting)}
    BY <1>0, <1>5, ReprobedIs DEF Reprobes
  <2>2. CASE g \in Drawn(lighting')
    BY <1>0, <2>1, <2>2 DEF Drawn, DrawnIsLoaded
  <2>3. CASE \E l \in retiredLighting' : g \in Drawn(l)
    BY <1>0, <2>1, <2>3, RetiredIs DEF DrawnIsLoaded
  <2>. QED BY <2>2, <2>3
<1>6. CASE DestroyWorlds
  <2>1. lighting'.env = None /\ lighting'.probes = {} /\ retiredLighting' = {}
    BY <1>6 DEF DestroyWorlds, Dark
  <2>. QED BY <2>1 DEF Drawn, Generations, None
<1>. QED BY <1>3, <1>4, <1>5, <1>6, LightSteps

LEMMA UsesStay ==
  ASSUME Inv, [Next]_vars
  PROVE  UsesRemembered'
<1>0. /\ TypeOK /\ UsesRemembered /\ ExitOrder
      /\ submitted \in Nat /\ completed \in Nat /\ submitted' \in Nat /\ completed' \in Nat
      /\ completed <= completed' /\ submitted <= submitted'
      /\ \A g \in Generations : lastUse[g] \in Nat
  <2>1. /\ TypeOK /\ ClockTypeOK' /\ ClockTypeOK /\ UsesRemembered /\ ExitOrder
        /\ completed <= completed' /\ submitted <= submitted'
        /\ lastUse \in [Generations -> Serials]
    BY ClockStays DEF Inv, EnvironmentInvariant, TypeOK
  <2>. QED BY <2>1, SubmissionBound DEF ClockTypeOK, Serials
<1>. SUFFICES ASSUME NEW g \in Generations
              PROVE  lastUse'[g] <= submitted' /\ (lastUse'[g] <= completed' \/ Remembered(g)')
  BY DEF UsesRemembered, Remembered
<1>1. lastUse[g] <= submitted /\ (lastUse[g] <= completed \/ Remembered(g))
  BY <1>0 DEF UsesRemembered, Remembered
<1>2. ASSUME UNCHANGED lastUse, Remembered(g) => lastUse[g] <= completed \/ Remembered(g)'
      PROVE  lastUse'[g] <= submitted' /\ (lastUse'[g] <= completed' \/ Remembered(g)')
  BY <1>0, <1>1, <1>2
<1>3. CASE LightRests
  <2>1. UNCHANGED <<lighting, retiredLighting, lastUse>>
    BY <1>3 DEF LightRests, drawVars
  <2>. QED BY <1>2, <2>1 DEF Remembered
<1>4. CASE Relights
  <2>1. retiredLighting' = retiredLighting \cup {Retired(lighting)} /\ UNCHANGED lastUse
    BY <1>4, RelitIs DEF Relights
  <2>2. g \in Drawn(lighting) => g \in Drawn(Retired(lighting)) /\ lastUse[g] <= Retired(lighting).after
    BY <1>1, RetiredIs
  <2>. QED BY <1>2, <2>1, <2>2 DEF Remembered
<1>5. CASE Reprobes
  <2>1. /\ lighting'.env = lighting.env
        /\ \A l \in retiredLighting : l \in retiredLighting' \/ ~(l.after > completed)
        /\ \/ lighting'.probes = lighting.probes
           \/ Retired(lighting) \in retiredLighting'
           \/ ~(submitted > completed)
        /\ UNCHANGED lastUse
    BY <1>0, <1>5, ReprobedIs DEF Reprobes
  <2>2. CASE g \in Drawn(lighting)
    <3>1. CASE lighting'.probes = lighting.probes
      BY <1>2, <2>1, <2>2, <3>1 DEF Remembered, Drawn
    <3>2. CASE Retired(lighting) \in retiredLighting'
      BY <1>1, <1>2, <2>1, <2>2, <3>2, RetiredIs DEF Remembered
    <3>3. CASE ~(submitted > completed)
      BY <1>0, <1>1, <1>2, <2>1, <3>3
    <3>. QED BY <2>1, <3>1, <3>2, <3>3
  <2>3. ASSUME NEW l \in retiredLighting, g \in Drawn(l), lastUse[g] <= l.after
        PROVE  lastUse[g] <= completed \/ Remembered(g)'
    <3>1. CASE l \in retiredLighting'
      BY <2>1, <2>3, <3>1 DEF Remembered
    <3>2. CASE ~(l.after > completed)
      <4>1. l.after \in Nat
        <5>1. retiredLighting \subseteq [env : 0 .. MaxGenerations, probes : SUBSET Generations,
                               after : Serials]
          BY <1>0 DEF TypeOK
        <5>. QED BY <5>1, SubmissionBound DEF Serials
      <4>. QED BY <1>0, <2>3, <3>2, <4>1
    <3>. QED BY <2>1, <3>1, <3>2
  <2>. QED BY <1>2, <2>1, <2>2, <2>3 DEF Remembered
<1>6. CASE EndFrame
  <2>1. UNCHANGED <<lighting, retiredLighting>>
    BY <1>6 DEF EndFrame, drawVars
  <2>2. CASE UNCHANGED lastUse
    BY <1>2, <2>1, <2>2 DEF Remembered
  <2>3. CASE lastUse' = [h \in Generations |-> IF h \in Drawn(lighting) THEN submitted' ELSE lastUse[h]]
    <3>1. CASE g \in Drawn(lighting)
      BY <1>0, <2>1, <2>3, <3>1 DEF Remembered
    <3>2. CASE g \notin Drawn(lighting)
      <4>1. lastUse'[g] = lastUse[g]
        BY <2>3, <3>2
      <4>2. Remembered(g) => Remembered(g)'
        BY <2>1, <4>1 DEF Remembered
      <4>. QED BY <1>0, <1>1, <4>1, <4>2
    <3>. QED BY <3>1, <3>2
  <2>. QED BY <1>6, <2>2, <2>3 DEF EndFrame
<1>7. CASE DestroyWorlds
  <2>1. UNCHANGED lastUse /\ main = "idle"
    BY <1>7 DEF DestroyWorlds
  <2>2. completed = submitted
    BY <1>0, <2>1 DEF ExitOrder
  <2>. QED BY <1>1, <1>2, <2>1, <2>2
<1>. QED BY <1>3, <1>4, <1>5, <1>6, <1>7, LightSteps

LEMMA AgreementStays ==
  ASSUME Inv, [Next]_vars
  PROVE  DrawnIsActive'
<1>0. TypeOK /\ DrawnIsActive
  BY DEF Inv, EnvironmentInvariant
<1>1. CASE LightRests
  BY <1>0, <1>1 DEF LightRests, DrawnIsActive, drawVars
<1>2. CASE Relights
  <2>1. PICK env \in 0 .. MaxGenerations : PublishEnvironment(env) /\ shown' = env
    BY <1>2 DEF Relights
  <2>. QED BY <2>1, RelitIs DEF DrawnIsActive
<1>3. CASE Reprobes
  <2>1. lighting'.env = lighting.env /\ shown' = shown /\ main \notin Exiting
    BY <1>0, <1>3, ReprobedIs DEF Reprobes
  <2>. QED BY <1>0, <2>1 DEF DrawnIsActive, Exiting
<1>4. CASE EndFrame
  BY <1>0, <1>4 DEF EndFrame, DrawnIsActive, drawVars, holderVars
<1>5. CASE DestroyWorlds
  <2>1. shown' = None /\ lighting'.env = None
    BY <1>5 DEF DestroyWorlds, Dark, Inv, EnvironmentInvariant, ExitOrder, Exiting
  <2>. QED BY <2>1 DEF DrawnIsActive
<1>. QED BY <1>1, <1>2, <1>3, <1>4, <1>5, LightSteps

-----------------------------------------------------------------------------
(* The scene and the exit.                                                 *)

LEMMA AskedIs ==
  ASSUME TypeOK, SceneIsBound, NEW e \in Environments, NEW g \in Generations,
         scene' = [scene EXCEPT !.bound = Append(@, g),
                                !.global = IF e = asking.global THEN g ELSE @,
                                !.probes = IF e \in asking.probes THEN @ \cup {g} ELSE @]
  PROVE  scene' \in Holders /\ SceneIsBound'
<1>1. scene \in Holders /\ g \in 0 .. MaxGenerations
  <2>1. scene \in Holders
    BY DEF TypeOK, Holders
  <2>. QED BY <2>1, EnvironmentBounds DEF Generations
<1>2. /\ Append(scene.bound, g) \in Seq(Generations)
      /\ Range(Append(scene.bound, g)) = Range(scene.bound) \cup {g}
  <2>1. scene.bound \in Seq(Generations)
    BY <1>1 DEF Holders
  <2>. QED BY <2>1, AppendedOnce
<1>. DEFINE n == IF e = asking.global THEN g ELSE scene.global
            p == IF e \in asking.probes THEN scene.probes \cup {g} ELSE scene.probes
            b == Append(scene.bound, g)
<1>3. n \in {g, scene.global} /\ p \subseteq scene.probes \cup {g}
  OBVIOUS
<1>4. scene' = [scene EXCEPT !.bound = b, !.global = n, !.probes = p]
  BY <1>1 DEF Holders
<1>. HIDE DEF n, p, b
<1>5. scene'.bound = b /\ scene'.global = n /\ scene'.probes = p
  BY <1>1, <1>4 DEF Holders
<1>6. n \in 0 .. MaxGenerations /\ p \in SUBSET Generations /\ b \in Seq(Generations)
  BY <1>1, <1>2, <1>3 DEF Holders, b
<1>7. scene' \in Holders
  BY <1>1, <1>4, <1>6 DEF Holders
<1>8. Range(b) = Range(scene.bound) \cup {g}
  BY <1>2 DEF b
<1>9. SceneIsBound'
  BY <1>3, <1>5, <1>8 DEF SceneIsBound
<1>. QED BY <1>7, <1>9

\* A scene is left alone, dropped, failed or begun, and otherwise asks.
LEMMA SceneSteps ==
  ASSUME Inv, [Next]_vars
  PROVE  scene' \in Holders /\ SceneIsBound'
<1>0. TypeOK /\ SceneIsBound /\ scene \in Holders
  BY DEF Inv, EnvironmentInvariant, TypeOK, Holders
<1>. DEFINE Fresh(s) == s \in {scene, NoScene, [scene EXCEPT !.phase = "failed"],
                 [NoScene EXCEPT !.phase = "loading"], [NoScene EXCEPT !.phase = "failed"]}
<1>1. ASSUME Fresh(scene') PROVE scene' \in Holders /\ SceneIsBound'
  <2>1. <<>> \in Seq(Generations) /\ 0 \in 0 .. MaxGenerations
    BY EnvironmentBounds, NothingIn
  <2>2. CASE scene' \in {NoScene, [NoScene EXCEPT !.phase = "loading"], [NoScene EXCEPT !.phase = "failed"]}
    <3>1. scene' \in Holders
      <4>. DEFINE E == <<>>
      <4>1. E \in Seq(Generations) /\ NoScene = [phase |-> "none", bound |-> E, global |-> 0, probes |-> {}]
        BY <2>1 DEF NoScene, None
      <4>. HIDE DEF E
      <4>2. NoScene \in Holders
        BY <2>1, <4>1 DEF Holders
      <4>. QED BY <2>2, <4>2 DEF Holders
    <3>2. scene'.global = None /\ scene'.probes = {}
      BY <2>2 DEF NoScene
    <3>. QED BY <3>1, <3>2 DEF SceneIsBound
  <2>3. CASE scene' \in {scene, [scene EXCEPT !.phase = "failed"]}
    <3>1. scene' \in Holders /\ scene'.bound = scene.bound /\ scene'.global = scene.global
          /\ scene'.probes = scene.probes
      BY <1>0, <2>3 DEF Holders
    <3>. QED BY <1>0, <3>1 DEF SceneIsBound
  <2>. QED BY <1>1, <2>2, <2>3
<1>2. ASSUME UNCHANGED scene PROVE scene' \in Holders /\ SceneIsBound'
  BY <1>1, <1>2
<1>3. CASE CallStep
  <2>1. Fresh(scene')
    BY <1>3, CallIs DEF HoldersLess
  <2>. QED BY <1>1, <2>1
<1>4. CASE SceneStep
  <2>1. Fresh(scene')
    BY <1>4 DEF SceneStep
  <2>. QED BY <1>1, <2>1
<1>5. CASE PublishStep \/ DestroyWorlds
  <2>1. scene' = NoScene
    BY <1>5 DEF PublishStep, PublishNativeScene, DestroyWorlds
  <2>. QED BY <1>1, <2>1
<1>6. CASE PumpEnvironments \/ PrepareFrame \/ EndFrame
  <2>1. UNCHANGED scene
    BY <1>6 DEF PumpEnvironments, PrepareFrame, CollectRetired, EndFrame, holderVars
  <2>. QED BY <1>2, <2>1
<1>7. CASE Worker
  <2>1. UNCHANGED scene
    BY <1>7 DEF Worker, WorkerTakes, WorkerSkips, WorkerStarts, WorkerLoads, WorkerIsReady, WorkerExits,
                  workerFrame, holderVars
  <2>. QED BY <1>2, <2>1
<1>8. CASE OtherStep /\ ~DestroyWorlds
  <2>1. UNCHANGED scene
    BY <1>8 DEF OtherStep, WaitForFence, GpuFinish, UploadRuns, vars, ShutdownBegin, ShutdownFinish,
                    DeviceWaitIdle, holderVars
  <2>. QED BY <1>2, <2>1
<1>9. CASE (\E e \in Environments, reload \in BOOLEAN : QueueEnvironment(e, reload))
            \/ \E e \in Environments : Invalidate(e)
  <2>1. UNCHANGED scene
    BY <1>9 DEF QueueEnvironment, Invalidate, holderVars
  <2>. QED BY <1>2, <2>1
<1>10. CASE \E e \in Environments : RequestEnvironment(e)
  <2>1. PICK e \in Environments : RequestEnvironment(e)
    BY <1>10
  <2>2. \E g \in Generations :
           scene' = [scene EXCEPT !.bound = Append(@, g),
                                  !.global = IF e = asking.global THEN g ELSE @,
                                  !.probes = IF e \in asking.probes THEN @ \cup {g} ELSE @]
    BY <2>1, AskEffects
  <2>. QED BY <1>0, <2>2, AskedIs
<1>. QED BY <1>3, <1>4, <1>5, <1>6, <1>7, <1>8, <1>9, <1>10, NextCases

LEMMA ExitOrderStays ==
  ASSUME Inv, [Next]_vars, Effects
  PROVE  ExitOrder'
<1>0. ExitOrder
  BY DEF Inv, EnvironmentInvariant
<1>1. CASE main \in Exiting
  <2>1. /\ ~CallStep /\ ~SceneStep /\ ~PublishStep /\ ~PumpEnvironments /\ ~PrepareFrame /\ ~EndFrame
        /\ \A e \in Environments : /\ ~RequestEnvironment(e) /\ ~Invalidate(e)
                                   /\ \A reload \in BOOLEAN : ~QueueEnvironment(e, reload)
    BY <1>1 DEF CallStep, SceneStep, PublishStep, UpdateScene, PumpEnvironments, PrepareFrame, EndFrame,
                RequestEnvironment, Invalidate, QueueEnvironment, AtInput, Exiting
  <2>2. CASE Worker \/ UploadRuns \/ UNCHANGED vars
    <3>1. UNCHANGED <<main, pending, shown, active, inactive, completed, submitted, lighting>>
      <4>1. CASE Worker
        BY <4>1 DEF Worker, WorkerTakes, WorkerSkips, WorkerStarts, WorkerLoads, WorkerIsReady, WorkerExits,
                  workerFrame, holderVars, tableVars, clockVars, drawVars
      <4>2. CASE UploadRuns \/ UNCHANGED vars
        BY <4>2 DEF UploadRuns, vars, holderVars, tableVars, clockVars, drawVars
      <4>. QED BY <2>2, <4>1, <4>2
    <3>. QED BY <1>0, <3>1 DEF ExitOrder, Held
  <2>3. CASE GpuFinish
    BY <1>0, <2>3 DEF GpuFinish, Finish, holderVars, tableVars, drawVars, ExitOrder, Held
  <2>4. CASE WaitForFence \/ ShutdownBegin
    BY <1>1, <2>4 DEF WaitForFence, ShutdownBegin, AtInput, Exiting
  <2>5. CASE ShutdownFinish
    <3>1. main' = "stopped" /\ Held' = {} /\ pending' = None /\ shown' = None
      BY <1>0, <1>1, <2>5 DEF ShutdownFinish, Held, holderVars, ExitOrder
    <3>. QED BY <3>1 DEF ExitOrder
  <2>6. CASE DeviceWaitIdle
    BY <1>0, <1>1, <2>6 DEF DeviceWaitIdle, tableVars, holderVars, drawVars, ExitOrder, Held
  <2>7. CASE DestroyWorlds
    BY <1>0, <1>1, <2>7 DEF DestroyWorlds, tableVars, holderVars, drawVars, clockVars, ExitOrder, Held
  <2>. QED BY <2>1, <2>2, <2>3, <2>4, <2>5, <2>6, <2>7, NextCases DEF OtherStep
<1>2. CASE main \notin Exiting /\ ShutdownBegin
  BY <1>2 DEF ShutdownBegin, ExitOrder
<1>3. CASE main \notin Exiting /\ ~ShutdownBegin
  <2>1. main' \notin Exiting
    <3>1. CASE CallStep
      BY <3>1, CallIs DEF Exiting
    <3>2. CASE SceneStep \/ PublishStep \/ PumpEnvironments \/ PrepareFrame \/ EndFrame
      BY <1>3, <3>2 DEF SceneStep, PublishStep, PublishNativeScene, PumpEnvironments, PrepareFrame, EndFrame, Exiting
    <3>3. CASE Worker
      BY <1>3, <3>3 DEF Worker, WorkerTakes, WorkerSkips, WorkerStarts, WorkerLoads, WorkerIsReady, WorkerExits,
                  workerFrame
    <3>4. CASE OtherStep
      BY <1>3, <3>4 DEF OtherStep, WaitForFence, GpuFinish, UploadRuns, vars, ShutdownFinish,
                    DeviceWaitIdle, DestroyWorlds, Exiting
    <3>5. CASE (\E e \in Environments, reload \in BOOLEAN : QueueEnvironment(e, reload))
            \/ \E e \in Environments : RequestEnvironment(e) \/ Invalidate(e)
      BY <1>3, <3>5 DEF QueueEnvironment, RequestEnvironment, Invalidate, Exiting
    <3>. QED BY <3>1, <3>2, <3>3, <3>4, <3>5, NextCases
  <2>. QED BY <2>1 DEF ExitOrder, Exiting
<1>. QED BY <1>1, <1>2, <1>3

-----------------------------------------------------------------------------
(* The types, in four parts.                                               *)

PartsOK ==
  /\ kept \in [Generations -> BOOLEAN]
  /\ lastUse \in [Generations -> Serials]
  /\ gpuQueue \in Seq(Generations)
  /\ builder \in Builders
  /\ worker \in [gen : 0 .. MaxGenerations,
                at : {"waiting", "skip", "prepare", "load", "ready", "exited"}]
  /\ main \in Stages
  /\ cancelling \in [calls : Seq(Generations), idle : BOOLEAN, then : Thens]

HoldersOK ==
  /\ pending \in 0 .. generations /\ shown \in 0 .. generations
  /\ scenes \in 0 .. MaxScenes
  /\ asking \in Askings
  /\ retiredWorlds \subseteq [probes : SUBSET Generations, after : Serials]

LightsOK ==
  /\ lighting \in Lightings
  /\ retiredLighting \subseteq [env : 0 .. MaxGenerations, probes : SUBSET Generations,
                               after : Serials]

LEMMA TablesStay ==
  ASSUME Inv, [Next]_vars
  PROVE  TablesOK'
<1>0. TypeOK /\ StagesAgree /\ TablesOK
  BY DEF Inv, EnvironmentInvariant, TypeOK, TablesOK
<1>1. CASE CallStep
  BY <1>0, <1>1 DEF CallStep, tableVars, queueVars, TablesOK
<1>2. CASE SceneStep \/ PublishStep \/ EndFrame
  <2>1. UNCHANGED <<state, cancellation, retireAfter, generations, active, inactive, cpuQueue>>
    BY <1>2 DEF SceneStep, PublishStep, PublishNativeScene, EndFrame, requestVars, recordVars, tableVars, queueVars
  <2>. QED BY <1>0, <2>1 DEF TablesOK
<1>3. CASE PumpEnvironments
  BY <1>0, <1>3, PumpIs DEF PumpEnvironments, tableVars, TablesOK, Inv, EnvironmentInvariant
<1>4. CASE PrepareFrame
  <2>1. /\ state' \in [Generations -> States] /\ cancellation' \in [Generations -> BOOLEAN]
        /\ retireAfter' \in [Generations -> Serials]
        /\ active' \in [Environments -> 0 .. generations] /\ inactive' \subseteq inactive
        /\ UNCHANGED <<generations, cpuQueue>>
    BY <1>0, <1>4, ReleaseIs DEF PrepareFrame, queueVars
  <2>. QED BY <1>0, <2>1 DEF TablesOK
<1>5. CASE Worker
  <2>1. UNCHANGED <<cancellation, retireAfter, generations, active, inactive>>
    BY <1>5 DEF Worker, WorkerTakes, WorkerSkips, WorkerStarts, WorkerLoads, WorkerIsReady, WorkerExits,
         workerFrame, tableVars
  <2>2. state' = state \/ \E s \in {"Cancelled", "PreparingCpu", "Failed", "ReadyForUpload"} :
                             state' = [state EXCEPT ![worker.gen] = s]
    BY <1>5 DEF Worker, WorkerTakes, WorkerSkips, WorkerStarts, WorkerLoads, WorkerIsReady, WorkerExits, Store
  <2>3. {"Cancelled", "PreparingCpu", "Failed", "ReadyForUpload"} \subseteq States
    BY DEF States, LoadingStates
  <2>4. state' \in [Generations -> States]
    BY <1>0, <2>2, <2>3 DEF TablesOK
  <2>5. cpuQueue' = cpuQueue \/ (cpuQueue # <<>> /\ cpuQueue' = Tail(cpuQueue))
    BY <1>5 DEF Worker, WorkerTakes, WorkerSkips, WorkerStarts, WorkerLoads, WorkerIsReady, WorkerExits
  <2>6. cpuQueue' \in Seq(Generations)
    <3>1. cpuQueue \in Seq(Generations)
      BY <1>0, Zenon DEF TablesOK
    <3>2. cpuQueue # <<>> => Tail(cpuQueue) \in Seq(Generations)
      BY <3>1, TailOnce
    <3>. QED BY <2>5, <3>1, <3>2, Zenon
  <2>. QED BY <1>0, <2>1, <2>4, <2>6 DEF TablesOK
<1>6. CASE OtherStep
  <2>1. UNCHANGED <<state, retireAfter, generations, cpuQueue>>
    BY <1>6 DEF OtherStep, queueVars
  <2>2. CASE ShutdownBegin
    <3>1. UNCHANGED <<active, inactive>> /\ cancellation' = [g \in Generations |-> cancellation[g] \/ g \in Held]
      BY <2>2 DEF ShutdownBegin, tableVars
    <3>2. cancellation' \in [Generations -> BOOLEAN]
      BY <3>1
    <3>. QED BY <1>0, <2>1, <3>1, <3>2 DEF TablesOK
  <2>3. CASE ShutdownFinish
    <3>1. UNCHANGED cancellation /\ active' = [e \in Environments |-> None] /\ inactive' = {}
      BY <2>3 DEF ShutdownFinish
    <3>2. None \in 0 .. generations
      <4>1. generations \in 0 .. MaxGenerations
        BY <1>0 DEF TablesOK
      <4>. QED BY <4>1, EnvironmentBounds DEF None
    <3>. QED BY <1>0, <2>1, <3>1, <3>2 DEF TablesOK
  <2>4. CASE ~ShutdownBegin /\ ~ShutdownFinish
    <3>1. UNCHANGED <<cancellation, active, inactive>>
      BY <1>6, <2>4 DEF OtherStep, WaitForFence, GpuFinish, UploadRuns, vars, DeviceWaitIdle, DestroyWorlds,
                        recordVars, tableVars
    <3>. QED BY <1>0, <2>1, <3>1 DEF TablesOK
  <2>. QED BY <2>2, <2>3, <2>4
<1>7. ASSUME NEW e \in Environments, Invalidate(e) PROVE TablesOK'
  BY <1>0, <1>7, InvalidatedIs DEF Invalidate
<1>. QED BY <1>1, <1>2, <1>3, <1>4, <1>5, <1>6, <1>7, NextCases, QueueEffects, AskEffects

LEMMA PartsStay ==
  ASSUME Inv, [Next]_vars
  PROVE  PartsOK'
<1>0. TypeOK /\ StagesAgree /\ PartsOK
  BY DEF Inv, EnvironmentInvariant, TypeOK, PartsOK, Thens
<1>1. Exiting \subseteq Stages
      /\ {"input", "cancel", "scene", "ask", "frame", "submit", "stopping", "stopped", "idle", "exited"} \subseteq Stages
  BY DEF Stages, Exiting
<1>2. CASE CallStep
  BY <1>0, <1>1, <1>2, CallIs DEF CallStep, queueVars, PartsOK
<1>3. CASE SceneStep \/ PublishStep
  <2>1. UNCHANGED <<kept, lastUse, gpuQueue, builder, worker, cancelling>> /\ main' \in Stages
    BY <1>1, <1>3 DEF SceneStep, PublishStep, UpdateScene, PublishNativeScene, recordVars, queueVars
  <2>. QED BY <1>0, <2>1 DEF PartsOK
<1>4. CASE PumpEnvironments
  <2>1. /\ kept' \in [Generations -> BOOLEAN] /\ gpuQueue' \in Seq(Generations) /\ builder' \in Builders
    BY <1>0, <1>4, PumpIs DEF PumpEnvironments, Inv, EnvironmentInvariant
  <2>2. UNCHANGED <<lastUse, worker, cancelling>> /\ main' = "scene"
    BY <1>4 DEF PumpEnvironments
  <2>. QED BY <1>0, <1>1, <2>1, <2>2 DEF PartsOK
<1>5. CASE PrepareFrame
  <2>1. kept' \in [Generations -> BOOLEAN]
    BY <1>0, <1>5, ReleaseIs DEF PrepareFrame
  <2>2. UNCHANGED <<lastUse, gpuQueue, builder, worker, cancelling>> /\ main' \in {"submit", "input"}
    BY <1>5 DEF PrepareFrame, queueVars
  <2>. QED BY <1>0, <1>1, <2>1, <2>2 DEF PartsOK
<1>6. CASE EndFrame
  <2>1. UNCHANGED <<kept, gpuQueue, builder, worker, cancelling>> /\ main' = "input"
    BY <1>6 DEF EndFrame, queueVars
  <2>2. lastUse' \in [Generations -> Serials]
    <3>1. submitted' \in Serials
      BY ClockStays DEF ClockTypeOK
    <3>2. \/ lastUse' = lastUse
          \/ lastUse' = [g \in Generations |-> IF g \in Drawn(lighting) THEN submitted' ELSE lastUse[g]]
      BY <1>6 DEF EndFrame
    <3>. QED BY <1>0, <3>1, <3>2 DEF PartsOK
  <2>. QED BY <1>0, <1>1, <2>1, <2>2 DEF PartsOK
<1>7. CASE Worker
  <2>1. UNCHANGED <<kept, lastUse, builder, main, cancelling>>
    BY <1>7 DEF Worker, WorkerTakes, WorkerSkips, WorkerStarts, WorkerLoads, WorkerIsReady, WorkerExits,
         workerFrame
  <2>2. 0 \in 0 .. MaxGenerations /\ Generations \subseteq 0 .. MaxGenerations
    BY EnvironmentBounds DEF Generations
  <2>3. worker' \in [gen : 0 .. MaxGenerations,
                    at : {"waiting", "skip", "prepare", "load", "ready", "exited"}]
    <3>1. CASE WorkerTakes
      <4>1. Head(cpuQueue) \in Generations
        BY <1>0, <3>1, TailOnce DEF WorkerTakes, TypeOK
      <4>. QED BY <2>2, <3>1, <4>1 DEF WorkerTakes
    <3>2. CASE worker' = IdleWorker \/ \E at \in {"load", "ready", "exited"} : worker' = [worker EXCEPT !.at = at]
      BY <1>0, <2>2, <3>2, SMTT(30) DEF IdleWorker, None, PartsOK
    <3>. QED BY <1>7, <3>1, <3>2 DEF Worker, WorkerSkips, WorkerStarts, WorkerLoads, WorkerIsReady, WorkerExits, Move
  <2>4. gpuQueue' \in Seq(Generations)
    <3>1. CASE WorkerIsReady
      <4>1. worker.gen \in Generations
        <5>1. worker.gen \in 0 .. MaxGenerations /\ worker.gen # None
          BY <1>0, <3>1 DEF WorkerIsReady, Working, PartsOK, StagesAgree
        <5>. QED BY <5>1, EnvironmentBounds DEF Generations, None
      <4>2. gpuQueue \in Seq(Generations) /\ gpuQueue' = Append(gpuQueue, worker.gen)
        BY <1>0, <3>1 DEF WorkerIsReady, PartsOK
      <4>. QED BY <4>1, <4>2, AppendedOnce
    <3>2. CASE ~WorkerIsReady
      BY <1>0, <1>7, <3>2 DEF Worker, WorkerTakes, WorkerSkips, WorkerStarts, WorkerLoads, WorkerExits, PartsOK
    <3>. QED BY <3>1, <3>2
  <2>. QED BY <1>0, <2>1, <2>3, <2>4 DEF PartsOK
<1>8. CASE OtherStep
  <2>1. UNCHANGED <<lastUse, gpuQueue, worker, cancelling>>
    BY <1>8 DEF OtherStep, queueVars
  <2>2. main' \in Stages
    BY <1>0, <1>1, <1>8 DEF OtherStep, WaitForFence, GpuFinish, UploadRuns, vars, ShutdownBegin, ShutdownFinish,
             DeviceWaitIdle, DestroyWorlds, PartsOK
  <2>3. kept' \in [Generations -> BOOLEAN]
    <3>1. CASE ShutdownFinish
      BY <1>0, <3>1 DEF ShutdownFinish, PartsOK
    <3>2. CASE DestroyWorlds
      BY <3>2 DEF DestroyWorlds
    <3>3. CASE ~ShutdownFinish /\ ~DestroyWorlds
      BY <1>0, <1>8, <3>3 DEF OtherStep, WaitForFence, GpuFinish, UploadRuns, vars, ShutdownBegin,
             DeviceWaitIdle, recordVars, PartsOK
    <3>. QED BY <3>1, <3>2, <3>3
  <2>4. builder' \in Builders
    <3>1. CASE ShutdownFinish
      <4>1. 0 \in 0 .. MaxGenerations /\ 0 \in 0 .. ImageCount
        BY EnvironmentBounds
      <4>. QED BY <3>1, <4>1 DEF ShutdownFinish, NoBuilder, Builders, BuilderPhases, None
    <3>2. CASE UploadRuns
      BY <1>0, <3>2 DEF UploadRuns, PartsOK, Builders
    <3>3. CASE ~ShutdownFinish /\ ~UploadRuns
      BY <1>0, <1>8, <3>3 DEF OtherStep, WaitForFence, GpuFinish, vars, ShutdownBegin,
             DeviceWaitIdle, DestroyWorlds, PartsOK
    <3>. QED BY <3>1, <3>2, <3>3
  <2>. QED BY <2>1, <2>2, <2>3, <2>4, <1>0 DEF PartsOK
<1>9. CASE (\E e \in Environments, reload \in BOOLEAN : QueueEnvironment(e, reload))
            \/ \E e \in Environments : RequestEnvironment(e) \/ Invalidate(e)
  <2>1. UNCHANGED <<kept, lastUse, gpuQueue, builder, worker, cancelling>>
    BY <1>9 DEF QueueEnvironment, RequestEnvironment, Invalidate, askFrame
  <2>2. main' \in {main, "frame", "ask"}
    BY <1>9 DEF QueueEnvironment, RequestEnvironment, Invalidate
  <2>. QED BY <1>0, <1>1, <2>1, <2>2 DEF PartsOK
<1>. QED BY <1>2, <1>3, <1>4, <1>5, <1>6, <1>7, <1>8, <1>9, NextCases

LEMMA HoldersStay ==
  ASSUME Inv, [Next]_vars
  PROVE  HoldersOK'
<1>0. /\ TypeOK /\ ExitOrder /\ HoldersOK
      /\ generations \in Nat /\ generations' \in Nat /\ generations <= generations'
      /\ submitted \in Serials /\ world \in SUBSET Generations
  <2>1. generations \in 0 .. MaxGenerations /\ submitted \in Serials
    BY DEF Inv, EnvironmentInvariant, TypeOK, ClockTypeOK
  <2>2. TypeOK /\ ExitOrder /\ HoldersOK /\ world \in SUBSET Generations
    BY DEF Inv, EnvironmentInvariant, TypeOK, HoldersOK, Askings
  <2>. QED BY <2>1, <2>2, EnvironmentBounds, GenerationsGrow
<1>1. retiredWorlds' \subseteq [probes : SUBSET Generations, after : Serials]
  <2>1. \A w \in RetiredWorlds : w \in retiredWorlds \/ w = [probes |-> world, after |-> submitted]
    <3>1. RetiredWorlds = retiredWorlds
          \/ RetiredWorlds = retiredWorlds \cup {[probes |-> world, after |-> submitted]}
      BY Zenon DEF RetiredWorlds
    <3>. QED BY <3>1, Zenon
  <2>2. [probes |-> world, after |-> submitted] \in [probes : SUBSET Generations, after : Serials]
    BY <1>0
  <2>3. retiredWorlds \subseteq [probes : SUBSET Generations, after : Serials]
    BY <1>0 DEF HoldersOK
  <2>4. RetiredWorlds \subseteq [probes : SUBSET Generations, after : Serials]
    BY <2>1, <2>2, <2>3, Zenon
  <2>. QED BY <2>3, <2>4, WorldSteps
<1>. DEFINE Scenes == scenes' \in 0 .. MaxScenes /\ asking' \in Askings
            Users == pending' \in 0 .. generations' /\ shown' \in 0 .. generations'
<1>2. 0 \in 0 .. generations' /\ \A n \in 0 .. generations : n \in 0 .. generations'
  BY <1>0
<1>3. ASSUME pending' \in {pending, None}, shown' \in {shown, None, pending} PROVE Users
  BY <1>0, <1>2, <1>3 DEF HoldersOK, None
<1>4. ASSUME UNCHANGED <<scenes, asking>> PROVE Scenes
  BY <1>0, <1>4 DEF HoldersOK
<1>5. CASE CallStep
  <2>1. pending' \in {pending, None} /\ shown' \in {shown, None} /\ UNCHANGED <<scenes, asking>>
    BY <1>5, CallIs DEF HoldersLess
  <2>. QED BY <1>1, <1>3, <1>4, <2>1 DEF HoldersOK
<1>6. CASE SceneStep
  <2>1. Scenes /\ UNCHANGED <<pending, shown>>
    BY <1>6 DEF SceneStep
  <2>. QED BY <1>1, <1>3, <2>1 DEF HoldersOK
<1>7. CASE PublishStep
  <2>1. shown' = scene.global /\ UNCHANGED <<pending, scenes, asking>>
        /\ \A g \in Range(scene.bound) : state[g] \in {"Ready", "Retiring"}
    BY <1>7 DEF PublishStep, PublishNativeScene
  <2>2. scene.global = None \/ scene.global \in 1 .. generations
    <3>1. scene \in Holders
      BY <1>0 DEF TypeOK, Holders
    <3>2. scene.global # None => scene.global \in Generations /\ state[scene.global] # "Unloaded"
      BY <2>1, <3>1, EnvironmentBounds DEF Holders, Generations, None, Inv, EnvironmentInvariant, SceneIsBound
    <3>3. \A g \in Generations : g > generations => state[g] = "Unloaded"
      BY DEF Inv, EnvironmentInvariant, StagesAgree
    <3>4. scene.global # None => ~(scene.global > generations)
      BY <3>2, <3>3
    <3>. QED BY <1>0, <3>2, <3>4, EnvironmentBounds DEF Generations
  <2>3. Users
    BY <1>0, <1>2, <2>1, <2>2 DEF HoldersOK, None
  <2>. QED BY <1>1, <1>4, <2>1, <2>3 DEF HoldersOK
<1>8. CASE PumpEnvironments
  <2>1. pending' \in {pending, None} /\ shown' \in {shown, pending} /\ UNCHANGED <<scenes, asking>>
    BY <1>8 DEF PumpEnvironments, UpdateEnvironmentLoading
  <2>. QED BY <1>1, <1>3, <1>4, <2>1 DEF HoldersOK
<1>9. CASE PrepareFrame \/ EndFrame
  <2>1. UNCHANGED <<pending, shown, scenes, asking>>
    BY <1>9 DEF PrepareFrame, CollectRetired, EndFrame, holderVars
  <2>. QED BY <1>1, <1>3, <1>4, <2>1 DEF HoldersOK
<1>10. CASE Worker
  <2>1. UNCHANGED <<pending, shown, scenes, asking>>
    BY <1>10 DEF Worker, WorkerTakes, WorkerSkips, WorkerStarts, WorkerLoads, WorkerIsReady, WorkerExits,
         workerFrame, holderVars
  <2>. QED BY <1>1, <1>3, <1>4, <2>1 DEF HoldersOK
<1>11. CASE OtherStep
  <2>1. UNCHANGED <<scenes, asking>>
    BY <1>11 DEF OtherStep
  <2>2. pending' \in {pending, None} /\ shown' \in {shown, None}
    BY <1>11 DEF OtherStep, WaitForFence, GpuFinish, UploadRuns, vars, ShutdownBegin, ShutdownFinish,
             DeviceWaitIdle, DestroyWorlds, holderVars
  <2>. QED BY <1>1, <1>3, <1>4, <2>1, <2>2 DEF HoldersOK
<1>12. ASSUME NEW e \in Environments, NEW reload \in BOOLEAN, QueueEnvironment(e, reload) PROVE HoldersOK'
  <2>1. pending' \in 1 .. generations' /\ UNCHANGED <<shown, scenes, asking>>
    BY <1>12, QueueEffects DEF QueueEnvironment
  <2>2. Users
    BY <1>0, <1>2, <2>1 DEF HoldersOK
  <2>. QED BY <1>1, <1>4, <2>1, <2>2 DEF HoldersOK
<1>13. ASSUME NEW e \in Environments, RequestEnvironment(e) PROVE HoldersOK'
  <2>1. UNCHANGED <<pending, shown, scenes>> /\ asking' \in {NoQuestions, [asking EXCEPT !.left = @ \ {e}]}
    BY <1>13 DEF RequestEnvironment, askFrame
  <2>2. asking' \in Askings
    BY <1>0, <2>1 DEF NoQuestions, Askings, HoldersOK
  <2>3. Users /\ scenes' \in 0 .. MaxScenes
    BY <1>0, <1>3, <2>1 DEF HoldersOK
  <2>. QED BY <1>1, <2>2, <2>3 DEF HoldersOK
<1>14. ASSUME NEW e \in Environments, Invalidate(e) PROVE HoldersOK'
  <2>1. UNCHANGED <<pending, shown, scenes, asking>>
    BY <1>14 DEF Invalidate, holderVars
  <2>. QED BY <1>1, <1>3, <1>4, <2>1 DEF HoldersOK
<1>. QED BY <1>5, <1>6, <1>7, <1>8, <1>9, <1>10, <1>11, <1>12, <1>13, <1>14, NextCases

LEMMA LightsStay ==
  ASSUME Inv, [Next]_vars
  PROVE  LightsOK'
<1>0. TypeOK /\ LightsOK /\ submitted \in Serials /\ world \in SUBSET Generations
      /\ lighting \in Lightings
  BY DEF Inv, EnvironmentInvariant, TypeOK, LightsOK, ClockTypeOK
<1>. DEFINE Entries == [env : 0 .. MaxGenerations, probes : SUBSET Generations, after : Serials]
<1>1. Retired(lighting) \in Entries
  BY <1>0 DEF Retired, Lightings
<1>2. retiredLighting \subseteq Entries
  BY <1>0 DEF LightsOK
<1>. HIDE DEF Entries
<1>3. ASSUME lighting' \in Lightings, retiredLighting' \subseteq retiredLighting \cup {Retired(lighting)}
      PROVE  LightsOK'
  BY <1>1, <1>2, <1>3 DEF LightsOK, Entries
<1>4. CASE LightRests \/ EndFrame
  BY <1>0, <1>3, <1>4 DEF LightRests, EndFrame, drawVars
<1>5. CASE Relights
  <2>1. PICK env \in 0 .. MaxGenerations : PublishEnvironment(env)
    BY <1>5 DEF Relights
  <2>2. /\ lighting' = [env |-> env, probes |-> lighting.probes]
        /\ retiredLighting' = retiredLighting \cup {Retired(lighting)}
    BY <2>1 DEF PublishEnvironment, Relit
  <2>3. lighting' \in Lightings
    BY <1>0, <2>2 DEF Lightings
  <2>. QED BY <1>3, <2>2, <2>3
<1>6. CASE Reprobes
  <2>1. retiredLighting' \subseteq retiredLighting \cup {Retired(lighting)}
    BY <1>0, <1>6, ReprobedIs DEF Reprobes
  <2>2. lighting' \in Lightings
    <3>. DEFINE p == {g \in world : kept'[g]}
    <3>1. p \in SUBSET Generations /\ lighting' = [lighting EXCEPT !.probes = p]
      BY <1>0, <1>6 DEF Reprobes, UpdateLighting
    <3>. HIDE DEF p
    <3>. QED BY <1>0, <3>1 DEF Lightings
  <2>. QED BY <1>3, <2>1, <2>2
<1>7. CASE DestroyWorlds
  <2>1. Dark \in Lightings
    BY EnvironmentBounds DEF Dark, Lightings, None
  <2>. QED BY <1>3, <1>7, <2>1 DEF DestroyWorlds
<1>. QED BY <1>4, <1>5, <1>6, <1>7, LightSteps

LEMMA TypesStay ==
  ASSUME Inv, [Next]_vars
  PROVE  TypeOK'
<1>1. ClockTypeOK' /\ TablesOK' /\ PartsOK' /\ HoldersOK' /\ LightsOK' /\ scene' \in Holders
      /\ world' \subseteq Generations
  BY ClockStays, TablesStay, PartsStay, HoldersStay, LightsStay, SceneSteps, WorldSteps
<1>. QED BY <1>1 DEF TypeOK, TablesOK, PartsOK, HoldersOK, LightsOK, Holders, Askings, Thens

-----------------------------------------------------------------------------
(* The theorems.                                                           *)

LEMMA InitHolds ==
  ASSUME Init
  PROVE  Inv
<1>1. 0 \in Serials /\ 0 \in 0 .. MaxGenerations /\ 0 \in 0 .. MaxScenes /\ 0 \in 0 .. ImageCount
      /\ \A g \in Generations : g \in Nat /\ g # 0
  BY SubmissionBound, EnvironmentBounds DEF Serials, Generations
<1>2. submitted = 0 /\ finished = 0 /\ completed = 0 /\ ClockTypeOK /\ ClockOrder
  BY <1>1 DEF Init, ClockInit, ClockTypeOK, ClockOrder
<1>3. \A g \in Generations : /\ state[g] = "Unloaded" /\ ~cancellation[g] /\ lastUse[g] = 0
                             /\ ~Loaded(g)
  BY DEF Init, Loaded
<1>4. /\ generations = 0 /\ active = [e \in Environments |-> None] /\ inactive = {}
      /\ Held = {} /\ cpuQueue = <<>> /\ gpuQueue = <<>> /\ builder = NoBuilder /\ worker = IdleWorker
      /\ builder.gen = None /\ worker.gen = None /\ worker.at = "waiting"
  BY DEF Init, Held, NoBuilder, IdleWorker
<1>5. Range(cpuQueue) = {} /\ Range(gpuQueue) = {} /\ cpuQueue \in Seq(Generations) /\ gpuQueue \in Seq(Generations)
      /\ IsInjective(cpuQueue) /\ IsInjective(gpuQueue) /\ NoScene.bound \in Seq(Generations)
      /\ Range(NoScene.bound) = {} /\ NoCalls.calls \in Seq(Generations)
  <2>1. IsInjective(<<>>)
    BY DEF IsInjective
  <2>. QED BY <1>4, <2>1, NothingIn DEF NoScene, NoCalls
<1>6. TablesOK
  <2>1. "Unloaded" \in States
    BY DEF States
  <2>. QED BY <1>1, <1>4, <1>5, <2>1 DEF Init, TablesOK, None
<1>7. NoScene \in Holders
  <2>. DEFINE E == <<>>
  <2>1. E \in Seq(Generations) /\ NoScene = [phase |-> "none", bound |-> E, global |-> 0, probes |-> {}]
    BY NothingIn DEF NoScene, None
  <2>. HIDE DEF E
  <2>. QED BY <1>1, <2>1 DEF Holders
<1>8. PartsOK
  <2>1. NoCalls \in [calls : Seq(Generations), idle : BOOLEAN, then : Thens]
    <3>. DEFINE E == <<>>
    <3>1. E \in Seq(Generations) /\ NoCalls = [calls |-> E, idle |-> FALSE, then |-> "input"]
      BY NothingIn DEF NoCalls
    <3>. HIDE DEF E
    <3>. QED BY <3>1 DEF Thens
  <2>2. builder \in Builders
    BY <1>1, <1>4 DEF NoBuilder, Builders, BuilderPhases, None
  <2>3. worker \in [gen : 0 .. MaxGenerations,
                   at : {"waiting", "skip", "prepare", "load", "ready", "exited"}]
    BY <1>1, <1>4 DEF IdleWorker, None
  <2>4. main \in Stages /\ cancelling = NoCalls
    BY DEF Init, Stages
  <2>. QED BY <1>1, <1>5, <2>1, <2>2, <2>3, <2>4 DEF Init, PartsOK
<1>9. HoldersOK /\ LightsOK
  <2>1. NoQuestions \in Askings /\ Dark \in Lightings
    BY <1>1 DEF NoQuestions, Askings, Dark, Lightings, None
  <2>2. 0 \in 0 .. generations
    BY <1>4
  <2>. QED BY <1>1, <2>1, <2>2 DEF Init, HoldersOK, LightsOK, None
<1>10. TypeOK
  BY <1>2, <1>6, <1>7, <1>8, <1>9 DEF Init, TypeOK, TablesOK, PartsOK, HoldersOK, LightsOK, Holders, Askings, Thens
<1>11. PlacesDistinct /\ StagesAgree
  <2>1. \A g \in Generations : ~Unpublished(g) /\ g # worker.gen /\ g # builder.gen
    BY <1>1, <1>4, <1>5 DEF Unpublished, None
  <2>. QED BY <1>3, <1>4, <1>5, <2>1 DEF PlacesDistinct, StagesAgree
<1>12. \A g \in Generations : ~Leased(g)
  <2>1. pending = None /\ shown = None /\ scene = NoScene /\ world = {} /\ retiredWorlds = {}
    BY DEF Init
  <2>. QED BY <1>1, <1>5, <2>1 DEF Leased, None
<1>13. main = "input" /\ lighting.env = shown /\ scene.global = None /\ scene.probes = {} /\ world = {}
       /\ Drawn(lighting) = {None} /\ retiredLighting = {}
  BY DEF Init, Dark, NoScene, Drawn
<1>14. /\ DrawnIsActive /\ LeasedReadyIsKept /\ CancelsAreRead /\ FlaggedIsUnpublished /\ AssetsAreKept
       /\ SceneIsBound /\ ExitOrder
  BY <1>3, <1>4, <1>12, <1>13 DEF DrawnIsActive, LeasedReadyIsKept, CancelsAreRead, FlaggedIsUnpublished,
     AssetsAreKept, SceneIsBound, ExitOrder, Exiting
<1>15. DrawnIsLoaded /\ UsesRemembered
  BY <1>1, <1>2, <1>3, <1>13 DEF DrawnIsLoaded, UsesRemembered, None
<1>. QED BY <1>2, <1>10, <1>11, <1>14, <1>15 DEF Inv, EnvironmentInvariant

LEMMA NextKeeps ==
  ASSUME Inv, [Next]_vars
  PROVE  Inv'
<1>1. Effects
  BY NextEffects
<1>2. /\ TypeOK' /\ ClockOrder' /\ DrawnIsActive' /\ LeasedReadyIsKept' /\ PlacesDistinct' /\ StagesAgree'
      /\ CancelsAreRead' /\ FlaggedIsUnpublished' /\ AssetsAreKept' /\ DrawnIsLoaded'
      /\ UsesRemembered' /\ SceneIsBound' /\ ExitOrder'
  BY <1>1, TypesStay, ClockStays, AgreementStays, AssetsStayKept, PlacesStay, CancelsStay, FlaggedStays,
     DrawnStays, UsesStay, SceneSteps, ExitOrderStays
<1>. QED BY <1>2 DEF Inv, EnvironmentInvariant

\* The coordinator and the renderer agree on what is drawn, what is leased keeps its GPU
\* resources, a record is in one place at a time, and what cancel() flagged is not
\* published: for any environments, records, scenes and submissions
\* (SceneRuntimeCoordinator::pump, EnvironmentAssetRepository, Renderer).
THEOREM EnvironmentsAgree == Spec => []EnvironmentInvariant
<1>1. Init => Inv
  BY InitHolds
<1>2. Inv /\ [Next]_vars => Inv'
  BY NextKeeps
<1>. QED BY <1>1, <1>2, PTL DEF Spec, Inv

\* A record whose cancellation was asked for is never published: the flag is read by
\* whoever could publish it, whatever the worker and the builder are doing
\* (EnvironmentAssetRepository::cancel, workerLoop, pump).
THEOREM CancelledStayUnpublished == Spec => CancelledStaysUnpublished
<1>1. Inv /\ [Next]_vars =>
        [\A g \in Generations : cancellation[g] /\ state[g] # "Ready" => state'[g] # "Ready"]_vars
  <2>. SUFFICES ASSUME Inv, [Next]_vars, NEW g \in Generations,
                       cancellation[g], state[g] # "Ready", state'[g] = "Ready"
                PROVE  FALSE
    OBVIOUS
  <2>1. Effects
    BY NextEffects
  <2>2. Loaded(g)
    BY <2>1 DEF Effects, LoadedBegins, Loaded
  <2>3. main \in Exiting
    BY <2>2 DEF Inv, EnvironmentInvariant, FlaggedIsUnpublished
  <2>4. UNCHANGED state \/ Worker
    <3>1. /\ ~CallStep /\ ~SceneStep /\ ~PublishStep /\ ~PumpEnvironments /\ ~PrepareFrame /\ ~EndFrame
          /\ \A e \in Environments : /\ ~RequestEnvironment(e) /\ ~Invalidate(e)
                                     /\ \A reload \in BOOLEAN : ~QueueEnvironment(e, reload)
      BY <2>3 DEF CallStep, SceneStep, PublishStep, UpdateScene, PumpEnvironments, PrepareFrame, EndFrame,
                RequestEnvironment, Invalidate, QueueEnvironment, AtInput, Exiting
    <3>. QED BY <3>1, NextCases DEF OtherStep
  <2>5. CASE Worker
    <3>1. state' = state \/ \E s \in {"Cancelled", "PreparingCpu", "Failed", "ReadyForUpload"} :
                             state' = [state EXCEPT ![worker.gen] = s]
      BY <2>5 DEF Worker, WorkerTakes, WorkerSkips, WorkerStarts, WorkerLoads, WorkerIsReady, WorkerExits, Store
    <3>. QED BY <3>1 DEF Inv, EnvironmentInvariant, TypeOK
  <2>. QED BY <2>4, <2>5
<1>. QED BY <1>1, EnvironmentsAgree, PTL DEF Spec, Inv, CancelledStaysUnpublished

-----------------------------------------------------------------------------
(* The refinement of DeferredRelease.                                      *)

\* What is shown of a record to DeferredRelease.
Status(g) ==
  IF state[g] \notin {"Ready", "Retiring"} THEN "None"
  ELSE IF Exists(g) THEN "Live" ELSE "Released"

LEMMA StatusIs ==
  ASSUME NEW g
  PROVE  /\ ~Loaded(g) => Status(g) = "None"
         /\ Loaded(g) /\ Exists(g) => Status(g) = "Live"
         /\ Loaded(g) /\ ~Exists(g) => Status(g) = "Released"
BY DEF Status, Loaded

LEMMA StatusNext ==
  ASSUME NEW g
  PROVE  /\ ~Loaded(g)' => Status(g)' = "None"
         /\ Loaded(g)' /\ Exists(g)' => Status(g)' = "Live"
         /\ Loaded(g)' /\ ~Exists(g)' => Status(g)' = "Released"
BY DEF Status, Loaded

\* The GPU resources of a published record are not made again.
LEMMA ExistedBefore ==
  ASSUME Inv, [Next]_vars, NEW g \in Generations, Loaded(g), Exists(g)'
  PROVE  Exists(g)
<1>0. TypeOK /\ PlacesDistinct /\ StagesAgree /\ AssetsAreKept
  BY DEF Inv, EnvironmentInvariant
<1>1. ASSUME kept'[g] PROVE Exists(g)
  <2>1. kept[g]
    <3>1. CASE PumpEnvironments
      <4>1. kept[g] \/ g = builder.gen
        BY <1>0, <1>1, <3>1, PumpIs DEF PumpEnvironments
      <4>. QED BY <1>0, <4>1 DEF StagesAgree, Unpublished
    <3>2. CASE PrepareFrame
      BY <1>0, <1>1, <3>2, ReleaseIs DEF PrepareFrame
    <3>3. CASE Worker
      BY <1>1, <3>3 DEF Worker, WorkerTakes, WorkerSkips, WorkerStarts, WorkerLoads, WorkerIsReady, WorkerExits,
         workerFrame
    <3>4. CASE OtherStep
      BY <1>1, <3>4 DEF OtherStep, WaitForFence, GpuFinish, UploadRuns, vars, ShutdownBegin, ShutdownFinish,
             DeviceWaitIdle, DestroyWorlds, recordVars
    <3>5. CASE CallStep \/ SceneStep \/ PublishStep \/ EndFrame
      BY <1>1, <3>5 DEF CallStep, SceneStep, PublishStep, UpdateScene, EndFrame, recordVars
    <3>6. CASE (\E e \in Environments, reload \in BOOLEAN : QueueEnvironment(e, reload))
            \/ \E e \in Environments : RequestEnvironment(e) \/ Invalidate(e)
      BY <1>1, <3>6 DEF QueueEnvironment, RequestEnvironment, Invalidate, askFrame
    <3>. QED BY <3>1, <3>2, <3>3, <3>4, <3>5, <3>6, NextCases
  <2>. QED BY <2>1 DEF Exists
<1>. SUFFICES ASSUME ~kept'[g] PROVE Exists(g)
  BY <1>1
<1>2. g \in Drawn(lighting') \/ \E l \in retiredLighting' : g \in Drawn(l)
  BY DEF Exists, Drawn
<1>3. CASE LightRests \/ EndFrame
  BY <1>2, <1>3 DEF LightRests, EndFrame, drawVars, Exists
<1>4. CASE Relights
  <2>1. PICK env \in 0 .. MaxGenerations :
          PublishEnvironment(env) /\ (env # None => env \in Generations /\ Leased(env))
    BY <1>4 DEF Relights
  <2>2. /\ lighting'.env = env /\ lighting'.probes = lighting.probes
        /\ retiredLighting' = retiredLighting \cup {Retired(lighting)}
    BY <2>1, RelitIs
  <2>3. CASE g = env
    BY <1>0, <2>1, <2>3 DEF AssetsAreKept, Exists, Generations, None
  <2>4. CASE g \in lighting.probes
    BY <2>4 DEF Exists, Drawn
  <2>5. CASE \E l \in retiredLighting' : g \in Drawn(l)
    BY <2>2, <2>5, RetiredIs DEF Exists
  <2>. QED BY <1>2, <2>2, <2>3, <2>4, <2>5 DEF Drawn
<1>5. CASE Reprobes
  <2>1. /\ lighting'.env = lighting.env /\ lighting'.probes = {h \in world : kept'[h]}
        /\ retiredLighting' \subseteq retiredLighting \cup {Retired(lighting)}
    BY <1>0, <1>5, ReprobedIs DEF Reprobes
  <2>2. CASE g \in Drawn(lighting')
    BY <2>1, <2>2 DEF Drawn, Exists
  <2>3. CASE \E l \in retiredLighting' : g \in Drawn(l)
    BY <2>1, <2>3, RetiredIs DEF Exists
  <2>. QED BY <1>2, <2>2, <2>3
<1>6. CASE DestroyWorlds
  <2>1. lighting'.env = None /\ lighting'.probes = {} /\ retiredLighting' = {}
    BY <1>6 DEF DestroyWorlds, Dark
  <2>. QED BY <1>2, <2>1 DEF Drawn, Generations, None
<1>. QED BY <1>3, <1>4, <1>5, <1>6, LightSteps

\* What is given up was last drawn in a frame that has finished.
LEMMA UnusedWhenGone ==
  ASSUME Inv, [Next]_vars, UNCHANGED <<clockVars, lastUse>>, NEW g \in Generations, ~Exists(g)'
  PROVE  lastUse[g] <= finished
<1>1. lastUse'[g] <= completed' \/ Remembered(g)'
  BY UsesStay DEF UsesRemembered, Remembered
<1>2. ~Remembered(g)'
  BY DEF Remembered, Exists, Drawn
<1>3. /\ lastUse[g] \in Nat /\ completed \in Nat /\ finished \in Nat /\ completed <= finished
  <2>1. lastUse \in [Generations -> Serials] /\ ClockTypeOK /\ ClockOrder
    BY DEF Inv, EnvironmentInvariant, TypeOK
  <2>. QED BY <2>1, SubmissionBound DEF ClockTypeOK, ClockOrder, Serials
<1>. QED BY <1>1, <1>2, <1>3 DEF clockVars


\* Only the pump goes from the input to the scene.
LEMMA PumpStarts ==
  ASSUME Inv, [Next]_vars, main = "input", main' = "scene"
  PROVE  PumpEnvironments
<1>1. ~CallStep /\ ~SceneStep /\ ~PublishStep /\ ~PrepareFrame /\ ~EndFrame
  BY CallIs DEF SceneStep, PublishStep, UpdateScene, PrepareFrame, EndFrame
<1>2. ~Worker
  BY DEF Worker, WorkerTakes, WorkerSkips, WorkerStarts, WorkerLoads, WorkerIsReady, WorkerExits,
         workerFrame
<1>3. ~OtherStep
  BY DEF OtherStep, WaitForFence, GpuFinish, UploadRuns, vars, ShutdownBegin, ShutdownFinish,
         DeviceWaitIdle, DestroyWorlds
<1>4. \A e \in Environments : /\ ~RequestEnvironment(e) /\ ~Invalidate(e)
                              /\ \A reload \in BOOLEAN : ~QueueEnvironment(e, reload)
  BY DEF RequestEnvironment, Invalidate, QueueEnvironment
<1>. QED BY <1>1, <1>2, <1>3, <1>4, NextCases

\* Outside of the pump nothing is published: a step that leaves the clock alone releases
\* what it gives up.
LEMMA ReleaseRefines ==
  ASSUME Inv, [Next]_vars, UNCHANGED <<clockVars, lastUse>>, ~PumpEnvironments
  PROVE  \E S \in SUBSET Generations : Deferred!Release(S)
<1>. DEFINE S == {g \in Generations : Loaded(g) /\ Exists(g) /\ ~Exists(g)'}
            T == [g \in Generations |-> Status(g)]
<1>1. \A g \in Generations : Loaded(g)' <=> Loaded(g)
  BY NextEffects, PumpStarts DEF Effects, LoadedStays, LoadedBegins
<1>2. \A g \in S : Status(g) = "Live" /\ lastUse[g] <= finished
  BY UnusedWhenGone, StatusIs
<1>3. ASSUME NEW g \in Generations
      PROVE  Status(g)' = IF g \in S THEN "Released" ELSE Status(g)
  <2>1. CASE ~Loaded(g)
    BY <1>1, <2>1, StatusIs, StatusNext
  <2>2. CASE Loaded(g) /\ Exists(g)'
    BY <1>1, <2>2, ExistedBefore, StatusIs, StatusNext
  <2>3. CASE Loaded(g) /\ ~Exists(g)'
    BY <1>1, <2>3, StatusIs, StatusNext
  <2>. QED BY <2>1, <2>2, <2>3
<1>. HIDE DEF S
<1>4. PICK R \in SUBSET Generations : R = S
  BY DEF S
<1>5. \A r \in R : T[r] = "Live" /\ lastUse[r] <= finished
  BY <1>2, <1>4 DEF S
<1>6. T' = [r \in Generations |-> IF r \in R THEN "Released" ELSE T[r]]
  BY <1>3, <1>4
<1>7. Deferred!Release(R)
  BY <1>5, <1>6 DEF Deferred!Release, Deferred!clockVars, clockVars, Status
<1>. QED BY <1>7

\* The pump publishes one record at most, and gives nothing up.
LEMMA PumpRefines ==
  ASSUME Inv, PumpEnvironments, [Next]_vars
  PROVE  (\E g \in Generations : Deferred!Create(g)) \/ UNCHANGED Deferred!releaseVars
<1>. DEFINE T == [g \in Generations |-> Status(g)]
<1>0. UNCHANGED <<clockVars, lastUse>> /\ Effects
  BY NextEffects DEF PumpEnvironments
<1>1. /\ \A g \in Generations : Loaded(g) => Loaded(g)'
      /\ \A g \in Generations : Loaded(g)' /\ ~Loaded(g) => g = builder.gen /\ kept'[g]
  BY <1>0 DEF Effects, LoadedStays, LoadedBegins
<1>2. ASSUME NEW g \in Generations, Exists(g) PROVE Exists(g)'
  <2>1. kept[g] => kept'[g]
    BY PumpIs DEF PumpEnvironments, Inv, EnvironmentInvariant
  <2>2. UNCHANGED drawVars \/ \E env : PublishEnvironment(env)
    BY DEF PumpEnvironments, UpdateEnvironmentLoading
  <2>3. CASE UNCHANGED drawVars
    BY <1>2, <2>1, <2>3 DEF Exists, drawVars, Drawn
  <2>4. CASE \E env : PublishEnvironment(env)
    <3>1. retiredLighting' = retiredLighting \cup {Retired(lighting)}
      BY <2>4, RelitIs
    <3>2. g \in Drawn(lighting) => g \in Drawn(Retired(lighting))
      BY RetiredIs
    <3>. QED BY <1>2, <2>1, <3>1, <3>2 DEF Exists
  <2>. QED BY <2>2, <2>3, <2>4
<1>3. ASSUME NEW g \in Generations
      PROVE  /\ g # builder.gen \/ Loaded(g) \/ ~Loaded(g)' => Status(g)' = Status(g)
             /\ g = builder.gen /\ ~Loaded(g) /\ Loaded(g)' => Status(g) = "None" /\ Status(g)' = "Live"
  <2>1. CASE ~Loaded(g) /\ ~Loaded(g)'
    BY <2>1, StatusIs, StatusNext
  <2>2. CASE Loaded(g)
    BY <1>1, <1>2, <2>2, ExistedBefore, StatusIs, StatusNext
  <2>3. CASE ~Loaded(g) /\ Loaded(g)'
    <3>1. g = builder.gen /\ Exists(g)'
      BY <1>1, <2>3 DEF Exists
    <3>. QED BY <2>3, <3>1, StatusIs, StatusNext
  <2>. QED BY <2>1, <2>2, <2>3
<1>4. CASE \E g \in Generations : g = builder.gen /\ ~Loaded(g) /\ Loaded(g)'
  <2>1. PICK g \in Generations : g = builder.gen /\ ~Loaded(g) /\ Loaded(g)'
    BY <1>4
  <2>2. T[g] = "None" /\ T' = [T EXCEPT ![g] = "Live"]
    BY <1>3, <2>1
  <2>3. Deferred!Create(g)
    BY <1>0, <2>2 DEF Deferred!Create, Deferred!clockVars, clockVars, Status
  <2>. QED BY <2>3
<1>5. CASE ~\E g \in Generations : g = builder.gen /\ ~Loaded(g) /\ Loaded(g)'
  <2>1. T' = T
    BY <1>1, <1>3, <1>5
  <2>. QED BY <1>0, <2>1 DEF Deferred!releaseVars, Deferred!clockVars, clockVars, Status
<1>. QED BY <1>4, <1>5

\* The steps of the clock.
LEMMA ClockRefines ==
  ASSUME Inv, EndFrame \/ WaitForFence \/ GpuFinish \/ DeviceWaitIdle
  PROVE  [Deferred!ReleaseNext]_(Deferred!releaseVars)
<1>. DEFINE T == [g \in Generations |-> Status(g)]
            U == Drawn(lighting) \cap Generations
<1>1. UNCHANGED <<state, kept, lighting, retiredLighting>>
  BY DEF EndFrame, WaitForFence, GpuFinish, DeviceWaitIdle, recordVars, drawVars
<1>2. UNCHANGED [g \in Generations |->
                   IF state[g] \notin {"Ready", "Retiring"} THEN "None"
                   ELSE IF Exists(g) THEN "Live" ELSE "Released"]
  <2>1. \A g \in Generations : Status(g)' = Status(g)
    BY <1>1 DEF Status, Exists, Drawn
  <2>. QED BY <2>1 DEF Status
<1>3. CASE EndFrame /\ Submit
  <2>1. lastUse' = [g \in Generations |-> IF g \in Drawn(lighting) THEN submitted' ELSE lastUse[g]]
        /\ submitted < MaxSubmissions /\ submitted' = submitted + 1 /\ UNCHANGED <<finished, completed>>
    BY <1>3 DEF EndFrame, Submit, clockVars
  <2>2. lastUse' = [r \in Generations |-> IF r \in U THEN submitted' ELSE lastUse[r]]
    BY <2>1
  <2>3. \A r \in U : T[r] = "Live"
    <3>1. \A r \in U : Loaded(r) /\ Exists(r)
      BY DEF Inv, EnvironmentInvariant, DrawnIsLoaded, Exists
    <3>. QED BY <3>1, StatusIs
  <2>4. Deferred!Submit
    BY <2>1 DEF Deferred!Submit
  <2>. HIDE DEF U
  <2>5. Deferred!UseInFrame(U)
    BY <1>2, <2>2, <2>3, <2>4 DEF Deferred!UseInFrame, Status
  <2>6. U \in SUBSET Generations
    BY DEF U
  <2>. QED BY <2>5, <2>6 DEF Deferred!ReleaseNext
<1>4. CASE UNCHANGED <<clockVars, lastUse>>
  BY <1>2, <1>4 DEF Deferred!releaseVars, Deferred!clockVars, clockVars
<1>5. CASE WaitForFence \/ GpuFinish
  <2>1. (Deferred!Finish \/ Deferred!Observe) /\ UNCHANGED lastUse
    BY <1>5 DEF WaitForFence, GpuFinish, Finish, Observe, Deferred!Finish, Deferred!Observe, recordVars
  <2>. QED BY <1>2, <2>1 DEF Deferred!ReleaseNext
<1>6. CASE DeviceWaitIdle
  <2>1. UNCHANGED <<submitted, finished, lastUse>> /\ completed' = finished
    BY <1>6 DEF DeviceWaitIdle, recordVars
  <2>2. CASE completed = finished
    BY <1>4, <2>1, <2>2 DEF clockVars
  <2>3. CASE completed # finished
    <3>1. completed \in Nat /\ finished \in Nat /\ completed <= finished
      <4>1. ClockTypeOK /\ ClockOrder
        BY DEF Inv, EnvironmentInvariant, TypeOK
      <4>. QED BY <4>1, SubmissionBound DEF ClockTypeOK, ClockOrder, Serials
    <3>2. completed' \in completed + 1 .. finished
      BY <2>1, <2>3, <3>1
    <3>3. Deferred!Observe
      BY <2>1, <3>2 DEF Deferred!Observe
    <3>. QED BY <1>2, <2>1, <3>3 DEF Deferred!ReleaseNext
  <2>. QED BY <2>2, <2>3
<1>7. CASE EndFrame /\ ~Submit
  BY <1>4, <1>7 DEF EndFrame
<1>. QED BY <1>3, <1>5, <1>6, <1>7

LEMMA StepRefines ==
  ASSUME Inv, [Next]_vars
  PROVE  [Deferred!ReleaseNext]_(Deferred!releaseVars)
<1>1. CASE EndFrame \/ WaitForFence \/ GpuFinish \/ DeviceWaitIdle
  BY <1>1, ClockRefines
<1>2. CASE PumpEnvironments
  BY <1>2, PumpRefines DEF Deferred!ReleaseNext
<1>3. CASE ~(EndFrame \/ WaitForFence \/ GpuFinish \/ DeviceWaitIdle \/ PumpEnvironments)
  <2>1. UNCHANGED <<clockVars, lastUse>>
    <3>1. CASE CallStep \/ SceneStep \/ PublishStep \/ PrepareFrame
      BY <3>1 DEF CallStep, SceneStep, PublishStep, UpdateScene, PrepareFrame, recordVars
    <3>2. CASE Worker
      BY <3>2 DEF Worker, WorkerTakes, WorkerSkips, WorkerStarts, WorkerLoads, WorkerIsReady, WorkerExits,
         workerFrame
    <3>3. CASE OtherStep
      BY <1>3, <3>3 DEF OtherStep, UploadRuns, vars, ShutdownBegin, ShutdownFinish, DestroyWorlds
    <3>4. CASE (\E e \in Environments, reload \in BOOLEAN : QueueEnvironment(e, reload))
            \/ \E e \in Environments : RequestEnvironment(e) \/ Invalidate(e)
      BY <3>4 DEF QueueEnvironment, RequestEnvironment, Invalidate, askFrame
    <3>. QED BY <1>3, <3>1, <3>2, <3>3, <3>4, NextCases
  <2>2. \E S \in SUBSET Generations : Deferred!Release(S)
    BY <1>3, <2>1, ReleaseRefines
  <2>. QED BY <2>2 DEF Deferred!ReleaseNext
<1>. QED BY <1>1, <1>2, <1>3

\* The GPU resources of an environment are destroyed after the last frame that drew with
\* them has finished, whoever gives them up and at the exit too: the repository, the
\* coordinator and the renderer's lighting generations together implement DeferredRelease
\* (EnvironmentAssetRepository::releaseUnused, Renderer::collectRetiredLightingGenerations,
\* Application's shutdown).
THEOREM EnvironmentsImplementDeferredRelease == Spec => ImplementsDeferredRelease
<1>1. Init => Deferred!ReleaseInit
  <2>. SUFFICES ASSUME Init PROVE Deferred!ReleaseInit
    OBVIOUS
  <2>1. submitted = 0 /\ finished = 0 /\ completed = 0 /\ lastUse = [g \in Generations |-> 0]
        /\ \A g \in Generations : state[g] = "Unloaded"
    BY DEF Init, ClockInit
  <2>. QED BY <2>1 DEF Deferred!ReleaseInit, Deferred!ClockInit
<1>2. Inv /\ [Next]_vars => [Deferred!ReleaseNext]_(Deferred!releaseVars)
  BY StepRefines
<1>. QED BY <1>1, <1>2, EnvironmentsAgree, PTL
         DEF Spec, Inv, ImplementsDeferredRelease, Deferred!ReleaseSpec

=============================================================================
