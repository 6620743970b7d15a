-------------------------- MODULE SessionBlocksProofs --------------------------
(***************************************************************************)
(* Proofs about SessionBlocks for any runs and sessions, any size of the   *)
(* cache and any number of deaths of the process.                          *)
(***************************************************************************)
EXTENDS SessionBlocks, SequenceTheorems, FiniteSetTheorems, WellFoundedInduction, TLAPS

Metas == {"none", "active", "sealed", "broken"}
Block == [meta : Metas, events : Seq(Events)]
Dirs == Seq(Block)

-----------------------------------------------------------------------------
(* The directories of a session *)

\* Only the last block is active; a user input is the first event of its block.
LastActive(bs) == \A b \in 1 .. Len(bs) : bs[b].meta = "active" => b = Len(bs)
OneInput(bs) ==
    \A b \in 1 .. Len(bs) : \A k \in 1 .. Len(bs[b].events) :
        bs[b].events[k].type = "user" => k = 1

\* Writing a block's meta file changes nothing else.
LEMMA MetaWritten ==
  ASSUME NEW bs \in Dirs, NEW n \in 1 .. Len(bs), NEW status \in Metas
  PROVE  /\ WriteMeta(bs, n, status) \in Dirs
         /\ Len(WriteMeta(bs, n, status)) = Len(bs)
         /\ \A b \in 1 .. Len(bs) :
              /\ WriteMeta(bs, n, status)[b].meta = IF b = n THEN status ELSE bs[b].meta
              /\ WriteMeta(bs, n, status)[b].events = bs[b].events
<1> DEFINE e == [bs[n] EXCEPT !.meta = status]
<1>1. bs[n] \in Block
  BY ElementOfSeq DEF Dirs
<1>2. e \in Block /\ e.meta = status /\ e.events = bs[n].events
  BY <1>1 DEF Block
<1>3. WriteMeta(bs, n, status) = [bs EXCEPT ![n] = e]
  BY DEF WriteMeta
<1> HIDE DEF e
<1> QED
  BY <1>2, <1>3, ExceptSeq DEF Dirs

\* So does sealing it; there may be none to seal.
LEMMA Sealed ==
  ASSUME NEW bs \in Dirs, NEW n \in 0 .. Len(bs)
  PROVE  /\ Seal(bs, n) \in Dirs
         /\ Len(Seal(bs, n)) = Len(bs)
         /\ \A b \in 1 .. Len(bs) :
              /\ Seal(bs, n)[b].meta = IF b = n THEN "sealed" ELSE bs[b].meta
              /\ Seal(bs, n)[b].events = bs[b].events
<1>1. CASE n = 0
  BY <1>1 DEF Seal
<1>2. CASE n # 0
  <2>1. n \in 1 .. Len(bs) /\ "sealed" \in Metas
    BY <1>2, LenProperties DEF Dirs, Metas
  <2>2. Seal(bs, n) = WriteMeta(bs, n, "sealed")
    BY <1>2 DEF Seal, WriteMeta
  <2> QED
    BY <2>1, <2>2, MetaWritten
<1> QED
  BY <1>1, <1>2

\* An event is added at the end of its block.
LEMMA EventAppended ==
  ASSUME NEW bs \in Dirs, NEW n \in 1 .. Len(bs), NEW e \in Events
  PROVE  /\ Appended(bs, n, e) \in Dirs
         /\ Len(Appended(bs, n, e)) = Len(bs)
         /\ \A b \in 1 .. Len(bs) :
              /\ Appended(bs, n, e)[b].meta = bs[b].meta
              /\ b # n => Appended(bs, n, e)[b].events = bs[b].events
         /\ Appended(bs, n, e)[n].events = Append(bs[n].events, e)
<1> DEFINE d == [bs[n] EXCEPT !.events = Append(bs[n].events, e)]
<1>1. bs[n] \in Block
  BY ElementOfSeq DEF Dirs
<1>2. Append(bs[n].events, e) \in Seq(Events)
  BY <1>1, AppendProperties DEF Block
<1>3. d \in Block /\ d.meta = bs[n].meta /\ d.events = Append(bs[n].events, e)
  BY <1>1, <1>2 DEF Block
<1>4. Appended(bs, n, e) = [bs EXCEPT ![n] = d]
  BY DEF Appended
<1> HIDE DEF d
<1> QED
  BY <1>3, <1>4, ExceptSeq DEF Dirs

\* A block number beyond those handed out gets an empty directory.
LEMMA DirMade ==
  ASSUME NEW bs \in Dirs
  PROVE  LET made == MakeDir(bs, Len(bs) + 1) IN
         /\ made \in Dirs
         /\ Len(made) = Len(bs) + 1
         /\ \A b \in 1 .. Len(bs) : made[b] = bs[b]
         /\ made[Len(bs) + 1] = [meta |-> "none", events |-> <<>>]
<1>1. Len(bs) \in Nat
  BY LenProperties DEF Dirs
<1>2. MakeDir(bs, Len(bs) + 1) = Append(bs, [meta |-> "none", events |-> <<>>])
  BY <1>1 DEF MakeDir
<1>3. [meta |-> "none", events |-> <<>>] \in Block
  BY EmptySeq DEF Block, Metas
<1> QED
  BY <1>2, <1>3, AppendProperties DEF Dirs

\* An event that is no user input leaves the inputs first, in whatever block it lands.
LEMMA InputStaysFirst ==
  ASSUME NEW bs \in Dirs, OneInput(bs), NEW n \in 1 .. Len(bs), NEW e \in Events,
         e.type # "user" \/ bs[n].events = <<>>
  PROVE  OneInput(Appended(bs, n, e))
<1>1. bs[n].events \in Seq(Events)
  <2>1. bs[n] \in Block
    BY ElementOfSeq DEF Dirs
  <2> QED
    BY <2>1 DEF Block
<1>2. /\ Len(Append(bs[n].events, e)) = Len(bs[n].events) + 1
      /\ \A k \in 1 .. Len(bs[n].events) : Append(bs[n].events, e)[k] = bs[n].events[k]
      /\ Append(bs[n].events, e)[Len(bs[n].events) + 1] = e
      /\ Len(bs[n].events) \in Nat
  BY <1>1, AppendProperties, LenProperties
<1>3. bs[n].events = <<>> => Len(bs[n].events) = 0
  BY EmptySeq
<1> SUFFICES ASSUME NEW b \in 1 .. Len(bs),
                    NEW k \in 1 .. Len(Appended(bs, n, e)[b].events),
                    Appended(bs, n, e)[b].events[k].type = "user"
             PROVE  k = 1
  BY EventAppended DEF OneInput
<1>4. CASE b # n
  BY <1>4, EventAppended DEF OneInput
<1>5. CASE b = n
  <2>1. Appended(bs, n, e)[b].events = Append(bs[n].events, e)
    BY <1>5, EventAppended
  <2>2. CASE k \in 1 .. Len(bs[n].events)
    BY <1>2, <2>1, <2>2 DEF OneInput
  <2>3. CASE k = Len(bs[n].events) + 1
    <3>1. e.type = "user"
      BY <1>2, <2>1, <2>3
    <3> QED
      BY <1>3, <2>3, <3>1
  <2> QED
    BY <1>2, <2>1, <2>2, <2>3
<1> QED
  BY <1>4, <1>5

NoneActive(bs) == \A b \in 1 .. Len(bs) : bs[b].meta # "active"

\* Writing a meta file leaves the inputs first; unless it says "active", or is the
\* last, it leaves at most the last block active.
LEMMA MetaKeeps ==
  ASSUME NEW bs \in Dirs, OneInput(bs), LastActive(bs), NEW n \in 1 .. Len(bs),
         NEW status \in Metas, status # "active" \/ n = Len(bs)
  PROVE  /\ WriteMeta(bs, n, status) \in Dirs
         /\ Len(WriteMeta(bs, n, status)) = Len(bs)
         /\ OneInput(WriteMeta(bs, n, status))
         /\ LastActive(WriteMeta(bs, n, status))
<1> DEFINE w == WriteMeta(bs, n, status)
<1>1. /\ w \in Dirs
      /\ Len(w) = Len(bs)
      /\ \A b \in 1 .. Len(bs) : /\ w[b].meta = IF b = n THEN status ELSE bs[b].meta
                                 /\ w[b].events = bs[b].events
  BY MetaWritten
<1> HIDE DEF w
<1>2. OneInput(w)
  BY <1>1 DEF OneInput
<1>3. LastActive(w)
  BY <1>1 DEF LastActive
<1> QED
  BY <1>1, <1>2, <1>3 DEF w

\* The number of the block that is active, as BlockManager keeps it when it has
\* seen the directories as they are.
ActiveOf(bs) == IF bs # <<>> /\ bs[Len(bs)].meta = "active" THEN Len(bs) ELSE 0

LEMMA ActiveInRange ==
  ASSUME NEW bs \in Dirs
  PROVE  /\ ActiveOf(bs) \in 0 .. Len(bs)
         /\ Len(bs) \in Nat
         /\ ActiveOf(bs) # 0 => ActiveOf(bs) = Len(bs)
         /\ bs # <<>> => Len(bs) > 0
<1>1. Len(bs) \in Nat
  BY LenProperties DEF Dirs
<1>2. bs # <<>> => Len(bs) # 0
  BY EmptySeq DEF Dirs
<1> QED
  BY <1>1, <1>2 DEF ActiveOf

\* A manager that knows the directories seals the only active block, and its next
\* block is new.
LEMMA NextBlock ==
  ASSUME NEW bs \in Dirs, OneInput(bs), LastActive(bs), NEW e \in Events
  PROVE  LET n == Len(bs) + 1
             sealed == Seal(bs, ActiveOf(bs))
             made == MakeDir(sealed, n)
             begun == Appended(made, n, e)
         IN  /\ n \in Nat /\ n \in 1 .. Len(made) /\ n \in 1 .. Len(begun)
             /\ sealed \in Dirs /\ Len(sealed) = Len(bs)
             /\ OneInput(sealed) /\ NoneActive(sealed)
             /\ made \in Dirs /\ Len(made) = n
             /\ OneInput(made) /\ NoneActive(made)
             /\ begun \in Dirs /\ Len(begun) = n
             /\ OneInput(begun) /\ NoneActive(begun)
<1> DEFINE n == Len(bs) + 1
           sealed == Seal(bs, ActiveOf(bs))
           made == MakeDir(sealed, n)
           begun == Appended(made, n, e)
<1>1. /\ ActiveOf(bs) \in 0 .. Len(bs)
      /\ Len(bs) \in Nat
  BY ActiveInRange
<1>2. /\ sealed \in Dirs
      /\ Len(sealed) = Len(bs)
      /\ \A b \in 1 .. Len(bs) :
           /\ sealed[b].meta = IF b = ActiveOf(bs) THEN "sealed" ELSE bs[b].meta
           /\ sealed[b].events = bs[b].events
  BY <1>1, Sealed
<1>3. OneInput(sealed)
  BY <1>2 DEF OneInput
<1>4. NoneActive(sealed)
  <2> SUFFICES ASSUME NEW b \in 1 .. Len(bs), sealed[b].meta = "active"
               PROVE  FALSE
    BY <1>2 DEF NoneActive
  <2>1. b # ActiveOf(bs) /\ bs[b].meta = "active"
    BY <1>2
  <2>2. b = Len(bs)
    BY <2>1 DEF LastActive
  <2>3. bs # <<>>
    BY <1>1, <2>2, EmptySeq
  <2> QED
    BY <2>1, <2>2, <2>3 DEF ActiveOf
<1>5. /\ made \in Dirs
      /\ Len(made) = n
      /\ \A b \in 1 .. Len(bs) : made[b] = sealed[b]
      /\ made[n] = [meta |-> "none", events |-> <<>>]
  BY <1>2, DirMade
<1>6. OneInput(made)
  <2>1. made[n].events = <<>> /\ Len(<<>>) = 0
    BY <1>5, EmptySeq
  <2>2. \A b \in 1 .. n : b = n \/ b \in 1 .. Len(bs)
    BY <1>1
  <2> QED
    BY <1>2, <1>3, <1>5, <2>1, <2>2 DEF OneInput
<1>7. NoneActive(made)
  <2>1. \A b \in 1 .. n : b = n \/ b \in 1 .. Len(bs)
    BY <1>1
  <2> QED
    BY <1>2, <1>4, <1>5, <2>1 DEF NoneActive
<1>8. n \in 1 .. Len(made)
  BY <1>1, <1>5
<1>9. /\ begun \in Dirs
      /\ Len(begun) = Len(made)
      /\ \A b \in 1 .. Len(made) : begun[b].meta = made[b].meta
  BY <1>5, <1>8, EventAppended
<1>10. OneInput(begun)
  BY <1>5, <1>6, <1>8, InputStaysFirst
<1>11. NoneActive(begun)
  BY <1>7, <1>9 DEF NoneActive
<1>12. n \in Nat
  BY <1>1
<1> HIDE DEF begun, made, sealed, n
<1>13. n \in 1 .. Len(begun)
  BY <1>8, <1>9
<1> QED
  BY <1>2, <1>3, <1>4, <1>5, <1>6, <1>7, <1>8, <1>9, <1>10, <1>11, <1>12, <1>13
     DEF begun, made, sealed, n

-----------------------------------------------------------------------------
(* The cache *)

Distinct(c) ==
    \A k \in 1 .. Len(c) : \A l \in 1 .. Len(c) : SessionOf[c[l]] = SessionOf[c[k]] => l = k

\* What use makes of the cache: the manager used comes last, and nothing comes or goes.
LEMMA MovedLast ==
  ASSUME cache \in Seq(Runs), Distinct(cache), NEW k \in 1 .. Len(cache)
  PROVE  LET moved == MovedToEnd(k) IN
         /\ moved \in Seq(Runs)
         /\ moved # <<>>
         /\ moved[Len(moved)] = cache[k]
         /\ \A j \in 1 .. Len(moved) : \E i \in 1 .. Len(cache) : moved[j] = cache[i]
         /\ Distinct(moved)
<1> DEFINE front == SubSeq(cache, 1, k - 1)
           back == SubSeq(cache, k + 1, Len(cache))
           moved == MovedToEnd(k)
           From(j) == IF j < k THEN j ELSE IF j < Len(cache) THEN j + 1 ELSE k
<1>1. Len(cache) \in Nat /\ \A i \in 1 .. Len(cache) : cache[i] \in Runs
  BY LenProperties, ElementOfSeq
<1>2. /\ front \in Seq(Runs)
      /\ Len(front) = k - 1
      /\ \A i \in 1 .. k - 1 : front[i] = cache[i]
  <2>1. \A i \in 1 .. k - 1 : cache[i] \in Runs
    BY <1>1
  <2>2. /\ front \in Seq(Runs)
        /\ Len(front) = IF 1 <= k - 1 THEN k - 1 - 1 + 1 ELSE 0
        /\ \A i \in 1 .. k - 1 - 1 + 1 : front[i] = cache[1 + i - 1]
    BY <1>1, <2>1, SubSeqProperties
  <2> HIDE DEF front
  <2> QED
    BY <1>1, <2>2
<1>3. /\ back \in Seq(Runs)
      /\ Len(back) = Len(cache) - k
      /\ \A i \in 1 .. Len(cache) - k : back[i] = cache[k + i]
  <2>1. \A i \in k + 1 .. Len(cache) : cache[i] \in Runs
    BY <1>1
  <2>2. /\ back \in Seq(Runs)
        /\ Len(back) = IF k + 1 <= Len(cache) THEN Len(cache) - (k + 1) + 1 ELSE 0
        /\ \A i \in 1 .. Len(cache) - (k + 1) + 1 : back[i] = cache[k + 1 + i - 1]
    BY <1>1, <2>1, SubSeqProperties
  <2> HIDE DEF back
  <2> QED
    BY <1>1, <2>2
<1>4. moved = Append(front \o back, cache[k])
  BY DEF MovedToEnd
<1> HIDE DEF front, back, moved
<1>5. /\ front \o back \in Seq(Runs)
      /\ Len(front \o back) = Len(cache) - 1
      /\ \A i \in 1 .. Len(cache) - 1 :
            (front \o back)[i] = IF i < k THEN cache[i] ELSE cache[i + 1]
  <2>1. /\ front \o back \in Seq(Runs)
        /\ Len(front \o back) = Len(front) + Len(back)
        /\ \A i \in 1 .. Len(front) + Len(back) :
              (front \o back)[i] = IF i <= Len(front) THEN front[i] ELSE back[i - Len(front)]
    BY <1>2, <1>3, ConcatProperties
  <2>2. Len(front) + Len(back) = Len(cache) - 1
    BY <1>1, <1>2, <1>3
  <2>3. ASSUME NEW i \in 1 .. Len(cache) - 1
        PROVE  (front \o back)[i] = IF i < k THEN cache[i] ELSE cache[i + 1]
    <3>1. CASE i < k
      BY <1>1, <1>2, <2>1, <2>2, <3>1
    <3>2. CASE ~(i < k)
      <4>1. (front \o back)[i] = back[i - (k - 1)]
        BY <1>1, <1>2, <2>1, <2>2, <3>2
      <4>2. i - (k - 1) \in 1 .. Len(cache) - k /\ k + (i - (k - 1)) = i + 1
        BY <1>1, <3>2
      <4>3. back[i - (k - 1)] = cache[k + (i - (k - 1))]
        BY <1>3, <4>2
      <4> QED
        BY <1>1, <3>2, <4>1, <4>2, <4>3
    <3> QED
      BY <3>1, <3>2
  <2> QED
    BY <2>1, <2>2, <2>3
<1>6. /\ moved \in Seq(Runs)
      /\ moved # <<>>
      /\ Len(moved) = Len(cache)
      /\ moved[Len(cache)] = cache[k]
      /\ \A i \in 1 .. Len(cache) - 1 : moved[i] = (front \o back)[i]
  <2> DEFINE rest == front \o back
  <2> HIDE DEF rest
  <2>1. rest \in Seq(Runs) /\ cache[k] \in Runs /\ moved = Append(rest, cache[k])
    BY <1>1, <1>4, <1>5 DEF rest
  <2>2. Len(rest) = Len(cache) - 1
    BY <1>5 DEF rest
  <2>3. /\ moved \in Seq(Runs)
        /\ moved # <<>>
        /\ Len(moved) = Len(rest) + 1
        /\ moved[Len(rest) + 1] = cache[k]
        /\ \A i \in 1 .. Len(rest) : moved[i] = rest[i]
    BY <2>1, AppendProperties
  <2>4. Len(rest) + 1 = Len(cache)
    BY <1>1, <2>2
  <2> QED
    BY <2>2, <2>3, <2>4 DEF rest
<1>7. \A j \in 1 .. Len(cache) : From(j) \in 1 .. Len(cache) /\ moved[j] = cache[From(j)]
  <2> SUFFICES ASSUME NEW j \in 1 .. Len(cache)
               PROVE  From(j) \in 1 .. Len(cache) /\ moved[j] = cache[From(j)]
    OBVIOUS
  <2>1. From(j) \in 1 .. Len(cache)
    BY <1>1
  <2>2. CASE j = Len(cache)
    BY <1>1, <1>6, <2>2
  <2>3. CASE j # Len(cache)
    <3>1. j \in 1 .. Len(cache) - 1 /\ j < Len(cache)
      BY <1>1, <2>3
    <3>2. moved[j] = (front \o back)[j]
      BY <1>6, <3>1
    <3>3. moved[j] = IF j < k THEN cache[j] ELSE cache[j + 1]
      BY <1>5, <3>1, <3>2
    <3> QED
      BY <3>1, <3>3
  <2> QED
    BY <2>1, <2>2, <2>3
<1>8. Distinct(moved)
  <2> SUFFICES ASSUME NEW i \in 1 .. Len(cache), NEW j \in 1 .. Len(cache),
                      SessionOf[moved[j]] = SessionOf[moved[i]]
               PROVE  j = i
    BY <1>6 DEF Distinct
  <2>1. From(j) = From(i)
    <3>1. SessionOf[cache[From(j)]] = SessionOf[cache[From(i)]]
      BY <1>7
    <3> HIDE DEF From
    <3> QED
      BY <1>7, <3>1 DEF Distinct
  <2> QED
    BY <1>1, <2>1
<1> HIDE DEF From
<1> QED
  BY <1>6, <1>7, <1>8 DEF moved

\* A run of another session than those kept is added, or takes the place of the oldest.
LEMMA AddedLast ==
  ASSUME NEW c \in Seq(Runs), Distinct(c), NEW r \in Runs,
         \A k \in 1 .. Len(c) : SessionOf[c[k]] # SessionOf[r]
  PROVE  LET added == Append(c, r) IN
         /\ added \in Seq(Runs)
         /\ added # <<>>
         /\ added[Len(added)] = r
         /\ \A j \in 1 .. Len(added) : added[j] = r \/ \E i \in 1 .. Len(c) : added[j] = c[i]
         /\ Distinct(added)
<1> DEFINE added == Append(c, r)
<1>1. /\ added \in Seq(Runs)
      /\ added # <<>>
      /\ Len(added) = Len(c) + 1
      /\ \A i \in 1 .. Len(c) : added[i] = c[i]
      /\ added[Len(c) + 1] = r
  BY AppendProperties
<1>2. Len(c) \in Nat
  BY LenProperties
<1> HIDE DEF added
<1>3. \A j \in 1 .. Len(added) : j = Len(c) + 1 \/ j \in 1 .. Len(c)
  BY <1>1, <1>2
<1>4. Distinct(added)
  BY <1>1, <1>3 DEF Distinct
<1> QED
  BY <1>1, <1>3, <1>4 DEF added

LEMMA OldestLeft ==
  ASSUME NEW c \in Seq(Runs), Distinct(c), c # <<>>
  PROVE  /\ Tail(c) \in Seq(Runs)
         /\ Distinct(Tail(c))
         /\ \A j \in 1 .. Len(Tail(c)) : \E i \in 1 .. Len(c) : Tail(c)[j] = c[i]
<1>1. /\ Tail(c) \in Seq(Runs)
      /\ Len(Tail(c)) = Len(c) - 1
      /\ \A i \in 1 .. Len(Tail(c)) : Tail(c)[i] = c[i + 1]
  BY HeadTailProperties
<1>2. Len(c) \in Nat
  BY LenProperties
<1>3. \A j \in 1 .. Len(Tail(c)) : j + 1 \in 1 .. Len(c) /\ j \in Nat
  BY <1>1, <1>2
<1>4. Distinct(Tail(c))
  <2> SUFFICES ASSUME NEW i \in 1 .. Len(Tail(c)), NEW j \in 1 .. Len(Tail(c)),
                      SessionOf[Tail(c)[j]] = SessionOf[Tail(c)[i]]
               PROVE  j = i
    BY DEF Distinct
  <2>1. j + 1 = i + 1
    BY <1>1, <1>3 DEF Distinct
  <2> QED
    BY <1>3, <2>1
<1> QED
  BY <1>1, <1>3, <1>4

-----------------------------------------------------------------------------
(* The runs *)

Places == Ended \cup {"new", "loading", "thinking", "planned", "answering", "assembling",
                      "prompted", "calling", "results"}

\* A run that goes on has a manager, as has the agent; results are recorded only
\* while calls wait for them.
RunsInv ==
    /\ overlap \in BOOLEAN
    /\ pc \in [Runs -> Places]
    /\ called \in [Runs -> Nat]
    /\ answered \in [Runs -> Nat]
    /\ \A r \in Runs : answered[r] <= called[r] /\ called[r] <= CallsOf[r]
    /\ \A r \in Runs : pc[r] = "results" => answered[r] < called[r]
    /\ uses \in [Runs -> Runs \cup {None}]
    /\ current \in Runs \cup {None}
    /\ \A r \in GoingOn : current \in Runs /\ uses[r] \in Runs
    /\ crashes \in 0 .. MaxCrashes

LEMMA CacheElements ==
  ASSUME cache \in Seq(Runs)
  PROVE  /\ Len(cache) \in Nat
         /\ \A k \in 1 .. Len(cache) : cache[k] \in Runs
         /\ \A s \in Sessions : \A k \in Kept(s) : k \in 1 .. Len(cache) /\ SessionOf[cache[k]] = s
BY LenProperties, ElementOfSeq DEF Kept

LEMMA RunEnds ==
  ASSUME RunsInv, NEW r \in Runs, NEW how \in Ended, End(r, how),
         UNCHANGED <<overlap, current, crashes>>
  PROVE  RunsInv'
<1>1. /\ pc' \in [Runs -> Places]
      /\ called' \in [Runs -> Nat]
      /\ answered' \in [Runs -> Nat]
      /\ uses' \in [Runs -> Runs \cup {None}]
  BY DEF RunsInv, End, Places
<1>2. \A q \in Runs : answered'[q] <= called'[q] /\ called'[q] <= CallsOf[q]
  <2>1. called' = [called EXCEPT ![r] = 0] /\ answered' = [answered EXCEPT ![r] = 0]
    BY DEF End
  <2>2. \A q \in Runs : CallsOf[q] \in Nat
    BY BlocksAssumption
  <2> QED
    BY <2>1, <2>2 DEF RunsInv
<1>3. \A q \in Runs : pc'[q] = "results" => answered'[q] < called'[q]
  BY DEF RunsInv, End, Ended
<1>4. \A q \in GoingOn' : current' \in Runs /\ uses'[q] \in Runs
  BY DEF RunsInv, End, GoingOn, Ended
<1> QED
  BY <1>1, <1>2, <1>3, <1>4 DEF RunsInv

LEMMA RunsPreserved == RunsInv /\ cache \in Seq(Runs) /\ [Next]_vars => RunsInv'
<1> SUFFICES ASSUME RunsInv, cache \in Seq(Runs), [Next]_vars
             PROVE  RunsInv'
  OBVIOUS
<1> USE DEF Places, Ended
<1>1. ASSUME NEW r \in Runs, Lookup(r)
      PROVE  RunsInv'
  <2>1. current' \in Runs /\ uses' = [uses EXCEPT ![r] = current']
    <3>1. CASE Kept(SessionOf[r]) # {}
      BY <1>1, <3>1, CacheElements, BlocksAssumption DEF Lookup
    <3>2. CASE Kept(SessionOf[r]) = {}
      BY <1>1, <3>2 DEF Lookup
    <3> QED
      BY <3>1, <3>2
  <2>2. pc' = [pc EXCEPT ![r] = "loading"] /\ UNCHANGED <<overlap, called, answered, crashes>>
    BY <1>1 DEF Lookup
  <2>3. \A q \in GoingOn' : q = r \/ q \in GoingOn
    BY <2>2 DEF GoingOn, RunsInv
  <2> QED
    BY <2>1, <2>2, <2>3 DEF RunsInv, GoingOn
<1>2. ASSUME NEW r \in Runs, StartBlock(r)
      PROVE  RunsInv'
  BY <1>2 DEF StartBlock, RunsInv, GoingOn
<1>3. ASSUME NEW r \in Runs, RecordPlan(r)
      PROVE  RunsInv'
  BY <1>3 DEF RecordPlan, RunsInv, GoingOn, mgrVars
<1>4. ASSUME NEW r \in Runs, AskPrompt(r)
      PROVE  RunsInv'
  <2>1. \A q \in GoingOn' : q \in GoingOn
    BY <1>4 DEF AskPrompt, GoingOn, RunsInv
  <2>2. pc' \in [Runs -> Places] /\ \A q \in Runs : pc'[q] = "results" => pc[q] = "results"
    BY <1>4 DEF AskPrompt, RunsInv
  <2>3. current \in Runs
    BY <1>4 DEF AskPrompt, RunsInv, GoingOn
  <2> QED
    BY <1>4, <2>1, <2>2, <2>3 DEF AskPrompt, RunsInv, GoingOn, mgrVars
<1>5. ASSUME NEW r \in Runs, ReadPrompt(r)
      PROVE  RunsInv'
  <2>1. CASE End(r, "done")
    BY <1>5, <2>1, RunEnds DEF ReadPrompt, mgrVars
  <2>2. CASE /\ pc[r] = "assembling"
             /\ pc' = [pc EXCEPT ![r] = "prompted"]
             /\ UNCHANGED <<called, answered, uses>>
    BY <1>5, <2>2 DEF ReadPrompt, RunsInv, GoingOn, mgrVars
  <2> QED
    BY <1>5, <2>1, <2>2 DEF ReadPrompt
<1>6. ASSUME NEW r \in Runs, Execute(r)
      PROVE  RunsInv'
  BY <1>6 DEF Execute, RunsInv, GoingOn, mgrVars
<1>7. ASSUME NEW r \in Runs, RecordCall(r)
      PROVE  RunsInv'
  <2>1. /\ called' = [called EXCEPT ![r] = @ + 1]
        /\ called[r] < CallsOf[r]
        /\ UNCHANGED <<overlap, pc, answered, uses, current, crashes>>
    BY <1>7 DEF RecordCall, mgrVars
  <2>2. \A q \in Runs : CallsOf[q] \in Nat
    BY BlocksAssumption
  <2>3. called' \in [Runs -> Nat]
    BY <2>1 DEF RunsInv
  <2>4. \A q \in Runs : /\ answered[q] <= called'[q] /\ called'[q] <= CallsOf[q]
                        /\ pc[q] = "results" => answered[q] < called'[q]
    BY <2>1, <2>2 DEF RunsInv
  <2> QED
    BY <2>1, <2>3, <2>4 DEF RunsInv, GoingOn
<1>8. ASSUME NEW r \in Runs, RunCalls(r)
      PROVE  RunsInv'
  BY <1>8 DEF RunCalls, RunsInv, GoingOn, mgrVars
<1>9. ASSUME NEW r \in Runs, RecordResult(r)
      PROVE  RunsInv'
  <2>1. answered' \in [Runs -> Nat] /\ \A q \in Runs : answered'[q] <= called[q]
    BY <1>9 DEF RecordResult, RunsInv
  <2>2. /\ pc' \in [Runs -> Places]
        /\ \A q \in Runs : pc'[q] = "results" => answered'[q] < called[q]
        /\ \A q \in GoingOn' : q \in GoingOn
    BY <1>9, <2>1 DEF RecordResult, RunsInv, GoingOn
  <2> QED
    BY <1>9, <2>1, <2>2 DEF RecordResult, RunsInv, mgrVars
<1>10. ASSUME NEW r \in Runs, Finish(r)
       PROVE  RunsInv'
  BY <1>10, RunEnds DEF Finish, mgrVars
<1>11. ASSUME NEW r \in Runs, Stop(r)
       PROVE  RunsInv'
  BY <1>11, RunEnds DEF Stop, mgrVars
<1>12. ASSUME Crash
       PROVE  RunsInv'
  <2>1. crashes' \in 0 .. MaxCrashes
    BY <1>12, BlocksAssumption DEF Crash, RunsInv
  <2>2. pc' \in [Runs -> Places] /\ GoingOn' = {}
    BY <1>12 DEF Crash, RunsInv, GoingOn
  <2>3. \A q \in Runs : pc'[q] # "results"
    BY <2>2 DEF GoingOn
  <2> QED
    BY <1>12, <2>1, <2>2, <2>3, BlocksAssumption DEF Crash, RunsInv
<1>13. ASSUME UNCHANGED vars
       PROVE  RunsInv'
  BY <1>13 DEF vars, runVars, mgrVars, RunsInv, GoingOn
<1> QED
  BY <1>1, <1>2, <1>3, <1>4, <1>5, <1>6, <1>7, <1>8, <1>9, <1>10, <1>11, <1>12, <1>13
     DEF Next, RunNext

-----------------------------------------------------------------------------
(* The managers and the directories *)

\* What a manager remembers is there; a manager of the cache knows all there is, and
\* the current manager is the newest of the cache.
Knows(m) ==
    /\ count[m] = Len(blocks[SessionOf[m]])
    /\ active[m] = ActiveOf(blocks[SessionOf[m]])

DirsInv ==
    /\ blocks \in [Sessions -> Dirs]
    /\ \A s \in Sessions : LastActive(blocks[s]) /\ OneInput(blocks[s])

NumbersInv ==
    /\ active \in [Runs -> Nat]
    /\ count \in [Runs -> Nat]
    /\ \A r \in Runs : active[r] <= count[r] /\ count[r] <= Len(blocks[SessionOf[r]])

CacheInv ==
    /\ cache \in Seq(Runs)
    /\ current \in Runs => cache # <<>> /\ cache[Len(cache)] = current
    /\ Distinct(cache)
    /\ \A k \in 1 .. Len(cache) : Knows(cache[k])

StoreInv == DirsInv /\ NumbersInv /\ CacheInv

LEMMA SessionsOfRuns == \A r \in Runs : SessionOf[r] \in Sessions
BY BlocksAssumption

LEMMA CurrentKnows ==
  ASSUME CacheInv, current \in Runs
  PROVE  Len(cache) \in 1 .. Len(cache) /\ Knows(current)
<1>1. Len(cache) \in Nat \ {0}
  BY EmptySeq DEF CacheInv
<1>2. Len(cache) \in 1 .. Len(cache)
  BY <1>1
<1> QED
  BY <1>2 DEF CacheInv

\* Of managers and directories that stay as they are.
LEMMA StoreStays ==
  ASSUME StoreInv, UNCHANGED <<mgrVars, blocks>>
  PROVE  StoreInv'
BY DEF StoreInv, DirsInv, NumbersInv, CacheInv, Knows, mgrVars

\* An event recorded on any manager, be it forgotten by the cache.
LEMMA RecordKeeps ==
  ASSUME StoreInv, NEW m \in Runs, NEW e \in Events, e.type # "user",
         Record(m, e), UNCHANGED mgrVars
  PROVE  StoreInv'
<1> DEFINE s == SessionOf[m]
           d == Appended(blocks[s], active[m], e)
<1>1. CASE active[m] = 0
  BY <1>1, StoreStays DEF Record
<1>2. CASE active[m] # 0
  <2>1. blocks[s] \in Dirs /\ OneInput(blocks[s]) /\ LastActive(blocks[s]) /\ s \in Sessions
    BY SessionsOfRuns DEF StoreInv, DirsInv
  <2>2. active[m] \in 1 .. Len(blocks[s])
    <3>1. Len(blocks[s]) \in Nat
      BY <2>1, ActiveInRange
    <3>2. active[m] \in Nat /\ count[m] \in Nat /\ active[m] <= count[m] /\ count[m] <= Len(blocks[s])
      BY DEF StoreInv, NumbersInv
    <3> QED
      BY <1>2, <3>1, <3>2
  <2>3. /\ d \in Dirs
        /\ Len(d) = Len(blocks[s])
        /\ \A b \in 1 .. Len(blocks[s]) : d[b].meta = blocks[s][b].meta
    BY <2>1, <2>2, EventAppended
  <2>4. OneInput(d)
    BY <2>1, <2>2, InputStaysFirst
  <2>5. blocks' = [blocks EXCEPT ![s] = d]
    BY <1>2 DEF Record
  <2> HIDE DEF d
  <2>6. LastActive(d)
    BY <2>1, <2>3 DEF LastActive
  <2>7. ActiveOf(d) = ActiveOf(blocks[s])
    <3>1. Len(blocks[s]) \in Nat /\ (blocks[s] # <<>> <=> Len(blocks[s]) > 0)
      BY <2>1, EmptySeq, LenProperties DEF Dirs
    <3>2. d # <<>> <=> Len(d) > 0
      BY <2>3, EmptySeq, LenProperties DEF Dirs
    <3> QED
      BY <2>3, <3>1, <3>2 DEF ActiveOf
  <2>8. \A t \in Sessions : /\ Len(blocks'[t]) = Len(blocks[t])
                            /\ ActiveOf(blocks'[t]) = ActiveOf(blocks[t])
    BY <2>1, <2>3, <2>5, <2>7 DEF StoreInv, DirsInv
  <2>9. DirsInv'
    BY <2>1, <2>3, <2>4, <2>5, <2>6 DEF StoreInv, DirsInv
  <2>10. NumbersInv'
    BY <2>8, SessionsOfRuns DEF StoreInv, NumbersInv, mgrVars
  <2>11. CacheInv'
    <3>1. \A q \in Runs : Knows(q) => Knows(q)'
      BY <2>8, SessionsOfRuns DEF Knows, mgrVars
    <3> QED
      BY <3>1, CacheElements DEF StoreInv, CacheInv, mgrVars
  <2> QED
    BY <2>9, <2>10, <2>11 DEF StoreInv
<1> QED
  BY <1>1, <1>2

\* The user's input opens a block that is new.
LEMMA StartKeeps ==
  ASSUME StoreInv, current \in Runs, NEW r \in Runs, StartBlock(r)
  PROVE  StoreInv'
<1> DEFINE m == current
           s == SessionOf[m]
           n == count[m] + 1
           e == Event("user", r, 0)
           begun == Appended(MakeDir(Seal(blocks[s], active[m]), n), n, e)
           d == WriteMeta(begun, n, "active")
<1>1. /\ s \in Sessions
      /\ blocks[s] \in Dirs
      /\ OneInput(blocks[s])
      /\ LastActive(blocks[s])
  BY SessionsOfRuns DEF StoreInv, DirsInv
<1>2. count[m] = Len(blocks[s]) /\ active[m] = ActiveOf(blocks[s])
  BY CurrentKnows DEF StoreInv, Knows
<1>3. e \in Events
  BY DEF Events, Event
<1>4. /\ n \in Nat
      /\ n \in 1 .. Len(begun)
      /\ begun \in Dirs
      /\ Len(begun) = n
      /\ OneInput(begun)
      /\ NoneActive(begun)
  BY <1>1, <1>2, <1>3, NextBlock
<1>5. /\ count' = [count EXCEPT ![m] = n]
      /\ active' = [active EXCEPT ![m] = n]
      /\ blocks' = [blocks EXCEPT ![s] = d]
      /\ UNCHANGED <<current, cache>>
  BY DEF StartBlock, Starter, BlockMade
<1> HIDE DEF e, begun
<1>6. /\ d \in Dirs
      /\ Len(d) = n
      /\ OneInput(d)
      /\ LastActive(d)
      /\ d[n].meta = "active"
  <2>1. LastActive(begun) /\ "active" \in Metas
    BY <1>4 DEF LastActive, NoneActive, Metas
  <2> QED
    BY <1>4, <2>1, MetaKeeps, MetaWritten
<1> HIDE DEF d
<1>7. ActiveOf(d) = n
  BY <1>4, <1>6, EmptySeq DEF ActiveOf
<1>8. DirsInv'
  BY <1>1, <1>5, <1>6 DEF StoreInv, DirsInv
<1>9. NumbersInv'
  <2>1. active' \in [Runs -> Nat] /\ count' \in [Runs -> Nat]
    BY <1>4, <1>5 DEF StoreInv, NumbersInv
  <2>2. ASSUME NEW q \in Runs
        PROVE  active'[q] <= count'[q] /\ count'[q] <= Len(blocks'[SessionOf[q]])
    <3>1. CASE q = m
      BY <1>1, <1>4, <1>5, <1>6, <3>1 DEF StoreInv, NumbersInv, DirsInv
    <3>2. CASE q # m /\ SessionOf[q] = s
      <4>1. Len(blocks'[SessionOf[q]]) = Len(blocks[s]) + 1 /\ Len(blocks[s]) \in Nat
        BY <1>1, <1>2, <1>5, <1>6, <3>2, ActiveInRange DEF StoreInv, DirsInv
      <4>2. active'[q] = active[q] /\ count'[q] = count[q]
        BY <1>5, <3>2 DEF StoreInv, NumbersInv
      <4>3. /\ active[q] <= count[q]
            /\ count[q] <= Len(blocks[s])
            /\ count[q] \in Nat
        BY <3>2 DEF StoreInv, NumbersInv
      <4> QED
        BY <4>1, <4>2, <4>3
    <3>3. CASE q # m /\ SessionOf[q] # s
      BY <1>1, <1>5, <3>3, SessionsOfRuns DEF StoreInv, NumbersInv, DirsInv
    <3> QED
      BY <3>1, <3>2, <3>3
  <2> QED
    BY <2>1, <2>2 DEF NumbersInv
<1>10. CacheInv'
  <2>1. Len(cache) \in 1 .. Len(cache) /\ cache[Len(cache)] = m
    BY CurrentKnows DEF StoreInv, CacheInv
  <2>2. ASSUME NEW k \in 1 .. Len(cache)
        PROVE  Knows(cache[k])'
    <3>1. cache[k] \in Runs
      BY CacheElements DEF StoreInv, CacheInv
    <3>2. CASE k = Len(cache)
      BY <1>1, <1>5, <1>6, <1>7, <2>1, <3>2 DEF StoreInv, DirsInv, NumbersInv, Knows
    <3>3. CASE k # Len(cache)
      <4>1. SessionOf[cache[k]] # s
        BY <2>1, <3>3 DEF StoreInv, CacheInv, Distinct
      <4>2. cache[k] # m
        BY <4>1
      <4>3. Knows(cache[k])
        BY DEF StoreInv, CacheInv
      <4>4. blocks'[SessionOf[cache[k]]] = blocks[SessionOf[cache[k]]]
        BY <1>1, <1>5, <3>1, <4>1, SessionsOfRuns DEF StoreInv, DirsInv
      <4> QED
        BY <1>5, <3>1, <4>2, <4>3, <4>4 DEF StoreInv, NumbersInv, Knows
    <3> QED
      BY <3>2, <3>3
  <2> QED
    BY <1>5, <2>2 DEF StoreInv, CacheInv
<1> QED
  BY <1>8, <1>9, <1>10 DEF StoreInv

\* The session's manager becomes the newest of the cache; a new one finds on disk
\* what there is.
LEMMA LookupKeeps ==
  ASSUME StoreInv, NEW r \in Runs, Lookup(r)
  PROVE  StoreInv'
<1> DEFINE s == SessionOf[r]
<1>1. s \in Sessions /\ blocks[s] \in Dirs /\ blocks' = blocks
  BY SessionsOfRuns DEF StoreInv, DirsInv, Lookup
<1>2. DirsInv'
  BY <1>1 DEF StoreInv, DirsInv
<1>3. CASE Kept(s) # {}
  <2>1. PICK k \in Kept(s) : /\ current' = cache[k]
                             /\ cache' = MovedToEnd(k)
                             /\ UNCHANGED <<active, count>>
    BY <1>3 DEF Lookup
  <2>2. k \in 1 .. Len(cache)
    BY <2>1 DEF Kept
  <2>3. /\ cache' \in Seq(Runs)
        /\ cache' # <<>>
        /\ cache'[Len(cache')] = current'
        /\ \A j \in 1 .. Len(cache') : \E i \in 1 .. Len(cache) : cache'[j] = cache[i]
        /\ Distinct(cache')
    BY <2>1, <2>2, MovedLast DEF StoreInv, CacheInv
  <2>4. NumbersInv'
    BY <1>1, <2>1 DEF StoreInv, NumbersInv
  <2>5. \A q \in Runs : Knows(q) => Knows(q)'
    BY <1>1, <2>1 DEF Knows
  <2>6. CacheInv'
    BY <2>3, <2>5, CacheElements DEF StoreInv, CacheInv
  <2> QED
    BY <1>2, <2>4, <2>6 DEF StoreInv
<1>4. CASE Kept(s) = {}
  <2>1. /\ current' = r
        /\ cache' = IF Len(cache) < MaxContexts THEN Append(cache, r)
                                                ELSE Append(Tail(cache), r)
        /\ count' = [count EXCEPT ![r] = Len(blocks[s])]
        /\ active' = [active EXCEPT ![r] = ActiveFound(blocks[s])]
    BY <1>4 DEF Lookup, CountFound
  <2>2. Len(blocks[s]) \in Nat /\ (blocks[s] # <<>> <=> Len(blocks[s]) > 0)
    BY <1>1, EmptySeq, LenProperties DEF Dirs
  <2>3. ActiveFound(blocks[s]) = ActiveOf(blocks[s])
    BY <2>2 DEF ActiveFound, ActiveOf, CountFound
  <2>4. ActiveOf(blocks[s]) \in 0 .. Len(blocks[s])
    BY <1>1, ActiveInRange
  <2>5. NumbersInv'
    <3>1. active' \in [Runs -> Nat] /\ count' \in [Runs -> Nat]
      BY <2>1, <2>2, <2>3, <2>4 DEF StoreInv, NumbersInv
    <3>2. \A q \in Runs : active'[q] <= count'[q] /\ count'[q] <= Len(blocks'[SessionOf[q]])
      BY <1>1, <2>1, <2>2, <2>3, <2>4 DEF StoreInv, NumbersInv
    <3> QED
      BY <3>1, <3>2 DEF NumbersInv
  <2>6. \A k \in 1 .. Len(cache) : cache[k] \in Runs /\ SessionOf[cache[k]] # s
    BY <1>4, CacheElements DEF Kept, StoreInv, CacheInv
  <2>7. Knows(r)'
    BY <1>1, <2>1, <2>3 DEF Knows, StoreInv, NumbersInv
  <2>8. \A q \in Runs : Knows(q) /\ q # r => Knows(q)'
    BY <1>1, <2>1 DEF Knows, StoreInv, NumbersInv
  <2>9. /\ cache' \in Seq(Runs)
        /\ cache' # <<>>
        /\ cache'[Len(cache')] = r
        /\ \A j \in 1 .. Len(cache') :
              cache'[j] = r \/ \E i \in 1 .. Len(cache) : cache'[j] = cache[i]
        /\ Distinct(cache')
    <3>1. CASE Len(cache) < MaxContexts
      BY <2>1, <2>6, <3>1, AddedLast DEF StoreInv, CacheInv
    <3>2. CASE ~(Len(cache) < MaxContexts)
      <4> DEFINE c == Tail(cache)
      <4>1. cache # <<>>
        <5>1. MaxContexts > 0 /\ MaxContexts \in Nat
          BY BlocksAssumption
        <5>2. cache = <<>> => Len(cache) = 0
          BY EmptySeq
        <5> QED
          BY <3>2, <5>1, <5>2
      <4>2. /\ c \in Seq(Runs)
            /\ Distinct(c)
            /\ \A j \in 1 .. Len(c) : \E i \in 1 .. Len(cache) : c[j] = cache[i]
        BY <4>1, OldestLeft DEF StoreInv, CacheInv
      <4>3. cache' = Append(c, r)
        BY <2>1, <3>2
      <4> HIDE DEF c
      <4>4. \A j \in 1 .. Len(c) : SessionOf[c[j]] # SessionOf[r]
        BY <2>6, <4>2
      <4>5. /\ cache' \in Seq(Runs)
            /\ cache' # <<>>
            /\ cache'[Len(cache')] = r
            /\ \A j \in 1 .. Len(cache') : cache'[j] = r \/ \E i \in 1 .. Len(c) : cache'[j] = c[i]
            /\ Distinct(cache')
        BY <4>2, <4>3, <4>4, AddedLast
      <4> QED
        BY <4>2, <4>5
    <3> QED
      BY <3>1, <3>2
  <2>10. CacheInv'
    <3>1. \A i \in 1 .. Len(cache) : /\ cache[i] \in Runs
                                     /\ cache[i] # r
                                     /\ Knows(cache[i])
      BY <2>6 DEF StoreInv, CacheInv
    <3> QED
      BY <2>1, <2>7, <2>8, <2>9, <3>1 DEF CacheInv
  <2> QED
    BY <1>2, <2>5, <2>10 DEF StoreInv
<1> QED
  BY <1>3, <1>4

\* Whatever a death leaves of a block's start can be recovered from.
LEMMA PartialStartsSound ==
  ASSUME StoreInv, current \in Runs, NEW r \in Runs, NEW d \in PartialStarts(r)
  PROVE  d \in Dirs /\ OneInput(d) /\ LastActive(d)
<1> DEFINE m == current
           bs == blocks[SessionOf[m]]
           n == count[m] + 1
           sealed == Seal(bs, active[m])
           made == MakeDir(sealed, n)
           begun == Appended(made, n, Event("user", r, 0))
           torn == Appended(made, n, Torn(r))
<1>1. bs \in Dirs /\ OneInput(bs) /\ LastActive(bs)
  BY SessionsOfRuns DEF StoreInv, DirsInv
<1>2. count[m] = Len(bs) /\ active[m] = ActiveOf(bs)
  BY CurrentKnows DEF StoreInv, Knows
<1>3. Event("user", r, 0) \in Events /\ Torn(r) \in Events /\ "broken" \in Metas
  BY DEF Events, Event, Torn, Metas
<1>4. /\ sealed \in Dirs /\ OneInput(sealed) /\ NoneActive(sealed)
      /\ made \in Dirs /\ OneInput(made) /\ NoneActive(made)
      /\ begun \in Dirs /\ OneInput(begun) /\ NoneActive(begun)
      /\ n \in 1 .. Len(begun)
  BY <1>1, <1>2, <1>3, NextBlock
<1>5. torn \in Dirs /\ OneInput(torn) /\ NoneActive(torn)
  BY <1>1, <1>2, <1>3, NextBlock
<1>6. \/ d = sealed
      \/ d = made
      \/ d = torn
      \/ d = begun
      \/ d = WriteMeta(begun, n, "broken")
      \/ active[m] # 0 /\ d = WriteMeta(bs, active[m], "broken")
  BY DEF PartialStarts, Starter
<1>7. active[m] # 0 => active[m] \in 1 .. Len(bs)
  BY <1>1, <1>2, ActiveInRange
<1> HIDE DEF begun, torn, made, sealed, n, bs, m
<1>8. CASE d \in {sealed, made, torn, begun}
  BY <1>4, <1>5, <1>8 DEF NoneActive, LastActive
<1>9. CASE d = WriteMeta(begun, n, "broken")
  <2>1. LastActive(begun)
    BY <1>4 DEF NoneActive, LastActive
  <2> QED
    BY <1>3, <1>4, <1>9, <2>1, MetaKeeps
<1>10. CASE active[m] # 0 /\ d = WriteMeta(bs, active[m], "broken")
  BY <1>1, <1>3, <1>7, <1>10, MetaKeeps
<1> QED
  BY <1>6, <1>8, <1>9, <1>10

\* What a death leaves on disk, told apart.
LEMMA CrashLeaves ==
  ASSUME Crash
  PROVE  \/ blocks' = blocks
         \/ \E r \in {q \in Runs : pc[q] = "loading"} : \E d \in PartialStarts(r) :
               blocks' = [blocks EXCEPT ![SessionOf[current]] = d]
         \/ \E r \in {q \in Runs : /\ pc[q] \in {"thinking", "calling", "results"}
                                   /\ active[Writes(q)] # 0} :
               blocks' = [blocks EXCEPT ![SessionOf[Writes(r)]] =
                             Appended(@, active[Writes(r)], Torn(r))]
BY DEF Crash, Remains

\* The next process finds sound directories and an empty cache.
LEMMA CrashKeeps ==
  ASSUME StoreInv, RunsInv, Crash
  PROVE  StoreInv'
<1>1. /\ active' = [r \in Runs |-> 0]
      /\ count' = [r \in Runs |-> 0]
      /\ cache' = <<>>
      /\ current' = None
  BY DEF Crash
<1>2. DirsInv'
  <2>1. CASE blocks' = blocks
    BY <2>1 DEF StoreInv, DirsInv
  <2>2. ASSUME NEW r \in Runs, pc[r] = "loading", NEW d \in PartialStarts(r),
               blocks' = [blocks EXCEPT ![SessionOf[current]] = d]
        PROVE  DirsInv'
    <3>1. current \in Runs
      BY <2>2 DEF RunsInv, GoingOn, Ended
    <3>2. d \in Dirs /\ OneInput(d) /\ LastActive(d)
      BY <3>1, PartialStartsSound
    <3> QED
      BY <2>2, <3>1, <3>2, SessionsOfRuns DEF StoreInv, DirsInv
  <2>3. ASSUME NEW r \in Runs, pc[r] \in {"thinking", "calling", "results"},
               active[Writes(r)] # 0,
               blocks' = [blocks EXCEPT ![SessionOf[Writes(r)]] =
                             Appended(@, active[Writes(r)], Torn(r))]
        PROVE  DirsInv'
    <3>1. PICK m \in Runs : m = Writes(r)
      BY <2>3 DEF RunsInv, GoingOn, Ended, Writes
    <3> DEFINE bs == blocks[SessionOf[m]]
               d == Appended(bs, active[m], Torn(r))
    <3>2. bs \in Dirs /\ OneInput(bs) /\ LastActive(bs) /\ SessionOf[m] \in Sessions
      BY SessionsOfRuns DEF StoreInv, DirsInv
    <3>3. active[m] \in 1 .. Len(bs)
      <4>1. Len(bs) \in Nat
        BY <3>2, ActiveInRange
      <4>2. /\ active[m] \in Nat
            /\ count[m] \in Nat
            /\ active[m] <= count[m]
            /\ count[m] <= Len(bs)
        BY DEF StoreInv, NumbersInv
      <4> QED
        BY <2>3, <3>1, <4>1, <4>2
    <3>4. Torn(r) \in Events /\ Torn(r).type # "user"
      BY DEF Torn, Event, Events
    <3>5. /\ d \in Dirs
          /\ Len(d) = Len(bs)
          /\ \A b \in 1 .. Len(bs) : d[b].meta = bs[b].meta
      BY <3>2, <3>3, <3>4, EventAppended
    <3>6. OneInput(d)
      BY <3>2, <3>3, <3>4, InputStaysFirst
    <3>7. blocks' = [blocks EXCEPT ![SessionOf[m]] = d]
      BY <2>3, <3>1
    <3> HIDE DEF d
    <3>8. LastActive(d)
      BY <3>2, <3>5 DEF LastActive
    <3> QED
      BY <3>2, <3>5, <3>6, <3>7, <3>8 DEF StoreInv, DirsInv
  <2> QED
    BY <2>1, <2>2, <2>3, CrashLeaves
<1>3. NumbersInv'
  <2>1. \A q \in Runs : 0 <= Len(blocks'[SessionOf[q]])
    <3> SUFFICES ASSUME NEW q \in Runs
                 PROVE  0 <= Len(blocks'[SessionOf[q]])
      OBVIOUS
    <3>1. blocks'[SessionOf[q]] \in Dirs
      BY <1>2, SessionsOfRuns DEF DirsInv
    <3> QED
      BY <3>1, ActiveInRange
  <2> QED
    BY <1>1, <2>1 DEF NumbersInv
<1>4. CacheInv'
  BY <1>1, EmptySeq, BlocksAssumption DEF CacheInv, Distinct
<1> QED
  BY <1>2, <1>3, <1>4 DEF StoreInv

-----------------------------------------------------------------------------
(* The theorems *)

IInv == RunsInv /\ StoreInv

LEMMA InitIInv == Init => IInv
<1> SUFFICES ASSUME Init
             PROVE  IInv
  OBVIOUS
<1>1. RunsInv
  <2>1. \A r \in Runs : CallsOf[r] \in Nat
    BY BlocksAssumption
  <2>2. 0 \in 0 .. MaxCrashes
    BY BlocksAssumption
  <2> QED
    BY <2>1, <2>2 DEF Init, RunsInv, GoingOn, Places, Ended
<1>2. DirsInv
  BY EmptySeq DEF Init, DirsInv, Dirs, LastActive, OneInput
<1>3. NumbersInv
  <2>1. Len(<<>>) = 0
    BY EmptySeq
  <2> QED
    BY <2>1, SessionsOfRuns DEF Init, NumbersInv
<1>4. CacheInv
  BY EmptySeq, BlocksAssumption DEF Init, CacheInv, Distinct
<1> QED
  BY <1>1, <1>2, <1>3, <1>4 DEF IInv, StoreInv

LEMMA NextIInv == IInv /\ [Next]_vars => IInv'
<1> SUFFICES ASSUME IInv, [Next]_vars
             PROVE  IInv'
  OBVIOUS
<1>1. RunsInv /\ StoreInv /\ cache \in Seq(Runs)
  BY DEF IInv, StoreInv, CacheInv
<1>2. RunsInv'
  BY <1>1, RunsPreserved
<1>3. ASSUME NEW r \in Runs, NEW m \in Runs, NEW type \in {"plan", "call", "result"},
             NEW n \in Nat, Record(m, Event(type, r, n)), UNCHANGED mgrVars
      PROVE  StoreInv'
  <2>1. Event(type, r, n) \in Events /\ Event(type, r, n).type # "user"
    BY DEF Event, Events
  <2> QED
    BY <1>1, <1>3, <2>1, RecordKeeps
<1>4. \A r \in Runs : r \in GoingOn => current \in Runs /\ uses[r] \in Runs
  BY <1>1 DEF RunsInv
<1>5. ASSUME NEW r \in Runs, Lookup(r)
      PROVE  StoreInv'
  BY <1>1, <1>5, LookupKeeps
<1>6. ASSUME NEW r \in Runs, StartBlock(r)
      PROVE  StoreInv'
  <2>1. current \in Runs
    BY <1>4, <1>6 DEF StartBlock, GoingOn, Ended
  <2> QED
    BY <1>1, <1>6, <2>1, StartKeeps
<1>7. ASSUME NEW r \in Runs, RecordPlan(r)
      PROVE  StoreInv'
  <2>1. current \in Runs
    BY <1>4, <1>7 DEF RecordPlan, GoingOn, Ended
  <2> QED
    BY <1>3, <1>7, <2>1 DEF RecordPlan
<1>8. ASSUME NEW r \in Runs, RecordCall(r)
      PROVE  StoreInv'
  <2>1. uses[r] \in Runs
    BY <1>4, <1>8 DEF RecordCall, GoingOn, Ended
  <2>2. called'[r] \in Nat
    BY <1>2 DEF RunsInv
  <2> QED
    BY <1>3, <1>8, <2>1, <2>2 DEF RecordCall
<1>9. ASSUME NEW r \in Runs, RecordResult(r)
      PROVE  StoreInv'
  <2>1. uses[r] \in Runs
    BY <1>4, <1>9 DEF RecordResult, GoingOn, Ended
  <2>2. AnsweredCall(r) \in Nat
    BY <1>1 DEF AnsweredCall, RunsInv
  <2> QED
    BY <1>3, <1>9, <2>1, <2>2 DEF RecordResult
<1>10. ASSUME UNCHANGED <<mgrVars, blocks>>
       PROVE  StoreInv'
  BY <1>1, <1>10, StoreStays
<1>11. ASSUME NEW r \in Runs, AskPrompt(r) \/ ReadPrompt(r) \/ Execute(r) \/ RunCalls(r)
                              \/ Finish(r) \/ Stop(r)
       PROVE  StoreInv'
  BY <1>10, <1>11 DEF AskPrompt, ReadPrompt, Execute, RunCalls, Finish, Stop
<1>12. ASSUME Crash
       PROVE  StoreInv'
  BY <1>1, <1>12, CrashKeeps
<1>13. ASSUME UNCHANGED vars
       PROVE  StoreInv'
  BY <1>10, <1>13 DEF vars
<1>14. StoreInv'
  BY <1>5, <1>6, <1>7, <1>8, <1>9, <1>11, <1>12, <1>13 DEF Next, RunNext
<1> QED
  BY <1>2, <1>14 DEF IInv

THEOREM Invariance == Spec => []IInv
<1>1. Init => IInv
  BY InitIInv
<1>2. IInv /\ [Next]_vars => IInv'
  BY NextIInv
<1> QED
  BY <1>1, <1>2, PTL DEF Spec

\* Every variable of an agent process holds what the code keeps there, results never
\* outnumber calls, and no manager numbers a block that is not on disk.
THEOREM TypeCorrect == Spec => []TypeOK
<1>1. IInv => TypeOK
  BY DEF IInv, RunsInv, StoreInv, DirsInv, NumbersInv, CacheInv, TypeOK, Dirs, Block, Metas,
         Places
<1> QED
  BY <1>1, Invariance, PTL

\* However many runs overlap and however often the process dies, the only block that
\* can be active is the last one, where BlockManager looks for it when it recovers.
THEOREM ActiveBlockCorrect == Spec => []OneActiveBlock
<1>1. IInv => OneActiveBlock
  BY DEF IInv, StoreInv, DirsInv, LastActive, OneActiveBlock
<1> QED
  BY <1>1, Invariance, PTL

\* However small the cache is, and though managers it has forgotten go on being used,
\* there is one manager of a session in it, and that one knows the whole directory.
THEOREM CacheCorrect == Spec => []CachedIsCurrent
<1>1. IInv => CachedIsCurrent
  <2> SUFFICES ASSUME IInv, NEW k \in 1 .. Len(cache)
               PROVE  LET m == cache[k]
                          bs == blocks[SessionOf[m]]
                      IN  /\ \A l \in 1 .. Len(cache) :
                                SessionOf[cache[l]] = SessionOf[m] => l = k
                          /\ count[m] = Len(bs)
                          /\ active[m] = IF bs # <<>> /\ bs[Len(bs)].meta = "active"
                                         THEN Len(bs) ELSE 0
    BY DEF CachedIsCurrent
  <2>1. Distinct(cache) /\ Knows(cache[k])
    BY DEF IInv, StoreInv, CacheInv
  <2> QED
    BY <2>1 DEF Distinct, Knows, ActiveOf
<1> QED
  BY <1>1, Invariance, PTL

\* No block ever holds two user inputs, and none holds one that is not its first
\* event: a manager that starts a block knows every block of the session.
THEOREM InputCorrect == Spec => []OneInputPerBlock
<1>1. IInv => OneInputPerBlock
  BY DEF IInv, StoreInv, DirsInv, OneInput, OneInputPerBlock
<1> QED
  BY <1>1, Invariance, PTL

-----------------------------------------------------------------------------
(* Runs that do not overlap *)

\* The events of a block are of the run that opened it and of the block's session, and
\* none follows a torn line.
Own(bs, s) ==
    \A b \in 1 .. Len(bs) : \A k \in 1 .. Len(bs[b].events) :
        /\ bs[b].events[k].run = bs[b].events[1].run
        /\ SessionOf[bs[b].events[k].run] = s
        /\ bs[b].events[k].type = "torn" => k = Len(bs[b].events)

\* What bs has sealed, ds holds sealed and as it was.
Frozen(bs, ds) ==
    \A b \in 1 .. Len(bs) : bs[b].meta = "sealed" =>
        ds[b].meta = "sealed" /\ ds[b].events = bs[b].events

\* A block to which a run may add its events.
Opened(block, r) ==
    /\ block.events # <<>>
    /\ block.events[1].run = r
    /\ \A k \in 1 .. Len(block.events) : block.events[k].type # "torn"

LEMMA MetaOwn ==
  ASSUME NEW bs \in Dirs, NEW n \in 1 .. Len(bs), NEW status \in Metas
  PROVE  /\ \A s : Own(bs, s) => Own(WriteMeta(bs, n, status), s)
         /\ bs[n].meta # "sealed" => Frozen(bs, WriteMeta(bs, n, status))
<1> DEFINE w == WriteMeta(bs, n, status)
<1>1. /\ Len(w) = Len(bs)
      /\ \A b \in 1 .. Len(bs) : /\ w[b].meta = IF b = n THEN status ELSE bs[b].meta
                                 /\ w[b].events = bs[b].events
  BY MetaWritten
<1> HIDE DEF w
<1>2. \A s : Own(bs, s) => Own(w, s)
  BY <1>1 DEF Own
<1>3. bs[n].meta # "sealed" => Frozen(bs, w)
  BY <1>1 DEF Frozen
<1> QED
  BY <1>2, <1>3 DEF w

LEMMA EventOwn ==
  ASSUME NEW bs \in Dirs, NEW n \in 1 .. Len(bs), NEW e \in Events,
         bs[n].events = <<>> \/ Opened(bs[n], e.run)
  PROVE  /\ Own(bs, SessionOf[e.run]) => Own(Appended(bs, n, e), SessionOf[e.run])
         /\ e.type # "torn" => Opened(Appended(bs, n, e)[n], e.run)
<1> DEFINE d == Appended(bs, n, e)
           old == bs[n].events
           new == d[n].events
<1>1. /\ Len(d) = Len(bs)
      /\ \A b \in 1 .. Len(bs) : b # n => d[b].events = bs[b].events
      /\ new = Append(old, e)
  BY EventAppended
<1>2. old \in Seq(Events)
  <2>1. bs[n] \in Block
    BY ElementOfSeq DEF Dirs
  <2> QED
    BY <2>1 DEF Block
<1> HIDE DEF d, old, new
<1>3. /\ Len(old) \in Nat
      /\ new # <<>>
      /\ Len(new) = Len(old) + 1
      /\ \A k \in 1 .. Len(old) : new[k] = old[k]
      /\ new[Len(old) + 1] = e
  BY <1>1, <1>2, AppendProperties, LenProperties
<1>4. /\ old = <<>> => Len(old) = 0
      /\ old # <<>> => Len(old) > 0
  BY <1>2, <1>3, EmptySeq
<1>5. \/ old = <<>>
      \/ /\ old # <<>>
         /\ old[1].run = e.run
         /\ \A k \in 1 .. Len(old) : old[k].type # "torn"
  BY DEF Opened, old
<1>6. new[1].run = e.run
  BY <1>3, <1>4, <1>5
<1>7. \A k \in 1 .. Len(new) : k \in 1 .. Len(old) \/ k = Len(old) + 1
  BY <1>3
<1>8. ASSUME Own(bs, SessionOf[e.run])
      PROVE  Own(d, SessionOf[e.run])
  <2>1. \A k \in 1 .. Len(old) : old[k].run = e.run
    BY <1>3, <1>4, <1>5, <1>8 DEF Own, old
  <2>2. \A k \in 1 .. Len(new) : /\ new[k].run = e.run
                                 /\ new[k].type = "torn" => k = Len(new)
    BY <1>3, <1>4, <1>5, <1>7, <2>1
  <2>3. \A k \in 1 .. Len(d[n].events) :
           /\ d[n].events[k].run = d[n].events[1].run
           /\ SessionOf[d[n].events[k].run] = SessionOf[e.run]
           /\ d[n].events[k].type = "torn" => k = Len(d[n].events)
    BY <1>6, <2>2 DEF new
  <2> QED
    BY <1>1, <1>8, <2>3 DEF Own
<1>9. ASSUME e.type # "torn"
      PROVE  Opened(d[n], e.run)
  <2>1. \A k \in 1 .. Len(new) : new[k].type # "torn"
    BY <1>3, <1>4, <1>5, <1>7, <1>9
  <2> QED
    BY <1>3, <1>6, <2>1 DEF Opened, new
<1> QED
  BY <1>8, <1>9 DEF d

\* The steps towards the next block leave sealed blocks alone and give the new one to
\* its run.
LEMMA NextBlockOwn ==
  ASSUME NEW bs \in Dirs, OneInput(bs), LastActive(bs), NEW e \in Events
  PROVE  LET n == Len(bs) + 1
             sealed == Seal(bs, ActiveOf(bs))
             made == MakeDir(sealed, n)
             begun == Appended(made, n, e)
         IN  /\ Frozen(bs, sealed) /\ Frozen(bs, made) /\ Frozen(bs, begun)
             /\ begun[n].meta # "sealed"
             /\ Own(bs, SessionOf[e.run]) => /\ Own(sealed, SessionOf[e.run])
                                             /\ Own(made, SessionOf[e.run])
                                             /\ Own(begun, SessionOf[e.run])
             /\ e.type # "torn" => Opened(begun[n], e.run)
<1> DEFINE n == Len(bs) + 1
           sealed == Seal(bs, ActiveOf(bs))
           made == MakeDir(sealed, n)
           begun == Appended(made, n, e)
           s == SessionOf[e.run]
<1>1. ActiveOf(bs) \in 0 .. Len(bs) /\ Len(bs) \in Nat
  BY ActiveInRange
<1>2. /\ sealed \in Dirs
      /\ Len(sealed) = Len(bs)
      /\ \A b \in 1 .. Len(bs) :
           /\ sealed[b].meta = IF b = ActiveOf(bs) THEN "sealed" ELSE bs[b].meta
           /\ sealed[b].events = bs[b].events
  BY <1>1, Sealed
<1>3. /\ made \in Dirs
      /\ Len(made) = n
      /\ \A b \in 1 .. Len(bs) : made[b] = sealed[b]
      /\ made[n] = [meta |-> "none", events |-> <<>>]
  BY <1>2, DirMade
<1>4. n \in 1 .. Len(made) /\ \A b \in 1 .. Len(made) : b = n \/ b \in 1 .. Len(bs)
  BY <1>1, <1>3
<1>5. \A b \in 1 .. Len(bs) : b \in 1 .. Len(made) /\ b # n
  BY <1>1, <1>3
<1>6. /\ \A b \in 1 .. Len(made) : begun[b].meta = made[b].meta
      /\ \A b \in 1 .. Len(made) : b # n => begun[b].events = made[b].events
  BY <1>3, <1>4, EventAppended
<1>7. /\ Own(made, s) => Own(begun, s)
      /\ e.type # "torn" => Opened(begun[n], e.run)
  BY <1>3, <1>4, EventOwn
<1>8. begun[n].meta # "sealed"
  BY <1>3, <1>4, <1>6
<1>9. Frozen(bs, sealed)
  BY <1>2 DEF Frozen
<1> HIDE DEF begun, made, sealed, n, s
<1>10. Frozen(bs, made)
  BY <1>2, <1>3 DEF Frozen
<1>11. Frozen(bs, begun)
  BY <1>3, <1>5, <1>6, <1>10 DEF Frozen
<1>12. Own(bs, s) => Own(sealed, s)
  BY <1>2 DEF Own
<1>13. Own(sealed, s) => Own(made, s)
  <2>1. made[n].events = <<>> /\ Len(<<>>) = 0
    BY <1>3, EmptySeq
  <2>2. \A k \in 1 .. Len(made[n].events) : FALSE
    BY <2>1
  <2> QED
    BY <1>2, <1>3, <1>4, <2>2 DEF Own
<1> QED
  BY <1>7, <1>8, <1>9, <1>10, <1>11, <1>12, <1>13 DEF begun, made, sealed, n, s

\* One run at a time: it uses the agent's current manager, which is of its session, and
\* once it has started its block that is the manager's active one.
AloneInv ==
    /\ IsFiniteSet(GoingOn)
    /\ ~overlap =>
        /\ \A q \in GoingOn : \A r \in GoingOn : q = r
        /\ \A r \in GoingOn : uses[r] = current /\ SessionOf[current] = SessionOf[r]
        /\ \A r \in GoingOn : pc[r] # "loading" =>
              active[current] # 0 /\ Opened(blocks[SessionOf[r]][active[current]], r)
        /\ \A s \in Sessions : Own(blocks[s], s)

\* Sealed blocks stay sealed, and unless runs overlap stay as they are.
FrozenStep ==
    \A s \in Sessions : \A b \in 1 .. Len(blocks[s]) :
        blocks[s][b].meta = "sealed" =>
            /\ blocks'[s][b].meta = "sealed"
            /\ ~overlap => blocks'[s][b].events = blocks[s][b].events

LEMMA FrozenTransfers ==
  ASSUME DirsInv, NEW s \in Sessions, NEW d, blocks' = [blocks EXCEPT ![s] = d],
         Frozen(blocks[s], d)
  PROVE  FrozenStep
BY DEF DirsInv, Frozen, FrozenStep

LEMMA OwnTransfers ==
  ASSUME DirsInv, NEW s \in Sessions, NEW d, blocks' = [blocks EXCEPT ![s] = d],
         \A t \in Sessions : Own(blocks[t], t), Own(d, s)
  PROVE  \A t \in Sessions : Own(blocks'[t], t)
BY DEF DirsInv

\* Where a manager has an active block it is there.
LEMMA ActiveIsThere ==
  ASSUME StoreInv, NEW m \in Runs, active[m] # 0
  PROVE  /\ SessionOf[m] \in Sessions
         /\ blocks[SessionOf[m]] \in Dirs
         /\ active[m] \in 1 .. Len(blocks[SessionOf[m]])
<1>1. SessionOf[m] \in Sessions /\ blocks[SessionOf[m]] \in Dirs
  BY SessionsOfRuns DEF StoreInv, DirsInv
<1>2. Len(blocks[SessionOf[m]]) \in Nat
  BY <1>1, ActiveInRange
<1>3. /\ active[m] \in Nat
      /\ count[m] \in Nat
      /\ active[m] <= count[m]
      /\ count[m] <= Len(blocks[SessionOf[m]])
  BY DEF StoreInv, NumbersInv
<1> QED
  BY <1>1, <1>2, <1>3

\* A step of a run that begins and records nothing.
LEMMA QuietStep ==
  ASSUME AloneInv, UNCHANGED <<overlap, current, active, blocks>>,
         GoingOn' \subseteq GoingOn,
         \A q \in GoingOn' : /\ uses'[q] \in {uses[q], current}
                             /\ pc'[q] # "loading" => pc[q] # "loading"
  PROVE  AloneInv' /\ FrozenStep
<1>1. IsFiniteSet(GoingOn')
  BY FS_Subset DEF AloneInv
<1>2. FrozenStep
  BY DEF FrozenStep
<1> QED
  BY <1>1, <1>2 DEF AloneInv

\* Recording an event on the manager a run writes to; the part of a line a death leaves
\* is such an event, too.
LEMMA RecordStep ==
  ASSUME StoreInv, AloneInv, RunsInv, NEW r \in GoingOn, pc[r] # "loading",
         NEW m \in Runs, m = uses[r] \/ m = current, NEW e \in Events, e.run = r,
         active[m] # 0,
         blocks' = [blocks EXCEPT ![SessionOf[m]] = Appended(@, active[m], e)]
  PROVE  /\ FrozenStep
         /\ ~overlap => \A s \in Sessions : Own(blocks'[s], s)
         /\ ~overlap /\ e.type # "torn" =>
               Opened(blocks'[SessionOf[r]][active[current]], r)
<1> DEFINE s == SessionOf[m]
           bs == blocks[s]
           d == Appended(bs, active[m], e)
<1>1. s \in Sessions /\ bs \in Dirs /\ active[m] \in 1 .. Len(bs)
  BY ActiveIsThere
<1>2. /\ Len(d) = Len(bs)
      /\ \A b \in 1 .. Len(bs) : /\ d[b].meta = bs[b].meta
                                 /\ b # active[m] => d[b].events = bs[b].events
  BY <1>1, EventAppended
<1>3. blocks' = [blocks EXCEPT ![s] = d]
  OBVIOUS
<1>4. ASSUME ~overlap
      PROVE  /\ m = current
             /\ s = SessionOf[r]
             /\ Opened(bs[active[m]], e.run)
             /\ bs[active[m]].meta # "sealed"
  <2>1. m = current /\ s = SessionOf[r]
    BY <1>4 DEF AloneInv
  <2>2. Opened(bs[active[m]], e.run)
    BY <1>4, <2>1 DEF AloneInv
  <2>3. active[m] = ActiveOf(bs)
    BY <2>1, CurrentKnows DEF StoreInv, Knows
  <2>4. bs[active[m]].meta # "sealed"
    BY <2>3 DEF ActiveOf
  <2> QED
    BY <2>1, <2>2, <2>4
<1> HIDE DEF d
<1>5. FrozenStep
  <2>1. ASSUME NEW t \in Sessions, NEW b \in 1 .. Len(blocks[t]), blocks[t][b].meta = "sealed"
        PROVE  /\ blocks'[t][b].meta = "sealed"
               /\ ~overlap => blocks'[t][b].events = blocks[t][b].events
    <3>1. CASE t # s
      BY <1>1, <1>3, <2>1, <3>1 DEF StoreInv, DirsInv
    <3>2. CASE t = s
      <4>1. blocks'[t] = d
        BY <1>1, <1>3, <3>2 DEF StoreInv, DirsInv
      <4> QED
        BY <1>2, <1>4, <2>1, <3>2, <4>1
    <3> QED
      BY <3>1, <3>2
  <2> QED
    BY <2>1 DEF FrozenStep
<1>6. ASSUME ~overlap
      PROVE  \A t \in Sessions : Own(blocks'[t], t)
  <2>1. SessionOf[e.run] = s /\ \A t \in Sessions : Own(blocks[t], t)
    BY <1>4, <1>6 DEF AloneInv
  <2>2. Own(d, s)
    BY <1>1, <1>4, <1>6, <2>1, EventOwn DEF d
  <2> QED
    BY <1>1, <1>3, <2>1, <2>2, OwnTransfers DEF StoreInv
<1>7. ASSUME ~overlap, e.type # "torn"
      PROVE  Opened(blocks'[SessionOf[r]][active[current]], r)
  <2>1. Opened(d[active[m]], e.run)
    BY <1>1, <1>4, <1>7, EventOwn DEF d
  <2>2. blocks'[s] = d
    BY <1>1, <1>3 DEF StoreInv, DirsInv
  <2> QED
    BY <1>4, <1>7, <2>1, <2>2
<1> QED
  BY <1>5, <1>6, <1>7

LEMMA RecordAlone ==
  ASSUME IInv, AloneInv, NEW r \in GoingOn, pc[r] # "loading",
         NEW m \in Runs, m = uses[r] \/ m = current, NEW e \in Events, e.run = r,
         e.type # "torn", Record(m, e), UNCHANGED <<overlap, uses, current, active>>,
         GoingOn' \subseteq GoingOn,
         \A q \in GoingOn' : pc'[q] # "loading" => pc[q] # "loading"
  PROVE  AloneInv' /\ FrozenStep
<1>1. CASE active[m] = 0
  BY <1>1, QuietStep DEF Record
<1>2. CASE active[m] # 0
  <2>1. blocks' = [blocks EXCEPT ![SessionOf[m]] = Appended(@, active[m], e)]
    BY <1>2 DEF Record
  <2>2. /\ FrozenStep
        /\ ~overlap => \A s \in Sessions : Own(blocks'[s], s)
        /\ ~overlap => Opened(blocks'[SessionOf[r]][active[current]], r)
    BY <1>2, <2>1, RecordStep DEF IInv
  <2>3. IsFiniteSet(GoingOn')
    BY FS_Subset DEF AloneInv
  <2>4. ASSUME ~overlap, NEW q \in GoingOn'
        PROVE  q = r /\ uses[q] = current /\ SessionOf[current] = SessionOf[q]
               /\ active[current] # 0
    BY <2>4 DEF AloneInv
  <2> QED
    BY <2>2, <2>3, <2>4 DEF AloneInv
<1> QED
  BY <1>1, <1>2

LEMMA LookupAlone ==
  ASSUME IInv, AloneInv, NEW r \in Runs, Lookup(r)
  PROVE  AloneInv' /\ FrozenStep
<1>1. /\ pc' = [pc EXCEPT ![r] = "loading"]
      /\ Cardinality(GoingOn) < (IF overlap THEN MaxTogether ELSE 1)
      /\ UNCHANGED <<overlap, blocks>>
  BY DEF Lookup
<1>2. GoingOn' \subseteq GoingOn \cup {r} /\ pc'[r] = "loading"
  BY <1>1 DEF GoingOn, IInv, RunsInv
<1>3. IsFiniteSet(GoingOn')
  <2>1. IsFiniteSet(GoingOn \cup {r})
    BY FS_AddElement DEF AloneInv
  <2> QED
    BY <1>2, <2>1, FS_Subset
<1>4. ASSUME ~overlap
      PROVE  GoingOn' \subseteq {r}
  <2>1. Cardinality(GoingOn) < 1 /\ Cardinality(GoingOn) \in Nat
    BY <1>1, <1>4, FS_CardinalityType DEF AloneInv
  <2>2. GoingOn = {}
    BY <2>1, FS_EmptySet DEF AloneInv
  <2> QED
    BY <1>2, <2>2
<1>5. uses'[r] = current' /\ SessionOf[current'] = SessionOf[r]
  <2>1. CASE Kept(SessionOf[r]) # {}
    BY <2>1, CacheElements, SessionsOfRuns DEF Lookup, IInv, RunsInv, StoreInv, CacheInv
  <2>2. CASE Kept(SessionOf[r]) = {}
    BY <2>2 DEF Lookup, IInv, RunsInv
  <2> QED
    BY <2>1, <2>2
<1>6. FrozenStep
  BY <1>1 DEF FrozenStep
<1> QED
  BY <1>1, <1>2, <1>3, <1>4, <1>5, <1>6 DEF AloneInv

LEMMA StartAlone ==
  ASSUME IInv, AloneInv, NEW r \in Runs, StartBlock(r)
  PROVE  AloneInv' /\ FrozenStep
<1> DEFINE m == current
           s == SessionOf[m]
           bs == blocks[s]
           n == count[m] + 1
           e == Event("user", r, 0)
           begun == Appended(MakeDir(Seal(bs, active[m]), n), n, e)
           d == WriteMeta(begun, n, "active")
<1>1. r \in GoingOn /\ m \in Runs
  BY DEF StartBlock, IInv, RunsInv, GoingOn, Ended
<1>2. s \in Sessions /\ bs \in Dirs /\ OneInput(bs) /\ LastActive(bs)
  BY <1>1, SessionsOfRuns DEF IInv, StoreInv, DirsInv
<1>3. count[m] = Len(bs) /\ active[m] = ActiveOf(bs)
  BY <1>1, CurrentKnows DEF IInv, StoreInv, Knows
<1>4. e \in Events /\ e.run = r /\ e.type # "torn"
  BY DEF Events, Event
<1>5. /\ active' = [active EXCEPT ![m] = n]
      /\ blocks' = [blocks EXCEPT ![s] = d]
      /\ pc' = [pc EXCEPT ![r] = "thinking"]
      /\ UNCHANGED <<overlap, uses, current>>
  BY DEF StartBlock, Starter, BlockMade
<1>6. n \in Nat /\ n \in 1 .. Len(begun) /\ begun \in Dirs
  BY <1>2, <1>3, <1>4, NextBlock
<1>7. /\ Frozen(bs, begun)
      /\ begun[n].meta # "sealed"
      /\ Own(bs, SessionOf[r]) => Own(begun, SessionOf[r])
      /\ Opened(begun[n], r)
  BY <1>2, <1>3, <1>4, NextBlockOwn
<1>8. Len(bs) \in Nat /\ Len(begun) = Len(bs) + 1
  <2>1. Len(begun) = Len(bs) + 1
    BY <1>2, <1>3, <1>4, NextBlock
  <2> QED
    BY <1>2, <2>1, ActiveInRange
<1> HIDE DEF e, begun
<1>9. "active" \in Metas
  BY DEF Metas
<1>10. /\ Frozen(begun, d)
       /\ Own(begun, SessionOf[r]) => Own(d, SessionOf[r])
  BY <1>6, <1>7, <1>9, MetaOwn
<1>11. d[n].events = begun[n].events
  BY <1>6, <1>9, MetaWritten
<1> HIDE DEF d
<1>12. FrozenStep
  <2>1. \A b \in 1 .. Len(bs) : b \in 1 .. Len(begun)
    BY <1>8
  <2>2. Frozen(bs, d)
    BY <1>7, <1>10, <2>1 DEF Frozen
  <2> QED
    BY <1>2, <1>5, <2>2, FrozenTransfers DEF IInv, StoreInv
<1>13. GoingOn' \subseteq GoingOn
  BY <1>1, <1>5 DEF GoingOn, IInv, RunsInv
<1>14. IsFiniteSet(GoingOn')
  BY <1>13, FS_Subset DEF AloneInv
<1>15. ASSUME ~overlap
       PROVE  /\ s = SessionOf[r]
              /\ active'[current'] # 0
              /\ Opened(blocks'[s][active'[current']], r)
              /\ \A t \in Sessions : Own(blocks'[t], t)
  <2>1. s = SessionOf[r] /\ \A t \in Sessions : Own(blocks[t], t)
    BY <1>1, <1>15 DEF AloneInv
  <2>2. Own(d, s)
    BY <1>2, <1>7, <1>10, <2>1
  <2>3. \A t \in Sessions : Own(blocks'[t], t)
    BY <1>2, <1>5, <2>1, <2>2, OwnTransfers DEF IInv, StoreInv
  <2>4. active'[current'] = n /\ n # 0
    BY <1>1, <1>3, <1>5, <1>8 DEF IInv, StoreInv, NumbersInv
  <2>5. blocks'[s] = d
    BY <1>2, <1>5 DEF IInv, StoreInv, DirsInv
  <2>6. Opened(d[n], r)
    BY <1>7, <1>11 DEF Opened
  <2> QED
    BY <2>1, <2>3, <2>4, <2>5, <2>6
<1> QED
  BY <1>1, <1>5, <1>12, <1>13, <1>14, <1>15 DEF AloneInv

LEMMA PartialStartsOwn ==
  ASSUME StoreInv, current \in Runs, NEW r \in Runs, NEW d \in PartialStarts(r)
  PROVE  /\ Frozen(blocks[SessionOf[current]], d)
         /\ Own(blocks[SessionOf[current]], SessionOf[r]) => Own(d, SessionOf[r])
<1> DEFINE m == current
           bs == blocks[SessionOf[m]]
           n == count[m] + 1
           e == Event("user", r, 0)
           sealed == Seal(bs, active[m])
           made == MakeDir(sealed, n)
           begun == Appended(made, n, e)
           torn == Appended(made, n, Torn(r))
           s == SessionOf[r]
<1>1. bs \in Dirs /\ OneInput(bs) /\ LastActive(bs)
  BY SessionsOfRuns DEF StoreInv, DirsInv
<1>2. count[m] = Len(bs) /\ active[m] = ActiveOf(bs)
  BY CurrentKnows DEF StoreInv, Knows
<1>3. /\ e \in Events /\ e.run = r
      /\ Torn(r) \in Events /\ Torn(r).run = r
      /\ "broken" \in Metas
  BY DEF Events, Event, Torn, Metas
<1>4. n \in 1 .. Len(begun) /\ begun \in Dirs /\ Len(begun) = Len(bs) + 1
  BY <1>1, <1>2, <1>3, NextBlock
<1>5. /\ Frozen(bs, sealed) /\ Frozen(bs, made) /\ Frozen(bs, begun)
      /\ begun[n].meta # "sealed"
      /\ Own(bs, s) => Own(sealed, s) /\ Own(made, s) /\ Own(begun, s)
  BY <1>1, <1>2, <1>3, NextBlockOwn
<1>6. Frozen(bs, torn) /\ (Own(bs, s) => Own(torn, s))
  BY <1>1, <1>2, <1>3, NextBlockOwn
<1>7. \/ d = sealed
      \/ d = made
      \/ d = torn
      \/ d = begun
      \/ d = WriteMeta(begun, n, "broken")
      \/ active[m] # 0 /\ d = WriteMeta(bs, active[m], "broken")
  BY DEF PartialStarts, Starter
<1>8. /\ active[m] # 0 => active[m] \in 1 .. Len(bs) /\ bs[active[m]].meta # "sealed"
      /\ Len(bs) \in Nat
  BY <1>1, <1>2, ActiveInRange DEF ActiveOf
<1> HIDE DEF e, begun, torn, made, sealed, n, bs, m, s
<1>9. CASE d \in {sealed, made, torn, begun}
  BY <1>5, <1>6, <1>9 DEF bs, s, m
<1>10. CASE d = WriteMeta(begun, n, "broken")
  <2>1. Frozen(begun, d) /\ (Own(begun, s) => Own(d, s))
    BY <1>3, <1>4, <1>5, <1>10, MetaOwn
  <2>2. \A b \in 1 .. Len(bs) : b \in 1 .. Len(begun)
    BY <1>4, <1>8
  <2>3. Frozen(bs, d)
    BY <1>5, <2>1, <2>2 DEF Frozen
  <2> QED
    BY <1>5, <2>1, <2>3 DEF bs, s, m
<1>11. CASE active[m] # 0 /\ d = WriteMeta(bs, active[m], "broken")
  <2>1. Frozen(bs, d) /\ (Own(bs, s) => Own(d, s))
    BY <1>1, <1>3, <1>8, <1>11, MetaOwn
  <2> QED
    BY <2>1 DEF bs, s, m
<1> QED
  BY <1>7, <1>9, <1>10, <1>11

LEMMA CrashAlone ==
  ASSUME IInv, AloneInv, Crash
  PROVE  AloneInv' /\ FrozenStep
<1>1. GoingOn' = {} /\ overlap' = overlap
  BY DEF Crash, GoingOn, IInv, RunsInv, Ended
<1>2. IsFiniteSet(GoingOn')
  BY <1>1, FS_EmptySet
<1>3. FrozenStep /\ (~overlap => \A s \in Sessions : Own(blocks'[s], s))
  <2>1. CASE blocks' = blocks
    BY <2>1 DEF FrozenStep, AloneInv
  <2>2. ASSUME NEW r \in Runs, pc[r] = "loading", NEW d \in PartialStarts(r),
               blocks' = [blocks EXCEPT ![SessionOf[current]] = d]
        PROVE  FrozenStep /\ (~overlap => \A s \in Sessions : Own(blocks'[s], s))
    <3> DEFINE s == SessionOf[current]
    <3>1. r \in GoingOn /\ current \in Runs
      BY <2>2 DEF GoingOn, Ended, IInv, RunsInv
    <3>2. s \in Sessions
      BY <3>1, SessionsOfRuns
    <3>3. Frozen(blocks[s], d) /\ (Own(blocks[s], SessionOf[r]) => Own(d, SessionOf[r]))
      BY <3>1, PartialStartsOwn DEF IInv
    <3>4. FrozenStep
      BY <2>2, <3>2, <3>3, FrozenTransfers DEF IInv, StoreInv
    <3>5. ASSUME ~overlap
          PROVE  \A t \in Sessions : Own(blocks'[t], t)
      <4>1. s = SessionOf[r] /\ \A t \in Sessions : Own(blocks[t], t)
        BY <3>1, <3>5 DEF AloneInv
      <4> QED
        BY <2>2, <3>2, <3>3, <4>1, OwnTransfers DEF IInv, StoreInv
    <3> QED
      BY <3>4, <3>5
  <2>3. ASSUME NEW r \in Runs, pc[r] \in {"thinking", "calling", "results"},
               active[Writes(r)] # 0,
               blocks' = [blocks EXCEPT ![SessionOf[Writes(r)]] =
                             Appended(@, active[Writes(r)], Torn(r))]
        PROVE  FrozenStep /\ (~overlap => \A s \in Sessions : Own(blocks'[s], s))
    <3>1. r \in GoingOn /\ pc[r] # "loading"
      BY <2>3 DEF GoingOn, Ended
    <3>2. PICK m \in Runs : m = Writes(r)
      BY <3>1 DEF IInv, RunsInv, Writes
    <3>3. m = uses[r] \/ m = current
      BY <3>2 DEF Writes
    <3>4. Torn(r) \in Events /\ Torn(r).run = r
      BY <2>3 DEF Torn, Event, Events
    <3> QED
      BY <2>3, <3>1, <3>2, <3>3, <3>4, RecordStep DEF IInv
  <2> QED
    BY <2>1, <2>2, <2>3, CrashLeaves
<1> QED
  BY <1>1, <1>2, <1>3 DEF AloneInv

LEMMA InitAlone == Init => AloneInv
<1> SUFFICES ASSUME Init
             PROVE  AloneInv
  OBVIOUS
<1>1. GoingOn = {}
  BY DEF Init, GoingOn
<1>2. \A s \in Sessions : Own(blocks[s], s)
  <2>1. Len(<<>>) = 0
    BY EmptySeq
  <2> QED
    BY <2>1 DEF Init, Own
<1> QED
  BY <1>1, <1>2, FS_EmptySet DEF AloneInv

LEMMA NextAlone == IInv /\ IInv' /\ AloneInv /\ [Next]_vars => AloneInv' /\ FrozenStep
<1> SUFFICES ASSUME IInv, IInv', AloneInv, [Next]_vars
             PROVE  AloneInv' /\ FrozenStep
  OBVIOUS
<1>1. \A r \in GoingOn : r \in Runs /\ current \in Runs /\ uses[r] \in Runs
  BY DEF IInv, RunsInv, GoingOn
<1>2. ASSUME NEW r \in Runs, NEW type \in {"plan", "call", "result"}, NEW n \in Nat
      PROVE  /\ Event(type, r, n) \in Events
             /\ Event(type, r, n).run = r
             /\ Event(type, r, n).type # "torn"
  BY DEF Event, Events
<1>3. ASSUME NEW r \in Runs, RecordPlan(r)
      PROVE  AloneInv' /\ FrozenStep
  <2>1. /\ r \in GoingOn
        /\ pc[r] # "loading"
        /\ GoingOn' \subseteq GoingOn
        /\ \A q \in GoingOn' : pc'[q] # "loading" => pc[q] # "loading"
    BY <1>3 DEF RecordPlan, GoingOn, Ended, IInv, RunsInv
  <2>2. Record(current, Event("plan", r, 0)) /\ UNCHANGED <<overlap, uses, current, active>>
    BY <1>3 DEF RecordPlan, mgrVars
  <2> QED
    BY <1>1, <1>2, <2>1, <2>2, RecordAlone
<1>4. ASSUME NEW r \in Runs, RecordCall(r)
      PROVE  AloneInv' /\ FrozenStep
  <2>1. /\ r \in GoingOn
        /\ pc[r] # "loading"
        /\ GoingOn' \subseteq GoingOn
        /\ \A q \in GoingOn' : pc'[q] # "loading" => pc[q] # "loading"
        /\ called'[r] \in Nat
    BY <1>4 DEF RecordCall, GoingOn, Ended, IInv, RunsInv
  <2>2. /\ Record(uses[r], Event("call", r, called'[r]))
        /\ UNCHANGED <<overlap, uses, current, active>>
    BY <1>4 DEF RecordCall, mgrVars
  <2> QED
    BY <1>1, <1>2, <2>1, <2>2, RecordAlone
<1>5. ASSUME NEW r \in Runs, RecordResult(r)
      PROVE  AloneInv' /\ FrozenStep
  <2>1. /\ r \in GoingOn
        /\ pc[r] # "loading"
        /\ GoingOn' \subseteq GoingOn
        /\ \A q \in GoingOn' : pc'[q] # "loading" => pc[q] # "loading"
        /\ AnsweredCall(r) \in Nat
    BY <1>5 DEF RecordResult, AnsweredCall, GoingOn, Ended, IInv, RunsInv
  <2>2. /\ Record(uses[r], Event("result", r, AnsweredCall(r)))
        /\ UNCHANGED <<overlap, uses, current, active>>
    BY <1>5 DEF RecordResult, mgrVars
  <2> QED
    BY <1>1, <1>2, <2>1, <2>2, RecordAlone
<1>6. ASSUME NEW r \in Runs,
             AskPrompt(r) \/ ReadPrompt(r) \/ Execute(r) \/ RunCalls(r) \/ Finish(r) \/ Stop(r)
      PROVE  AloneInv' /\ FrozenStep
  <2>1. UNCHANGED <<overlap, current, active, blocks>>
    BY <1>6 DEF AskPrompt, ReadPrompt, Execute, RunCalls, Finish, Stop, mgrVars
  <2>2. /\ r \in GoingOn
        /\ \A q \in Runs \ {r} : pc'[q] = pc[q]
        /\ pc'[r] \in Ended \/ pc[r] # "loading"
    BY <1>6 DEF AskPrompt, ReadPrompt, Execute, RunCalls, Finish, Stop, End, GoingOn, Ended,
                IInv, RunsInv
  <2>3. \A q \in GoingOn' : uses'[q] \in {uses[q], current}
    BY <1>6 DEF AskPrompt, ReadPrompt, Execute, RunCalls, Finish, Stop, End, GoingOn, Ended,
                IInv, RunsInv
  <2>4. GoingOn' \subseteq GoingOn
    BY <2>2 DEF GoingOn
  <2>5. \A q \in GoingOn' : pc'[q] # "loading" => pc[q] # "loading"
    BY <2>2 DEF GoingOn
  <2> QED
    BY <2>1, <2>3, <2>4, <2>5, QuietStep
<1>7. ASSUME UNCHANGED vars
      PROVE  AloneInv' /\ FrozenStep
  BY <1>7, QuietStep DEF vars, runVars, mgrVars, GoingOn
<1> QED
  BY <1>3, <1>4, <1>5, <1>6, <1>7, LookupAlone, StartAlone, CrashAlone DEF Next, RunNext

THEOREM AloneInvariance == Spec => [](IInv /\ AloneInv)
<1>1. Init => IInv /\ AloneInv
  BY InitIInv, InitAlone
<1>2. IInv /\ AloneInv /\ [Next]_vars => (IInv /\ AloneInv)'
  BY NextIInv, NextAlone
<1> QED
  BY <1>1, <1>2, PTL DEF Spec

\* As long as runs do not overlap, every event of a block is of the run whose input
\* opens it and lies in that run's session, and none follows a torn line, however
\* often the process dies.
THEOREM OwnBlockCorrect == Spec => []OwnBlock
<1>1. AloneInv => OwnBlock
  BY DEF AloneInv, Own, OwnBlock
<1> QED
  BY <1>1, AloneInvariance, PTL

\* A sealed block stays sealed whatever happens, and unless runs overlap no event is
\* added to it.
THEOREM SealedCorrect == Spec => SealedIsFrozen
<1>1. IInv /\ IInv' /\ AloneInv /\ [Next]_vars => [FrozenStep]_vars
  BY NextAlone
<1>2. Spec => [][FrozenStep]_vars
  BY <1>1, AloneInvariance, PTL DEF Spec
<1> QED
  BY <1>2 DEF SealedIsFrozen, FrozenStep

-----------------------------------------------------------------------------
(* Calls and results in a prompt *)

CallIn(es, r, n) == \E k \in 1 .. Len(es) : es[k] = Event("call", r, n)
ResultIn(es, r, n) == \E k \in 1 .. Len(es) : es[k] = Event("result", r, n)

\* Every call and every result is there once, a result after its call.
Paired(es) ==
    /\ \A type \in {"call", "result"} : \A j \in 1 .. Len(es) : \A k \in 1 .. Len(es) :
          es[j].type = type /\ es[k] = es[j] => j = k
    /\ \A k \in 1 .. Len(es) : es[k].type = "result" =>
          \E j \in 1 .. Len(es) : j < k /\ es[j] = Event("call", es[k].run, es[k].n)

\* Calls and results of run r as far as it has recorded them.
UpTo(es, r, calls, results) ==
    /\ \A k \in 1 .. Len(es) : /\ es[k].type = "call" => es[k].n \in 1 .. calls
                               /\ es[k].type = "result" => es[k].n \in 1 .. results
    /\ \A n \in 1 .. calls : CallIn(es, r, n)
    /\ \A n \in 1 .. results : ResultIn(es, r, n)

\* The calls and results of a block are the same afterwards; a new one has none.
Same(es, fs) ==
    /\ Paired(es) => Paired(fs)
    /\ \A r, n : CallIn(fs, r, n) <=> CallIn(es, r, n)
    /\ \A r, n : ResultIn(fs, r, n) <=> ResultIn(es, r, n)
    /\ \A r, c, a : UpTo(es, r, c, a) => UpTo(fs, r, c, a)
EventsAt(bs, b) == IF b \in 1 .. Len(bs) THEN bs[b].events ELSE <<>>
SameTalk(bs, ds) ==
    /\ \A b \in 1 .. Len(bs) : b \in 1 .. Len(ds)
    /\ \A b \in 1 .. Len(ds) : Same(EventsAt(bs, b), ds[b].events)

LEMMA EventsOfDir ==
  ASSUME NEW bs \in Dirs, NEW b \in 1 .. Len(bs)
  PROVE  /\ bs[b].events \in Seq(Events)
         /\ Len(bs[b].events) \in Nat
         /\ \A k \in 1 .. Len(bs[b].events) : bs[b].events[k] \in Events
<1>1. bs[b] \in Block
  BY ElementOfSeq DEF Dirs
<1> QED
  BY <1>1, ElementOfSeq, LenProperties DEF Block

\* Adding an event e to es, position by position.
LEMMA Added ==
  ASSUME NEW es \in Seq(Events), NEW e \in Events
  PROVE  /\ Append(es, e) \in Seq(Events)
         /\ Len(es) \in Nat
         /\ Len(Append(es, e)) = Len(es) + 1
         /\ \A k \in 1 .. Len(es) : Append(es, e)[k] = es[k]
         /\ Append(es, e)[Len(es) + 1] = e
         /\ \A k \in 1 .. Len(es) : k \in 1 .. Len(es) + 1 /\ k # Len(es) + 1
         /\ \A k \in 1 .. Len(es) + 1 : k \in 1 .. Len(es) \/ k = Len(es) + 1
<1>1. /\ Append(es, e) \in Seq(Events)
      /\ Len(es) \in Nat
      /\ Len(Append(es, e)) = Len(es) + 1
      /\ \A k \in 1 .. Len(es) : Append(es, e)[k] = es[k]
      /\ Append(es, e)[Len(es) + 1] = e
  BY AppendProperties, LenProperties
<1> QED
  BY <1>1

LEMMA QuietAdded ==
  ASSUME NEW es \in Seq(Events), NEW e \in Events, e.type \notin {"call", "result"}
  PROVE  Same(es, Append(es, e))
<1> DEFINE fs == Append(es, e)
           l == Len(es)
<1>1. /\ l \in Nat
      /\ Len(fs) = l + 1
      /\ \A k \in 1 .. l : fs[k] = es[k]
      /\ fs[l + 1] = e
      /\ \A k \in 1 .. l : k \in 1 .. l + 1 /\ k # l + 1
      /\ \A k \in 1 .. l + 1 : k \in 1 .. l \/ k = l + 1
  BY Added
<1>2. \A r, n : e # Event("call", r, n) /\ e # Event("result", r, n)
  BY DEF Event
<1> HIDE DEF fs, l
<1>3. \A r, n : CallIn(fs, r, n) <=> CallIn(es, r, n)
  BY <1>1, <1>2 DEF CallIn, l
<1>4. \A r, n : ResultIn(fs, r, n) <=> ResultIn(es, r, n)
  BY <1>1, <1>2 DEF ResultIn, l
<1>5. \A r, c, a : UpTo(es, r, c, a) => UpTo(fs, r, c, a)
  <2> SUFFICES ASSUME NEW r, NEW c, NEW a, UpTo(es, r, c, a)
               PROVE  UpTo(fs, r, c, a)
    OBVIOUS
  <2>1. \A k \in 1 .. Len(fs) : /\ fs[k].type = "call" => fs[k].n \in 1 .. c
                                /\ fs[k].type = "result" => fs[k].n \in 1 .. a
    BY <1>1 DEF UpTo, l
  <2> QED
    BY <1>3, <1>4, <2>1 DEF UpTo
<1>6. ASSUME Paired(es)
      PROVE  Paired(fs)
  <2>1. ASSUME NEW type \in {"call", "result"}, NEW j \in 1 .. Len(fs), NEW k \in 1 .. Len(fs),
               fs[j].type = type, fs[k] = fs[j]
        PROVE  j = k
    <3>1. j \in 1 .. l /\ k \in 1 .. l
      BY <1>1, <2>1
    <3> QED
      BY <1>1, <1>6, <2>1, <3>1 DEF Paired, l
  <2>2. ASSUME NEW k \in 1 .. Len(fs), fs[k].type = "result"
        PROVE  \E j \in 1 .. Len(fs) : j < k /\ fs[j] = Event("call", fs[k].run, fs[k].n)
    <3>1. k \in 1 .. l /\ fs[k] = es[k]
      BY <1>1, <2>2
    <3>2. PICK j \in 1 .. l : j < k /\ es[j] = Event("call", es[k].run, es[k].n)
      BY <1>6, <2>2, <3>1 DEF Paired, l
    <3> QED
      BY <1>1, <3>1, <3>2
  <2> QED
    BY <2>1, <2>2 DEF Paired
<1> QED
  BY <1>3, <1>4, <1>5, <1>6 DEF Same, fs

LEMMA SameTwice ==
  ASSUME NEW es, NEW fs, NEW gs, Same(es, fs), Same(fs, gs)
  PROVE  Same(es, gs)
<1>1. \A r, n : CallIn(gs, r, n) <=> CallIn(es, r, n)
  BY DEF Same
<1>2. \A r, n : ResultIn(gs, r, n) <=> ResultIn(es, r, n)
  BY DEF Same
<1>3. \A r, c, a : UpTo(es, r, c, a) => UpTo(gs, r, c, a)
  BY DEF Same
<1>4. Paired(es) => Paired(gs)
  BY DEF Same
<1> QED
  BY <1>1, <1>2, <1>3, <1>4 DEF Same

LEMMA SameItself == \A es : Same(es, es)
BY DEF Same

LEMMA NothingSaid ==
  /\ Paired(<<>>)
  /\ \A r, n : ~CallIn(<<>>, r, n) /\ ~ResultIn(<<>>, r, n)
  /\ \A r : UpTo(<<>>, r, 0, 0)
<1>1. \A k \in 1 .. Len(<<>>) : FALSE
  BY EmptySeq
<1>2. \A n \in 1 .. 0 : FALSE
  OBVIOUS
<1> QED
  BY <1>1, <1>2 DEF Paired, CallIn, ResultIn, UpTo

LEMMA SameTalkTwice ==
  ASSUME NEW bs, NEW cs, NEW ds, SameTalk(bs, cs), SameTalk(cs, ds)
  PROVE  SameTalk(bs, ds)
<1>1. \A b \in 1 .. Len(bs) : b \in 1 .. Len(ds)
  BY DEF SameTalk
<1>2. ASSUME NEW b \in 1 .. Len(ds)
      PROVE  Same(EventsAt(bs, b), ds[b].events)
  <2>1. CASE b \in 1 .. Len(cs)
    <3>1. Same(EventsAt(bs, b), cs[b].events) /\ Same(cs[b].events, ds[b].events)
      BY <2>1 DEF SameTalk, EventsAt
    <3> QED
      BY <3>1, SameTwice
  <2>2. CASE b \notin 1 .. Len(cs)
    <3>1. b \notin 1 .. Len(bs)
      BY <2>2 DEF SameTalk
    <3>2. EventsAt(bs, b) = EventsAt(cs, b)
      BY <2>2, <3>1 DEF EventsAt
    <3> QED
      BY <1>2, <3>2 DEF SameTalk
  <2> QED
    BY <2>1, <2>2
<1> QED
  BY <1>1, <1>2 DEF SameTalk

LEMMA SameTalkItself == \A bs : SameTalk(bs, bs)
BY SameItself DEF SameTalk, EventsAt

LEMMA MetaTalk ==
  ASSUME NEW bs \in Dirs, NEW n \in 1 .. Len(bs), NEW status \in Metas
  PROVE  SameTalk(bs, WriteMeta(bs, n, status))
BY MetaWritten, SameItself DEF SameTalk, EventsAt

LEMMA EventTalk ==
  ASSUME NEW bs \in Dirs, NEW n \in 1 .. Len(bs), NEW e \in Events,
         e.type \notin {"call", "result"}
  PROVE  SameTalk(bs, Appended(bs, n, e))
<1> DEFINE d == Appended(bs, n, e)
<1>1. /\ Len(d) = Len(bs)
      /\ \A b \in 1 .. Len(bs) : b # n => d[b].events = bs[b].events
      /\ d[n].events = Append(bs[n].events, e)
  BY EventAppended
<1>2. Same(bs[n].events, Append(bs[n].events, e))
  BY EventsOfDir, QuietAdded
<1> HIDE DEF d
<1>3. \A b \in 1 .. Len(bs) : Same(bs[b].events, d[b].events)
  BY <1>1, <1>2, SameItself
<1> QED
  BY <1>1, <1>3 DEF SameTalk, EventsAt, d

\* The steps towards the next block.
LEMMA NextBlockTalk ==
  ASSUME NEW bs \in Dirs, OneInput(bs), LastActive(bs), NEW e \in Events,
         e.type \notin {"call", "result"}
  PROVE  LET n == Len(bs) + 1
             sealed == Seal(bs, ActiveOf(bs))
             made == MakeDir(sealed, n)
             begun == Appended(made, n, e)
         IN  /\ SameTalk(bs, sealed) /\ SameTalk(bs, made) /\ SameTalk(bs, begun)
             /\ Same(<<>>, begun[n].events)
<1> DEFINE n == Len(bs) + 1
           sealed == Seal(bs, ActiveOf(bs))
           made == MakeDir(sealed, n)
           begun == Appended(made, n, e)
<1>1. ActiveOf(bs) \in 0 .. Len(bs) /\ Len(bs) \in Nat
  BY ActiveInRange
<1>2. /\ sealed \in Dirs
      /\ Len(sealed) = Len(bs)
      /\ \A b \in 1 .. Len(bs) : sealed[b].events = bs[b].events
  BY <1>1, Sealed
<1>3. /\ made \in Dirs
      /\ Len(made) = n
      /\ \A b \in 1 .. Len(bs) : made[b] = sealed[b]
      /\ made[n] = [meta |-> "none", events |-> <<>>]
  <2> HIDE DEF sealed
  <2> QED
    BY <1>2, DirMade
<1>4. /\ n \in 1 .. Len(made)
      /\ n \notin 1 .. Len(bs)
      /\ \A b \in 1 .. Len(made) : b = n \/ b \in 1 .. Len(bs)
      /\ \A b \in 1 .. Len(bs) : b \in 1 .. Len(made)
  BY <1>1, <1>3
<1>5. SameTalk(made, begun)
  BY <1>3, <1>4, EventTalk
<1>6. begun[n].events = Append(<<>>, e) /\ <<>> \in Seq(Events)
  BY <1>3, <1>4, EventAppended, EmptySeq
<1>7. Same(<<>>, begun[n].events)
  BY <1>6, QuietAdded
<1> HIDE DEF begun, made, sealed, n
<1>8. SameTalk(bs, sealed)
  BY <1>2, SameItself DEF SameTalk, EventsAt
<1>9. SameTalk(sealed, made)
  BY <1>2, <1>3, <1>4, SameItself DEF SameTalk, EventsAt
<1>10. SameTalk(bs, made) /\ SameTalk(bs, begun)
  BY <1>5, <1>8, <1>9, SameTalkTwice
<1> QED
  BY <1>7, <1>8, <1>10 DEF begun, made, sealed, n

LEMMA CallAdded ==
  ASSUME NEW es \in Seq(Events), NEW r \in Runs, NEW c \in Nat, NEW a \in Nat,
         Paired(es), UpTo(es, r, c, a)
  PROVE  LET fs == Append(es, Event("call", r, c + 1)) IN
         /\ Paired(fs)
         /\ UpTo(fs, r, c + 1, a)
         /\ \A q, n : CallIn(fs, q, n) => CallIn(es, q, n) \/ (q = r /\ n = c + 1)
         /\ \A q, n : ResultIn(es, q, n) => ResultIn(fs, q, n)
<1> DEFINE e == Event("call", r, c + 1)
           fs == Append(es, e)
           l == Len(es)
<1>1. e \in Events /\ e.type = "call" /\ e.run = r /\ e.n = c + 1
  BY DEF Event, Events
<1>2. /\ l \in Nat
      /\ Len(fs) = l + 1
      /\ \A k \in 1 .. l : fs[k] = es[k]
      /\ fs[l + 1] = e
      /\ \A k \in 1 .. l : k \in 1 .. l + 1 /\ k # l + 1
      /\ \A k \in 1 .. l + 1 : k \in 1 .. l \/ k = l + 1
      /\ l + 1 \in 1 .. l + 1
  <2> HIDE DEF e
  <2> QED
    BY <1>1, Added
<1>3. \A q, n : e = Event("call", q, n) => q = r /\ n = c + 1
  BY DEF Event
<1>4. \A q, n : e # Event("result", q, n)
  BY DEF Event
<1> HIDE DEF fs, l, e
<1>5. \A q, n : CallIn(fs, q, n) => CallIn(es, q, n) \/ (q = r /\ n = c + 1)
  BY <1>2, <1>3 DEF CallIn, l
<1>6. /\ \A q, n : CallIn(es, q, n) => CallIn(fs, q, n)
      /\ CallIn(fs, r, c + 1)
  <2>1. \A q, n : CallIn(es, q, n) => CallIn(fs, q, n)
    BY <1>2 DEF CallIn, l
  <2> QED
    BY <1>2, <2>1 DEF CallIn, e
<1>7. \A q, n : ResultIn(es, q, n) => ResultIn(fs, q, n)
  BY <1>2 DEF ResultIn, l
<1>8. \A k \in 1 .. l : es[k] # e
  BY <1>1 DEF UpTo, l
<1>9. UpTo(fs, r, c + 1, a)
  <2>1. \A n \in 1 .. c + 1 : n \in 1 .. c \/ n = c + 1
    OBVIOUS
  <2>2. \A n \in 1 .. c + 1 : CallIn(fs, r, n)
    BY <1>6, <2>1 DEF UpTo
  <2>3. \A n \in 1 .. a : ResultIn(fs, r, n)
    BY <1>7 DEF UpTo
  <2>4. \A k \in 1 .. l : /\ es[k].type = "call" => es[k].n \in 1 .. c + 1
                          /\ es[k].type = "result" => es[k].n \in 1 .. a
    BY DEF UpTo, l
  <2>5. c + 1 \in 1 .. c + 1
    OBVIOUS
  <2>6. \A k \in 1 .. Len(fs) : /\ fs[k].type = "call" => fs[k].n \in 1 .. c + 1
                                /\ fs[k].type = "result" => fs[k].n \in 1 .. a
    BY <1>1, <1>2, <2>4, <2>5
  <2> QED
    BY <2>2, <2>3, <2>6 DEF UpTo
<1>10. Paired(fs)
  <2>1. ASSUME NEW type \in {"call", "result"}, NEW j \in 1 .. Len(fs), NEW k \in 1 .. Len(fs),
               fs[j].type = type, fs[k] = fs[j]
        PROVE  j = k
    <3>1. CASE j \in 1 .. l /\ k \in 1 .. l
      BY <1>2, <2>1, <3>1 DEF Paired, l
    <3>2. CASE j = l + 1 \/ k = l + 1
      BY <1>2, <1>8, <2>1, <3>2
    <3> QED
      BY <1>2, <3>1, <3>2
  <2>2. ASSUME NEW k \in 1 .. Len(fs), fs[k].type = "result"
        PROVE  \E j \in 1 .. Len(fs) : j < k /\ fs[j] = Event("call", fs[k].run, fs[k].n)
    <3>1. k \in 1 .. l /\ fs[k] = es[k]
      BY <1>1, <1>2, <2>2
    <3>2. PICK j \in 1 .. l : j < k /\ es[j] = Event("call", es[k].run, es[k].n)
      BY <2>2, <3>1 DEF Paired, l
    <3> QED
      BY <1>2, <3>1, <3>2
  <2> QED
    BY <2>1, <2>2 DEF Paired
<1> QED
  BY <1>5, <1>7, <1>9, <1>10 DEF fs, e

LEMMA ResultAdded ==
  ASSUME NEW es \in Seq(Events), NEW r \in Runs, NEW c \in Nat, NEW a \in Nat, a < c,
         Paired(es), UpTo(es, r, c, a)
  PROVE  LET fs == Append(es, Event("result", r, a + 1)) IN
         /\ Paired(fs)
         /\ UpTo(fs, r, c, a + 1)
         /\ \A q, n : CallIn(fs, q, n) => CallIn(es, q, n)
         /\ \A q, n : ResultIn(es, q, n) => ResultIn(fs, q, n)
<1> DEFINE e == Event("result", r, a + 1)
           fs == Append(es, e)
           l == Len(es)
<1>1. e \in Events /\ e.type = "result" /\ e.run = r /\ e.n = a + 1
  BY DEF Event, Events
<1>2. /\ l \in Nat
      /\ Len(fs) = l + 1
      /\ \A k \in 1 .. l : fs[k] = es[k]
      /\ fs[l + 1] = e
      /\ \A k \in 1 .. l : k \in 1 .. l + 1 /\ k # l + 1
      /\ \A k \in 1 .. l + 1 : k \in 1 .. l \/ k = l + 1
      /\ l + 1 \in 1 .. l + 1
  <2> HIDE DEF e
  <2> QED
    BY <1>1, Added
<1>3. \A q, n : e # Event("call", q, n)
  BY DEF Event
<1> HIDE DEF fs, l, e
<1>4. \A q, n : CallIn(fs, q, n) <=> CallIn(es, q, n)
  BY <1>2, <1>3 DEF CallIn, l
<1>5. \A q, n : ResultIn(es, q, n) => ResultIn(fs, q, n)
  BY <1>2 DEF ResultIn, l
<1>6. ResultIn(fs, r, a + 1)
  BY <1>2 DEF ResultIn, e
<1>7. \A k \in 1 .. l : es[k] # e
  BY <1>1 DEF UpTo, l
<1>8. UpTo(fs, r, c, a + 1)
  <2>1. \A n \in 1 .. a + 1 : n \in 1 .. a \/ n = a + 1
    OBVIOUS
  <2>2. \A n \in 1 .. a + 1 : ResultIn(fs, r, n)
    BY <1>5, <1>6, <2>1 DEF UpTo
  <2>3. \A n \in 1 .. c : CallIn(fs, r, n)
    BY <1>4 DEF UpTo
  <2>4. \A k \in 1 .. l : /\ es[k].type = "call" => es[k].n \in 1 .. c
                          /\ es[k].type = "result" => es[k].n \in 1 .. a + 1
    BY DEF UpTo, l
  <2>5. a + 1 \in 1 .. a + 1
    OBVIOUS
  <2>6. \A k \in 1 .. Len(fs) : /\ fs[k].type = "call" => fs[k].n \in 1 .. c
                                /\ fs[k].type = "result" => fs[k].n \in 1 .. a + 1
    BY <1>1, <1>2, <2>4, <2>5
  <2> QED
    BY <2>2, <2>3, <2>6 DEF UpTo
<1>9. Paired(fs)
  <2>1. ASSUME NEW type \in {"call", "result"}, NEW j \in 1 .. Len(fs), NEW k \in 1 .. Len(fs),
               fs[j].type = type, fs[k] = fs[j]
        PROVE  j = k
    <3>1. CASE j \in 1 .. l /\ k \in 1 .. l
      BY <1>2, <2>1, <3>1 DEF Paired, l
    <3>2. CASE j = l + 1 \/ k = l + 1
      BY <1>2, <1>7, <2>1, <3>2
    <3> QED
      BY <1>2, <3>1, <3>2
  <2>2. ASSUME NEW k \in 1 .. Len(fs), fs[k].type = "result"
        PROVE  \E j \in 1 .. Len(fs) : j < k /\ fs[j] = Event("call", fs[k].run, fs[k].n)
    <3>1. CASE k \in 1 .. l
      <4>1. fs[k] = es[k]
        BY <1>2, <3>1
      <4>2. PICK j \in 1 .. l : j < k /\ es[j] = Event("call", es[k].run, es[k].n)
        BY <2>2, <3>1, <4>1 DEF Paired, l
      <4> QED
        BY <1>2, <4>1, <4>2
    <3>2. CASE k = l + 1
      <4>1. a + 1 \in 1 .. c
        OBVIOUS
      <4>2. PICK j \in 1 .. l : es[j] = Event("call", r, a + 1)
        BY <4>1 DEF UpTo, CallIn, l
      <4>3. j < k
        BY <1>2, <3>2
      <4> QED
        BY <1>1, <1>2, <3>2, <4>2, <4>3
    <3> QED
      BY <1>2, <3>1, <3>2
  <2> QED
    BY <2>1, <2>2 DEF Paired
<1> QED
  BY <1>4, <1>5, <1>8, <1>9 DEF fs, e

\* A call without a result: its run was stopped or died, or is at it, in its own block.
Pending(es, r, n) == CallIn(es, r, n) /\ ~ResultIn(es, r, n)
Excused(s, b, r) ==
    \/ pc[r] \in {"stopped", "dead"}
    \/ pc[r] \in {"calling", "results"} /\ s = SessionOf[r] /\ b = active[current]
AtWork == {r \in GoingOn : pc[r] # "loading"}

AllPaired == \A s \in Sessions : \A b \in 1 .. Len(blocks[s]) : Paired(blocks[s][b].events)
AllExcused ==
    \A s \in Sessions : \A b \in 1 .. Len(blocks[s]) : \A r \in Runs : \A n \in Nat :
        Pending(blocks[s][b].events, r, n) => Excused(s, b, r)
AllRecorded ==
    \A r \in AtWork :
        UpTo(blocks[SessionOf[r]][active[current]].events, r, called[r], answered[r])

PairsInv ==
    /\ \A r \in Runs : pc[r] \notin {"calling", "results"} => called[r] = 0 /\ answered[r] = 0
    /\ ~overlap => AllPaired /\ AllExcused /\ AllRecorded

\* What every step but the recording of calls and results does to the blocks.
TalkKept == \A s \in Sessions : SameTalk(blocks[s], blocks'[s])

LEMMA TalkOfDir ==
  ASSUME DirsInv, NEW s \in Sessions, NEW d, blocks' = [blocks EXCEPT ![s] = d],
         SameTalk(blocks[s], d)
  PROVE  TalkKept
BY SameTalkItself DEF DirsInv, TalkKept

LEMMA TalkKeeps ==
  ASSUME TalkKept
  PROVE  /\ AllPaired => AllPaired'
         /\ \A s \in Sessions : \A b \in 1 .. Len(blocks'[s]) : \A r, n :
               Pending(blocks'[s][b].events, r, n) =>
                  b \in 1 .. Len(blocks[s]) /\ Pending(blocks[s][b].events, r, n)
         /\ \A s \in Sessions : \A b \in 1 .. Len(blocks[s]) : \A r, c, a :
               UpTo(blocks[s][b].events, r, c, a) => UpTo(blocks'[s][b].events, r, c, a)
<1>1. ASSUME NEW s \in Sessions, NEW b \in 1 .. Len(blocks'[s])
      PROVE  Same(EventsAt(blocks[s], b), blocks'[s][b].events)
  BY DEF TalkKept, SameTalk
<1>2. ASSUME AllPaired
      PROVE  AllPaired'
  <2> SUFFICES ASSUME NEW s \in Sessions, NEW b \in 1 .. Len(blocks'[s])
               PROVE  Paired(blocks'[s][b].events)
    BY DEF AllPaired
  <2>1. Paired(EventsAt(blocks[s], b))
    BY <1>2, NothingSaid DEF AllPaired, EventsAt
  <2> QED
    BY <1>1, <2>1 DEF Same
<1>3. ASSUME NEW s \in Sessions, NEW b \in 1 .. Len(blocks'[s]), NEW r, NEW n,
             Pending(blocks'[s][b].events, r, n)
      PROVE  b \in 1 .. Len(blocks[s]) /\ Pending(blocks[s][b].events, r, n)
  <2>1. Pending(EventsAt(blocks[s], b), r, n)
    BY <1>1, <1>3 DEF Same, Pending
  <2> QED
    BY <2>1, NothingSaid DEF Pending, EventsAt
<1>4. ASSUME NEW s \in Sessions, NEW b \in 1 .. Len(blocks[s]), NEW r, NEW c, NEW a,
             UpTo(blocks[s][b].events, r, c, a)
      PROVE  UpTo(blocks'[s][b].events, r, c, a)
  <2>1. b \in 1 .. Len(blocks'[s])
    BY DEF TalkKept, SameTalk
  <2>2. Same(blocks[s][b].events, blocks'[s][b].events)
    BY <1>1, <2>1 DEF EventsAt
  <2> QED
    BY <1>4, <2>2 DEF Same
<1> QED
  BY <1>2, <1>3, <1>4

\* Where the run that is at work records: its block is there.
LEMMA WorksInBlock ==
  ASSUME IInv, AloneInv, ~overlap, NEW r \in AtWork
  PROVE  /\ current \in Runs /\ uses[r] = current
         /\ SessionOf[current] = SessionOf[r] /\ SessionOf[r] \in Sessions
         /\ active[current] # 0
         /\ active[current] \in 1 .. Len(blocks[SessionOf[r]])
         /\ blocks[SessionOf[r]] \in Dirs
         /\ \A q \in GoingOn : q = r
<1>1. /\ r \in GoingOn /\ r \in Runs /\ pc[r] # "loading"
  BY DEF AtWork, GoingOn
<1>2. /\ uses[r] = current /\ SessionOf[current] = SessionOf[r] /\ active[current] # 0
      /\ \A q \in GoingOn : q = r
  BY <1>1 DEF AloneInv
<1>3. current \in Runs
  BY <1>1 DEF IInv, RunsInv
<1> QED
  BY <1>1, <1>2, <1>3, ActiveIsThere DEF IInv

\* A step that records no call and no result, by what it does to the runs.
LEMMA QuietTalk ==
  ASSUME IInv, AloneInv, PairsInv, TalkKept, UNCHANGED overlap,
         \A r \in Runs : pc'[r] \notin {"calling", "results"} =>
                            called'[r] = 0 /\ answered'[r] = 0,
         \A r \in Runs : pc[r] \in {"stopped", "dead"} => pc'[r] = pc[r],
         \A r \in Runs : pc[r] \in {"calling", "results"} =>
            \/ pc'[r] \in {"stopped", "dead"}
            \/ pc'[r] = "done" /\ answered[r] = called[r]
            \/ /\ pc'[r] \in {"calling", "results"}
               /\ active'[current'] = active[current],
         ~overlap => \A r \in AtWork' :
            \/ /\ r \in AtWork
               /\ active'[current'] = active[current]
               /\ called'[r] = called[r] /\ answered'[r] = answered[r]
            \/ /\ UpTo(blocks'[SessionOf[r]][active'[current']].events, r, 0, 0)
               /\ called'[r] = 0 /\ answered'[r] = 0
  PROVE  PairsInv'
<1>1. ASSUME ~overlap
      PROVE  AllPaired' /\ AllExcused' /\ AllRecorded'
  <2>1. AllPaired /\ AllExcused /\ AllRecorded
    BY <1>1 DEF PairsInv
  <2>2. AllPaired'
    BY <2>1, TalkKeeps
  <2>3. AllRecorded'
    <3> SUFFICES ASSUME NEW r \in AtWork'
                 PROVE  UpTo(blocks'[SessionOf[r]][active'[current']].events,
                             r, called'[r], answered'[r])
      BY DEF AllRecorded
    <3>1. CASE /\ r \in AtWork
               /\ active'[current'] = active[current]
               /\ called'[r] = called[r] /\ answered'[r] = answered[r]
      <4>1. /\ SessionOf[r] \in Sessions
            /\ active[current] \in 1 .. Len(blocks[SessionOf[r]])
        BY <1>1, <3>1, WorksInBlock
      <4>2. UpTo(blocks[SessionOf[r]][active[current]].events, r, called[r], answered[r])
        BY <2>1, <3>1 DEF AllRecorded
      <4>3. UpTo(blocks'[SessionOf[r]][active[current]].events, r, called[r], answered[r])
        BY <4>1, <4>2, TalkKeeps
      <4> QED
        BY <3>1, <4>3
    <3>2. CASE ~(/\ r \in AtWork
                 /\ active'[current'] = active[current]
                 /\ called'[r] = called[r] /\ answered'[r] = answered[r])
      BY <1>1, <3>2
    <3> QED
      BY <3>1, <3>2
  <2>4. AllExcused'
    <3> SUFFICES ASSUME NEW s \in Sessions, NEW b \in 1 .. Len(blocks'[s]),
                        NEW r \in Runs, NEW n \in Nat,
                        Pending(blocks'[s][b].events, r, n)
                 PROVE  Excused(s, b, r)'
      BY DEF AllExcused
    <3>1. b \in 1 .. Len(blocks[s]) /\ Pending(blocks[s][b].events, r, n)
      BY TalkKeeps
    <3>2. Excused(s, b, r)
      BY <2>1, <3>1 DEF AllExcused
    <3>3. CASE pc[r] \in {"stopped", "dead"}
      BY <3>3 DEF Excused
    <3>4. CASE pc[r] \in {"calling", "results"} /\ s = SessionOf[r] /\ b = active[current]
      <4>1. ASSUME answered[r] = called[r]
            PROVE  FALSE
        <5>1. r \in AtWork
          BY <3>4 DEF AtWork, GoingOn, Ended
        <5>2. UpTo(blocks[s][b].events, r, called[r], answered[r])
          BY <2>1, <3>4, <5>1 DEF AllRecorded
        <5>3. PICK k \in 1 .. Len(blocks[s][b].events) :
                 blocks[s][b].events[k] = Event("call", r, n)
          BY <3>1 DEF Pending, CallIn
        <5>4. n \in 1 .. called[r]
          BY <5>2, <5>3 DEF UpTo, Event
        <5>5. ResultIn(blocks[s][b].events, r, n)
          BY <4>1, <5>2, <5>4 DEF UpTo
        <5> QED
          BY <3>1, <5>5 DEF Pending
      <4> QED
        BY <3>4, <4>1 DEF Excused
    <3> QED
      BY <3>2, <3>3, <3>4 DEF Excused
  <2> QED
    BY <2>2, <2>3, <2>4
<1> QED
  BY <1>1 DEF PairsInv

LEMMA LookupTalk ==
  ASSUME IInv, AloneInv, PairsInv, NEW r \in Runs, Lookup(r)
  PROVE  PairsInv'
<1>1. /\ pc[r] = "new" /\ pc' = [pc EXCEPT ![r] = "loading"]
      /\ Cardinality(GoingOn) < (IF overlap THEN MaxTogether ELSE 1)
      /\ UNCHANGED <<overlap, called, answered, blocks>>
  BY DEF Lookup
<1>2. ASSUME ~overlap
      PROVE  GoingOn = {}
  <2>1. Cardinality(GoingOn) < 1 /\ Cardinality(GoingOn) \in Nat
    BY <1>1, <1>2, FS_CardinalityType DEF AloneInv
  <2> QED
    BY <2>1, FS_EmptySet DEF AloneInv
<1>3. /\ \A q \in Runs : pc'[q] = pc[q] \/ q = r
      /\ pc'[r] = "loading"
  BY <1>1 DEF IInv, RunsInv
<1>4. \A q \in Runs : pc'[q] \notin {"calling", "results"} => called'[q] = 0 /\ answered'[q] = 0
  BY <1>1, <1>3 DEF PairsInv
<1>5. ASSUME ~overlap
      PROVE  AllPaired' /\ AllExcused' /\ AllRecorded'
  <2>1. \A q \in Runs : pc[q] \notin {"calling", "results"}
    BY <1>2, <1>5 DEF GoingOn, Ended
  <2>2. AllExcused'
    BY <1>1, <1>3, <1>5, <2>1 DEF PairsInv, AllExcused, Excused
  <2>3. AtWork' = {}
    BY <1>2, <1>3, <1>5 DEF AtWork, GoingOn
  <2> QED
    BY <1>1, <1>5, <2>2, <2>3 DEF PairsInv, AllPaired, AllRecorded
<1> QED
  BY <1>1, <1>4, <1>5 DEF PairsInv

LEMMA StartTalk ==
  ASSUME IInv, AloneInv, PairsInv, NEW r \in Runs, StartBlock(r)
  PROVE  PairsInv'
<1> DEFINE m == current
           s == SessionOf[m]
           bs == blocks[s]
           n == count[m] + 1
           e == Event("user", r, 0)
           begun == Appended(MakeDir(Seal(bs, active[m]), n), n, e)
           d == WriteMeta(begun, n, "active")
<1>1. r \in GoingOn /\ m \in Runs
  BY DEF StartBlock, IInv, RunsInv, GoingOn, Ended
<1>2. s \in Sessions /\ bs \in Dirs /\ OneInput(bs) /\ LastActive(bs)
  BY <1>1, SessionsOfRuns DEF IInv, StoreInv, DirsInv
<1>3. count[m] = Len(bs) /\ active[m] = ActiveOf(bs)
  BY <1>1, CurrentKnows DEF IInv, StoreInv, Knows
<1>4. e \in Events /\ e.run = r /\ e.type \notin {"call", "result"}
  BY DEF Events, Event
<1>5. /\ pc[r] = "loading"
      /\ active' = [active EXCEPT ![m] = n]
      /\ blocks' = [blocks EXCEPT ![s] = d]
      /\ pc' = [pc EXCEPT ![r] = "thinking"]
      /\ UNCHANGED <<overlap, called, answered, uses, current>>
  BY DEF StartBlock, Starter, BlockMade
<1>6. n \in Nat /\ n \in 1 .. Len(begun) /\ begun \in Dirs
  BY <1>2, <1>3, <1>4, NextBlock
<1>7. SameTalk(bs, begun) /\ Same(<<>>, begun[n].events)
  BY <1>2, <1>3, <1>4, NextBlockTalk
<1> HIDE DEF e, begun
<1>8. "active" \in Metas
  BY DEF Metas
<1>9. SameTalk(begun, d) /\ d[n].events = begun[n].events
  BY <1>6, <1>8, MetaTalk, MetaWritten
<1> HIDE DEF d
<1>10. TalkKept
  BY <1>2, <1>5, <1>7, <1>9, SameTalkTwice, TalkOfDir DEF IInv, StoreInv
<1>11. blocks'[s] = d /\ active'[current'] = n
  BY <1>1, <1>2, <1>5 DEF IInv, StoreInv, DirsInv, NumbersInv
<1>12. /\ pc'[r] = "thinking"
       /\ \A q \in Runs : q # r => pc'[q] = pc[q]
       /\ called[r] = 0 /\ answered[r] = 0
  BY <1>5 DEF IInv, RunsInv, PairsInv
<1>13. \A q \in Runs : pc'[q] \notin {"calling", "results"} => called'[q] = 0 /\ answered'[q] = 0
  BY <1>5, <1>12 DEF PairsInv
<1>14. UpTo(d[n].events, r, 0, 0)
  BY <1>7, <1>9, NothingSaid DEF Same
<1> HIDE DEF n
<1>15. ASSUME ~overlap
       PROVE  AllPaired' /\ AllExcused' /\ AllRecorded'
  <2>1. \A q \in GoingOn : q = r
    BY <1>1, <1>15 DEF AloneInv
  <2>2. SessionOf[r] = s
    BY <1>1, <1>15 DEF AloneInv
  <2>3. AllPaired'
    BY <1>10, <1>15, TalkKeeps DEF PairsInv
  <2>4. \A q \in AtWork' : q = r
    BY <1>12, <2>1 DEF AtWork, GoingOn
  <2>5. UpTo(blocks'[SessionOf[r]][active'[current']].events, r, called'[r], answered'[r])
    BY <1>5, <1>11, <1>12, <1>14, <2>2
  <2>6. AllRecorded'
    BY <2>4, <2>5 DEF AllRecorded
  <2>7. \A q \in Runs : pc[q] \notin {"calling", "results"}
    BY <1>5, <2>1 DEF GoingOn, Ended
  <2>8. AllExcused'
    <3> SUFFICES ASSUME NEW t \in Sessions, NEW b \in 1 .. Len(blocks'[t]),
                        NEW q \in Runs, NEW k \in Nat,
                        Pending(blocks'[t][b].events, q, k)
                 PROVE  Excused(t, b, q)'
      BY DEF AllExcused
    <3>1. b \in 1 .. Len(blocks[t]) /\ Pending(blocks[t][b].events, q, k)
      BY <1>10, TalkKeeps
    <3>2. pc[q] \in {"stopped", "dead"}
      BY <1>15, <2>7, <3>1 DEF PairsInv, AllExcused, Excused
    <3> QED
      BY <1>5, <1>12, <3>2 DEF Excused
  <2> QED
    BY <2>3, <2>6, <2>8
<1> QED
  BY <1>5, <1>13, <1>15 DEF PairsInv

\* Recording an event that is no call and no result.
LEMMA QuietRecord ==
  ASSUME IInv, NEW m \in Runs, NEW e \in Events, e.type \notin {"call", "result"},
         \/ Record(m, e)
         \/ active[m] # 0 /\ blocks' = [blocks EXCEPT ![SessionOf[m]] = Appended(@, active[m], e)]
  PROVE  TalkKept
<1>1. CASE active[m] = 0
  BY <1>1, SameTalkItself DEF Record, TalkKept
<1>2. CASE active[m] # 0
  <2> DEFINE s == SessionOf[m]
             d == Appended(blocks[s], active[m], e)
  <2>1. s \in Sessions /\ blocks[s] \in Dirs /\ active[m] \in 1 .. Len(blocks[s])
    BY <1>2, ActiveIsThere DEF IInv
  <2>2. blocks' = [blocks EXCEPT ![s] = d]
    BY <1>2 DEF Record
  <2>3. SameTalk(blocks[s], d)
    BY <2>1, EventTalk
  <2> HIDE DEF d, s
  <2> QED
    BY <2>1, <2>2, <2>3, TalkOfDir DEF IInv, StoreInv
<1> QED
  BY <1>1, <1>2

LEMMA PartialStartsTalk ==
  ASSUME IInv, current \in Runs, NEW r \in Runs, NEW d \in PartialStarts(r)
  PROVE  SameTalk(blocks[SessionOf[current]], d)
<1> DEFINE m == current
           bs == blocks[SessionOf[m]]
           n == count[m] + 1
           e == Event("user", r, 0)
           sealed == Seal(bs, active[m])
           made == MakeDir(sealed, n)
           begun == Appended(made, n, e)
           torn == Appended(made, n, Torn(r))
<1>1. bs \in Dirs /\ OneInput(bs) /\ LastActive(bs)
  BY SessionsOfRuns DEF IInv, StoreInv, DirsInv
<1>2. count[m] = Len(bs) /\ active[m] = ActiveOf(bs)
  BY CurrentKnows DEF IInv, StoreInv, Knows
<1>3. /\ e \in Events /\ e.type \notin {"call", "result"}
      /\ Torn(r) \in Events /\ Torn(r).type \notin {"call", "result"}
      /\ "broken" \in Metas
  BY DEF Events, Event, Torn, Metas
<1>4. n \in 1 .. Len(begun) /\ begun \in Dirs
  BY <1>1, <1>2, <1>3, NextBlock
<1>5. SameTalk(bs, sealed) /\ SameTalk(bs, made) /\ SameTalk(bs, begun)
  BY <1>1, <1>2, <1>3, NextBlockTalk
<1>6. SameTalk(bs, torn)
  BY <1>1, <1>2, <1>3, NextBlockTalk
<1>7. \/ d = sealed
      \/ d = made
      \/ d = torn
      \/ d = begun
      \/ d = WriteMeta(begun, n, "broken")
      \/ active[m] # 0 /\ d = WriteMeta(bs, active[m], "broken")
  BY DEF PartialStarts, Starter
<1>8. active[m] # 0 => active[m] \in 1 .. Len(bs)
  BY <1>1, <1>2, ActiveInRange
<1> HIDE DEF e, begun, torn, made, sealed, n, bs, m
<1>9. CASE d = WriteMeta(begun, n, "broken")
  BY <1>3, <1>4, <1>5, <1>9, MetaTalk, SameTalkTwice DEF bs, m
<1>10. CASE active[m] # 0 /\ d = WriteMeta(bs, active[m], "broken")
  BY <1>1, <1>3, <1>8, <1>10, MetaTalk DEF bs, m
<1> QED
  BY <1>5, <1>6, <1>7, <1>9, <1>10 DEF bs, m

LEMMA CrashTalk ==
  ASSUME IInv, AloneInv, PairsInv, Crash
  PROVE  PairsInv'
<1>1. /\ pc' = [r \in Runs |-> IF r \in GoingOn THEN "dead" ELSE pc[r]]
      /\ called' = [r \in Runs |-> 0] /\ answered' = [r \in Runs |-> 0]
      /\ UNCHANGED overlap
  BY DEF Crash
<1>2. AtWork' = {}
  BY <1>1 DEF AtWork, GoingOn, Ended
<1>3. TalkKept
  <2>1. CASE blocks' = blocks
    BY <2>1, SameTalkItself DEF TalkKept
  <2>2. ASSUME NEW r \in Runs, pc[r] = "loading", NEW d \in PartialStarts(r),
               blocks' = [blocks EXCEPT ![SessionOf[current]] = d]
        PROVE  TalkKept
    <3>1. current \in Runs
      BY <2>2 DEF GoingOn, Ended, IInv, RunsInv
    <3> QED
      BY <2>2, <3>1, PartialStartsTalk, SessionsOfRuns, TalkOfDir DEF IInv, StoreInv
  <2>3. ASSUME NEW r \in Runs, pc[r] \in {"thinking", "calling", "results"},
               active[Writes(r)] # 0,
               blocks' = [blocks EXCEPT ![SessionOf[Writes(r)]] =
                             Appended(@, active[Writes(r)], Torn(r))]
        PROVE  TalkKept
    <3>1. r \in GoingOn
      BY <2>3 DEF GoingOn, Ended
    <3>2. PICK m \in Runs : m = Writes(r)
      BY <3>1 DEF IInv, RunsInv, Writes
    <3>3. Torn(r) \in Events /\ Torn(r).type \notin {"call", "result"}
      BY DEF Torn, Event, Events
    <3> QED
      BY <2>3, <3>2, <3>3, QuietRecord
  <2> QED
    BY <2>1, <2>2, <2>3, CrashLeaves
<1>4. /\ \A r \in Runs : pc[r] \in {"stopped", "dead"} => pc'[r] = pc[r]
      /\ \A r \in Runs : pc[r] \in {"calling", "results"} => pc'[r] \in {"stopped", "dead"}
  BY <1>1 DEF GoingOn, Ended
<1> QED
  BY <1>1, <1>2, <1>3, <1>4, QuietTalk

\* Recording a call or a result.
LEMMA TalkAdded ==
  ASSUME IInv, AloneInv, PairsInv, ~overlap, NEW r \in AtWork, NEW e \in Events,
         pc[r] \in {"calling", "results"},
         Record(uses[r], e), UNCHANGED <<overlap, current, active>>,
         \A q \in Runs : q # r => /\ pc'[q] = pc[q]
                                  /\ called'[q] = called[q] /\ answered'[q] = answered[q],
         pc'[r] \in {"calling", "results"},
         \A es \in Seq(Events) :
            Paired(es) /\ UpTo(es, r, called[r], answered[r]) =>
               /\ Paired(Append(es, e))
               /\ UpTo(Append(es, e), r, called'[r], answered'[r])
               /\ \A q, n : CallIn(Append(es, e), q, n) => CallIn(es, q, n) \/ q = r
               /\ \A q, n : ResultIn(es, q, n) => ResultIn(Append(es, e), q, n)
  PROVE  AllPaired' /\ AllExcused' /\ AllRecorded'
<1> DEFINE m == current
           s == SessionOf[r]
           bs == blocks[s]
           d == Appended(bs, active[m], e)
           es == bs[active[m]].events
<1>1. /\ m \in Runs /\ uses[r] = m /\ SessionOf[m] = s /\ s \in Sessions
      /\ active[m] # 0 /\ active[m] \in 1 .. Len(bs) /\ bs \in Dirs
      /\ \A q \in GoingOn : q = r
  BY WorksInBlock
<1>2. AllPaired /\ AllExcused /\ AllRecorded
  BY DEF PairsInv
<1>3. blocks' = [blocks EXCEPT ![s] = d]
  BY <1>1 DEF Record
<1>4. /\ Len(d) = Len(bs)
      /\ \A b \in 1 .. Len(bs) : b # active[m] => d[b].events = bs[b].events
      /\ d[active[m]].events = Append(es, e)
  BY <1>1, EventAppended
<1>5. es \in Seq(Events) /\ Paired(es) /\ UpTo(es, r, called[r], answered[r])
  BY <1>1, <1>2, EventsOfDir DEF AllPaired, AllRecorded
<1>6. /\ Paired(Append(es, e))
      /\ UpTo(Append(es, e), r, called'[r], answered'[r])
      /\ \A q, n : Pending(Append(es, e), q, n) => Pending(es, q, n) \/ q = r
  BY <1>5 DEF Pending
<1>7. /\ blocks'[s] = d
      /\ \A t \in Sessions : t # s => blocks'[t] = blocks[t]
  BY <1>1, <1>3 DEF IInv, StoreInv, DirsInv
<1> HIDE DEF d, es
<1>8. AllPaired'
  <2> SUFFICES ASSUME NEW t \in Sessions, NEW b \in 1 .. Len(blocks'[t])
               PROVE  Paired(blocks'[t][b].events)
    BY DEF AllPaired
  <2> QED
    BY <1>2, <1>4, <1>6, <1>7 DEF AllPaired
<1>9. AllRecorded'
  <2>1. \A q \in AtWork' : q = r
    BY <1>1 DEF AtWork, GoingOn
  <2> QED
    BY <1>4, <1>6, <1>7, <2>1 DEF AllRecorded
<1>10. AllExcused'
  <2> SUFFICES ASSUME NEW t \in Sessions, NEW b \in 1 .. Len(blocks'[t]),
                      NEW q \in Runs, NEW n \in Nat,
                      Pending(blocks'[t][b].events, q, n)
               PROVE  Excused(t, b, q)'
    BY DEF AllExcused
  <2>1. b \in 1 .. Len(blocks[t])
    BY <1>4, <1>7
  <2>2. CASE Pending(blocks[t][b].events, q, n)
    <3>1. Excused(t, b, q)
      BY <1>2, <2>1, <2>2 DEF AllExcused
    <3> QED
      BY <3>1 DEF Excused
  <2>3. CASE ~Pending(blocks[t][b].events, q, n)
    <3>1. t = s /\ b = active[m]
      BY <1>4, <1>7, <2>1, <2>3
    <3>2. q = r
      BY <1>4, <1>6, <1>7, <2>3, <3>1 DEF es
    <3> QED
      BY <3>1, <3>2 DEF Excused
  <2> QED
    BY <2>2, <2>3
<1> QED
  BY <1>8, <1>9, <1>10

LEMMA CallTalk ==
  ASSUME IInv, AloneInv, PairsInv, NEW r \in Runs, RecordCall(r)
  PROVE  PairsInv'
<1> DEFINE e == Event("call", r, called[r] + 1)
<1>1. /\ pc[r] = "calling" /\ called' = [called EXCEPT ![r] = called[r] + 1]
      /\ Record(uses[r], Event("call", r, called'[r]))
      /\ UNCHANGED <<overlap, pc, answered, uses, current, active>>
  BY DEF RecordCall, mgrVars
<1>2. /\ called[r] \in Nat /\ answered[r] \in Nat
      /\ called'[r] = called[r] + 1
      /\ \A q \in Runs : q # r => called'[q] = called[q]
  BY <1>1 DEF IInv, RunsInv
<1>3. Record(uses[r], e) /\ e \in Events
  BY <1>1, <1>2 DEF Event, Events
<1>4. r \in AtWork
  BY <1>1 DEF AtWork, GoingOn, Ended
<1>5. \A q \in Runs : pc'[q] \notin {"calling", "results"} => called'[q] = 0 /\ answered'[q] = 0
  BY <1>1, <1>2 DEF PairsInv
<1>6. ASSUME NEW es \in Seq(Events), Paired(es), UpTo(es, r, called[r], answered[r])
      PROVE  /\ Paired(Append(es, e))
             /\ UpTo(Append(es, e), r, called'[r], answered'[r])
             /\ \A q, n : CallIn(Append(es, e), q, n) => CallIn(es, q, n) \/ q = r
             /\ \A q, n : ResultIn(es, q, n) => ResultIn(Append(es, e), q, n)
  BY <1>1, <1>2, <1>6, CallAdded
<1> HIDE DEF e
<1>7. ~overlap => AllPaired' /\ AllExcused' /\ AllRecorded'
  BY <1>1, <1>2, <1>3, <1>4, <1>6, TalkAdded
<1> QED
  BY <1>1, <1>5, <1>7 DEF PairsInv

LEMMA ResultTalk ==
  ASSUME IInv, AloneInv, PairsInv, NEW r \in Runs, RecordResult(r)
  PROVE  PairsInv'
<1> DEFINE e == Event("result", r, answered[r] + 1)
<1>1. /\ pc[r] = "results" /\ answered' = [answered EXCEPT ![r] = answered[r] + 1]
      /\ Record(uses[r], e)
      /\ pc' = [pc EXCEPT ![r] = IF answered'[r] = called[r] THEN "calling" ELSE "results"]
      /\ UNCHANGED <<overlap, called, uses, current, active>>
  BY DEF RecordResult, AnsweredCall, mgrVars
<1>2. /\ called[r] \in Nat /\ answered[r] \in Nat /\ answered[r] < called[r]
      /\ answered'[r] = answered[r] + 1
      /\ pc'[r] \in {"calling", "results"}
      /\ \A q \in Runs : q # r => answered'[q] = answered[q] /\ pc'[q] = pc[q]
  BY <1>1 DEF IInv, RunsInv
<1>3. e \in Events
  BY <1>2 DEF Event, Events
<1>4. r \in AtWork
  BY <1>1 DEF AtWork, GoingOn, Ended
<1>5. \A q \in Runs : pc'[q] \notin {"calling", "results"} => called'[q] = 0 /\ answered'[q] = 0
  BY <1>1, <1>2 DEF PairsInv
<1>6. ASSUME NEW es \in Seq(Events), Paired(es), UpTo(es, r, called[r], answered[r])
      PROVE  /\ Paired(Append(es, e))
             /\ UpTo(Append(es, e), r, called'[r], answered'[r])
             /\ \A q, n : CallIn(Append(es, e), q, n) => CallIn(es, q, n) \/ q = r
             /\ \A q, n : ResultIn(es, q, n) => ResultIn(Append(es, e), q, n)
  BY <1>1, <1>2, <1>6, ResultAdded
<1> HIDE DEF e
<1>7. ~overlap => AllPaired' /\ AllExcused' /\ AllRecorded'
  BY <1>1, <1>2, <1>3, <1>4, <1>6, TalkAdded
<1> QED
  BY <1>1, <1>5, <1>7 DEF PairsInv

LEMMA NextTalk == IInv /\ AloneInv /\ PairsInv /\ [Next]_vars => PairsInv'
<1> SUFFICES ASSUME IInv, AloneInv, PairsInv, [Next]_vars
             PROVE  PairsInv'
  OBVIOUS
<1>1. ASSUME blocks' = blocks
      PROVE  TalkKept
  BY <1>1, SameTalkItself DEF TalkKept
<1>2. ASSUME NEW r \in Runs, RecordPlan(r)
      PROVE  PairsInv'
  <2>1. /\ pc[r] = "thinking" /\ pc' = [pc EXCEPT ![r] = "planned"]
        /\ UNCHANGED <<overlap, called, answered, current, active>>
        /\ Record(current, Event("plan", r, 0))
    BY <1>2 DEF RecordPlan, mgrVars
  <2>2. current \in Runs /\ r \in AtWork
    BY <2>1 DEF AtWork, GoingOn, Ended, IInv, RunsInv
  <2>3. Event("plan", r, 0) \in Events /\ Event("plan", r, 0).type \notin {"call", "result"}
    BY DEF Event, Events
  <2>4. TalkKept
    BY <2>1, <2>2, <2>3, QuietRecord
  <2>5. \A q \in Runs : pc'[q] = pc[q] \/ (q = r /\ pc'[q] = "planned")
    BY <2>1 DEF IInv, RunsInv
  <2>6. AtWork' \subseteq AtWork
    BY <2>2, <2>5 DEF AtWork, GoingOn
  <2> QED
    BY <2>1, <2>4, <2>5, <2>6, QuietTalk DEF PairsInv
<1>3. ASSUME NEW r \in Runs, AskPrompt(r) \/ Execute(r) \/ RunCalls(r)
      PROVE  PairsInv'
  <2>1. /\ UNCHANGED <<overlap, called, answered, current, active, blocks>>
        /\ \A q \in Runs \ {r} : pc'[q] = pc[q]
        /\ r \in AtWork
        /\ pc'[r] \in {"answering", "assembling", "calling", "results"}
        /\ pc[r] = "calling" => pc'[r] = "results"
        /\ pc[r] # "results"
    BY <1>3 DEF AskPrompt, Execute, RunCalls, mgrVars, AtWork, GoingOn, Ended, IInv, RunsInv
  <2>2. pc[r] \notin {"calling", "results"} \/ pc'[r] = "results"
    BY <2>1
  <2>3. \A q \in Runs : pc'[q] \notin {"calling", "results"} => called'[q] = 0 /\ answered'[q] = 0
    BY <2>1, <2>2 DEF PairsInv
  <2>4. AtWork' \subseteq AtWork
    BY <2>1 DEF AtWork, GoingOn
  <2>5. \A q \in Runs : pc[q] \in {"stopped", "dead"} => pc'[q] = pc[q]
    BY <2>1 DEF AtWork, GoingOn, Ended
  <2>6. \A q \in Runs : pc[q] \in {"calling", "results"} =>
           pc'[q] \in {"calling", "results"} /\ active'[current'] = active[current]
    BY <2>1, <2>2
  <2> QED
    BY <1>1, <2>1, <2>3, <2>4, <2>5, <2>6, QuietTalk
<1>4. ASSUME NEW r \in Runs, ReadPrompt(r), pc[r] = "assembling"
      PROVE  PairsInv'
  <2>1. /\ UNCHANGED <<overlap, called, answered, current, active, blocks>>
        /\ pc' = [pc EXCEPT ![r] = "prompted"]
    BY <1>4 DEF ReadPrompt, mgrVars
  <2>2. \A q \in Runs : pc'[q] = pc[q] \/ (q = r /\ pc'[q] = "prompted")
    BY <2>1 DEF IInv, RunsInv
  <2>3. AtWork' \subseteq AtWork
    BY <1>4, <2>2 DEF AtWork, GoingOn, Ended
  <2>4. \A q \in Runs : pc'[q] \notin {"calling", "results"} => called'[q] = 0 /\ answered'[q] = 0
    BY <1>4, <2>1, <2>2 DEF PairsInv
  <2> QED
    BY <1>1, <1>4, <2>1, <2>2, <2>3, <2>4, QuietTalk
<1>5. ASSUME NEW r \in Runs, NEW how \in {"done", "stopped"}, End(r, how), r \in GoingOn,
             UNCHANGED <<overlap, current, active, blocks>>,
             how = "done" => answered[r] = called[r]
      PROVE  PairsInv'
  <2>1. /\ \A q \in Runs : q # r => /\ pc'[q] = pc[q] /\ called'[q] = called[q]
                                    /\ answered'[q] = answered[q]
        /\ pc'[r] = how /\ called'[r] = 0 /\ answered'[r] = 0
    BY <1>5 DEF End, IInv, RunsInv
  <2>2. \A q \in AtWork' : q # r /\ q \in AtWork
    BY <1>5, <2>1 DEF AtWork, GoingOn, Ended
  <2>3. \A q \in Runs : pc'[q] \notin {"calling", "results"} => called'[q] = 0 /\ answered'[q] = 0
    BY <2>1 DEF PairsInv
  <2>4. \A q \in Runs : pc[q] \in {"stopped", "dead"} => pc'[q] = pc[q]
    BY <1>5, <2>1 DEF GoingOn, Ended
  <2>5. \A q \in AtWork' : q \in Runs
    BY DEF AtWork, GoingOn
  <2> QED
    BY <1>1, <1>5, <2>1, <2>2, <2>3, <2>4, <2>5, QuietTalk
<1>6. ASSUME NEW r \in Runs,
             (ReadPrompt(r) /\ pc[r] = "answering") \/ Finish(r) \/ Stop(r)
      PROVE  PairsInv'
  <2>1. /\ UNCHANGED <<overlap, current, active, blocks>>
        /\ r \in GoingOn
        /\ \/ End(r, "stopped")
           \/ End(r, "done") /\ answered[r] = called[r]
    BY <1>6 DEF ReadPrompt, Finish, Stop, mgrVars, GoingOn, Ended, PairsInv
  <2> QED
    BY <1>5, <2>1
<1>7. ASSUME NEW r \in Runs, ReadPrompt(r)
      PROVE  PairsInv'
  BY <1>4, <1>6, <1>7 DEF ReadPrompt
<1>8. CASE UNCHANGED vars
  BY <1>8 DEF vars, runVars, mgrVars, PairsInv, AllPaired, AllExcused, Excused, AllRecorded,
              AtWork, GoingOn
<1> QED
  BY <1>2, <1>3, <1>6, <1>7, <1>8, LookupTalk, StartTalk, CallTalk, ResultTalk, CrashTalk
     DEF Next, RunNext

LEMMA InitTalk == Init => PairsInv
<1> SUFFICES ASSUME Init
             PROVE  PairsInv
  OBVIOUS
<1>1. \A s \in Sessions : \A b \in 1 .. Len(blocks[s]) : FALSE
  <2>1. Len(<<>>) = 0
    BY EmptySeq
  <2> QED
    BY <2>1 DEF Init
<1>2. AtWork = {}
  BY DEF Init, AtWork, GoingOn
<1> QED
  BY <1>1, <1>2 DEF Init, PairsInv, AllPaired, AllExcused, AllRecorded

\* What load_events reads of a block that nothing follows a torn line in: all of it but
\* such a line.
LEMMA LoadedEvents ==
  ASSUME NEW block, block.events \in Seq(Events),
         \A k \in 1 .. Len(block.events) :
            block.events[k].type = "torn" => k = Len(block.events)
  PROVE  /\ Loaded(block) \in Seq(Events)
         /\ \A k \in 1 .. Len(Loaded(block)) :
               k \in 1 .. Len(block.events) /\ Loaded(block)[k] = block.events[k]
         /\ \A k \in 1 .. Len(block.events) :
               block.events[k].type # "torn" => k \in 1 .. Len(Loaded(block))
<1> DEFINE es == block.events
           bad == {k \in 1 .. Len(es) : es[k].type = "torn"}
<1>1. Len(es) \in Nat
  BY LenProperties
<1>2. CASE bad = {}
  BY <1>2 DEF Loaded
<1>3. CASE bad # {}
  <2>1. Len(es) \in bad /\ bad = {Len(es)} /\ Len(es) >= 1
    BY <1>1, <1>3
  <2>2. (CHOOSE k \in bad : \A l \in bad : k <= l) = Len(es)
    BY <1>1, <2>1
  <2>3. Loaded(block) = SubSeq(es, 1, Len(es) - 1)
    BY <1>3, <2>2 DEF Loaded
  <2>4. /\ SubSeq(es, 1, Len(es) - 1) \in Seq(Events)
        /\ Len(SubSeq(es, 1, Len(es) - 1)) = Len(es) - 1
        /\ \A k \in 1 .. Len(es) - 1 : SubSeq(es, 1, Len(es) - 1)[k] = es[k]
    BY <1>1, <2>1, SubSeqProperties
  <2>5. /\ \A k \in 1 .. Len(es) - 1 : k \in 1 .. Len(es)
        /\ \A k \in 1 .. Len(es) : k # Len(es) => k \in 1 .. Len(es) - 1
    BY <1>1
  <2>6. es[Len(es)].type = "torn"
    BY <2>1
  <2> HIDE DEF es, bad
  <2> QED
    BY <2>3, <2>4, <2>5, <2>6 DEF es
<1> QED
  BY <1>2, <1>3

\* At most one of a kind.
LEMMA AtMostOne ==
  ASSUME NEW n \in Nat, NEW S \in SUBSET (1 .. n), \A j \in S : \A k \in S : j = k
  PROVE  /\ S = {} => Cardinality(S) = 0
         /\ S # {} => Cardinality(S) = 1
<1>1. S = {} => Cardinality(S) = 0
  BY FS_EmptySet
<1>2. ASSUME S # {}
      PROVE  Cardinality(S) = 1
  <2>1. PICK k \in S : S = {k}
    BY <1>2
  <2> QED
    BY <2>1, FS_Singleton
<1> QED
  BY <1>1, <1>2

LEMMA PairedIsWhole ==
  ASSUME NEW block, block.events \in Seq(Events), Paired(block.events),
         \A k \in 1 .. Len(block.events) :
            block.events[k].type = "torn" => k = Len(block.events),
         \A r \in Runs : \A n \in Nat :
            Pending(block.events, r, n) => pc[r] \in {"stopped", "dead"}
  PROVE  Whole(Loaded(block))
<1> DEFINE es == block.events
           gs == Loaded(block)
<1>1. /\ gs \in Seq(Events)
      /\ \A k \in 1 .. Len(gs) : k \in 1 .. Len(es) /\ gs[k] = es[k]
      /\ \A k \in 1 .. Len(es) : es[k].type # "torn" => k \in 1 .. Len(gs)
  BY LoadedEvents
<1>2. Len(gs) \in Nat /\ Len(es) \in Nat
  BY <1>1, LenProperties
<1> HIDE DEF gs
<1>3. SUFFICES ASSUME NEW r \in Runs, NEW n \in 1 .. CallsOf[r]
               PROVE  LET calls == At(gs, "call", r, n)
                          results == At(gs, "result", r, n)
                      IN  /\ Cardinality(calls) <= 1
                          /\ Cardinality(results) <= Cardinality(calls)
                          /\ \A j \in calls, k \in results : j < k
                          /\ calls # {} /\ results = {} => pc[r] \in {"stopped", "dead"}
  BY DEF Whole, gs
<1> DEFINE calls == At(gs, "call", r, n)
           results == At(gs, "result", r, n)
<1>4. n \in Nat
  BY <1>3, BlocksAssumption
<1>5. /\ \A k \in calls : k \in 1 .. Len(es) /\ es[k] = Event("call", r, n)
      /\ \A k \in results : k \in 1 .. Len(es) /\ es[k] = Event("result", r, n)
      /\ \A k \in 1 .. Len(es) : es[k] = Event("call", r, n) => k \in calls
      /\ \A k \in 1 .. Len(es) : es[k] = Event("result", r, n) => k \in results
      /\ calls \in SUBSET (1 .. Len(gs)) /\ results \in SUBSET (1 .. Len(gs))
  BY <1>1 DEF At, Event
<1>6. \A j \in calls : \A k \in calls : j = k
  BY <1>5 DEF Paired, Event
<1>7. \A j \in results : \A k \in results : j = k
  BY <1>5 DEF Paired, Event
<1>8. \A k \in results : \E j \in calls : j < k
  <2> SUFFICES ASSUME NEW k \in results
               PROVE  \E j \in calls : j < k
    OBVIOUS
  <2>1. k \in 1 .. Len(es) /\ es[k] = Event("result", r, n)
    BY <1>5
  <2>2. es[k].type = "result" /\ es[k].run = r /\ es[k].n = n
    BY <2>1 DEF Event
  <2>3. PICK j \in 1 .. Len(es) : j < k /\ es[j] = Event("call", r, n)
    BY <2>1, <2>2 DEF Paired
  <2> QED
    BY <1>5, <2>3
<1>9. calls # {} /\ results = {} => Pending(es, r, n)
  BY <1>5 DEF Pending, CallIn, ResultIn
<1> HIDE DEF calls, results, es
<1>10. /\ calls = {} => Cardinality(calls) = 0
       /\ calls # {} => Cardinality(calls) = 1
       /\ results = {} => Cardinality(results) = 0
       /\ results # {} => Cardinality(results) = 1
  BY <1>2, <1>5, <1>6, <1>7, AtMostOne
<1>11. Cardinality(calls) <= 1 /\ Cardinality(results) <= Cardinality(calls)
  BY <1>8, <1>10
<1>12. \A j \in calls, k \in results : j < k
  BY <1>6, <1>8
<1> QED
  BY <1>4, <1>9, <1>11, <1>12 DEF calls, results, es

\* As long as runs do not overlap, whatever a prompt shows, of this run's block and of
\* earlier ones, it shows every result once, after its call, and leaves a call without
\* a result only where its run was stopped or died.
THEOREM PromptCorrect == Spec => PromptIsWhole
<1> DEFINE PromptStep ==
              \A r \in Runs : Reads(r) /\ ~overlap =>
                 \A b \in Shown(uses[r]) : Whole(Loaded(blocks[SessionOf[uses[r]]][b]))
<1>1. IInv /\ AloneInv /\ PairsInv => PromptStep
  <2> SUFFICES ASSUME IInv, AloneInv, PairsInv, NEW r \in Runs, Reads(r), ~overlap,
                      NEW b \in Shown(uses[r])
               PROVE  Whole(Loaded(blocks[SessionOf[uses[r]]][b]))
    OBVIOUS
  <2>1. pc[r] \in {"answering", "assembling"} /\ r \in AtWork
    BY DEF Reads, AtWork, GoingOn, Ended
  <2>2. /\ current \in Runs /\ uses[r] = current
        /\ SessionOf[current] = SessionOf[r] /\ SessionOf[r] \in Sessions
        /\ active[current] # 0
        /\ active[current] \in 1 .. Len(blocks[SessionOf[r]])
        /\ blocks[SessionOf[r]] \in Dirs
        /\ \A q \in GoingOn : q = r
    BY <2>1, WorksInBlock
  <2> DEFINE s == SessionOf[r]
             block == blocks[s][b]
  <2>3. count[current] = Len(blocks[s])
    BY <2>2, CurrentKnows DEF IInv, StoreInv, Knows
  <2>4. b \in 1 .. Len(blocks[s])
    BY <2>2, <2>3 DEF Shown, Recent
  <2>5. block.events \in Seq(Events)
    BY <2>2, <2>4, EventsOfDir
  <2>6. /\ Paired(block.events)
        /\ \A q \in Runs : \A n \in Nat : Pending(block.events, q, n) => Excused(s, b, q)
    BY <2>2, <2>4 DEF PairsInv, AllPaired, AllExcused
  <2>7. \A k \in 1 .. Len(block.events) :
           block.events[k].type = "torn" => k = Len(block.events)
    BY <2>2, <2>4 DEF AloneInv, Own
  <2>8. \A q \in Runs : pc[q] \notin {"calling", "results"}
    BY <2>1, <2>2 DEF GoingOn, Ended
  <2>9. \A q \in Runs : \A n \in Nat :
           Pending(block.events, q, n) => pc[q] \in {"stopped", "dead"}
    BY <2>6, <2>8 DEF Excused
  <2> HIDE DEF block
  <2>10. Whole(Loaded(block))
    BY <2>5, <2>6, <2>7, <2>9, PairedIsWhole
  <2> QED
    BY <2>2, <2>10 DEF block
<1>2. Init => PairsInv
  BY InitTalk
<1>3. IInv /\ AloneInv /\ PairsInv /\ [Next]_vars => PairsInv'
  BY NextTalk
<1>4. Spec => [][PromptStep]_vars
  <2>1. IInv /\ AloneInv /\ PairsInv => [PromptStep]_vars
    BY <1>1
  <2> QED
    BY <1>2, <1>3, <2>1, AloneInvariance, PTL DEF Spec
<1> QED
  BY <1>4 DEF PromptIsWhole

\* The flaw SessionsApart shows is one of overlapping runs alone: while runs wait for
\* each other, all that is recorded is recorded in the session of its run.
THEOREM ApartWithoutOverlap == Spec => [](~overlap => SessionsApart)
<1>1. OwnBlock => (~overlap => SessionsApart)
  BY DEF OwnBlock, SessionsApart
<1> QED
  BY <1>1, OwnBlockCorrect, PTL

-----------------------------------------------------------------------------
(* History *)

\* fs goes on where es ends.
GoesOn(es, fs) == \A k \in 1 .. Len(es) : k \in 1 .. Len(fs) /\ fs[k] = es[k]

\* Every block is still there and goes on with the events it had.
Grown(bs, ds) == \A b \in 1 .. Len(bs) : b \in 1 .. Len(ds) /\ GoesOn(bs[b].events, ds[b].events)

\* A set of numbers that is not empty has a least one.
LEMMA LeastOf ==
  ASSUME NEW T \in SUBSET Nat, T # {}
  PROVE  \E n \in T : \A m \in T : n <= m
<1> DEFINE R == OpToRel(<, Nat)
<1>1. IsWellFoundedOn(R, Nat)
  BY NatLessThanWellFounded
<1>2. \A n, m \in Nat : m < n => <<m, n>> \in R
  BY DEF OpToRel
<1> HIDE DEF R
<1>3. PICK n \in T : \A m \in T : <<m, n>> \notin R
  BY <1>1, WFMin
<1>4. \A m \in T : ~(m < n)
  BY <1>2, <1>3
<1>5. \A k, m \in Nat : ~(m < k) => k <= m
  OBVIOUS
<1> QED
  BY <1>4, <1>5

\* What load_events reads: the events before the first line that is torn.
LEMMA LoadedMeans ==
  ASSUME NEW block, block.events \in Seq(Events)
  PROVE  \A k \in Nat :
            /\ k \in 1 .. Len(Loaded(block)) <=>
                  /\ k \in 1 .. Len(block.events)
                  /\ \A l \in 1 .. k : block.events[l].type # "torn"
            /\ k \in 1 .. Len(Loaded(block)) => Loaded(block)[k] = block.events[k]
<1> DEFINE es == block.events
           bad == {k \in 1 .. Len(es) : es[k].type = "torn"}
<1>1. Len(es) \in Nat
  BY LenProperties
<1>2. CASE bad = {}
  <2>1. Loaded(block) = es
    BY <1>2 DEF Loaded
  <2>2. \A k \in 1 .. Len(es) : \A l \in 1 .. k : l \in 1 .. Len(es) /\ l \notin bad
    BY <1>1, <1>2
  <2> QED
    BY <2>1, <2>2
<1>3. CASE bad # {}
  <2> DEFINE first == CHOOSE k \in bad : \A l \in bad : k <= l
  <2>1. bad \in SUBSET Nat
    BY <1>1
  <2>2. \E k \in bad : \A l \in bad : k <= l
    BY <1>3, <2>1, LeastOf
  <2>3. first \in bad /\ \A l \in bad : first <= l
    BY <2>2
  <2>4. Loaded(block) = SubSeq(es, 1, first - 1)
    BY <1>3 DEF Loaded
  <2> HIDE DEF first
  <2>5. first \in 1 .. Len(es) /\ es[first].type = "torn"
    BY <2>3
  <2>6. /\ Len(SubSeq(es, 1, first - 1)) = first - 1
        /\ \A k \in 1 .. first - 1 : SubSeq(es, 1, first - 1)[k] = es[k]
    BY <1>1, <2>5, SubSeqProperties
  <2> SUFFICES ASSUME NEW k \in Nat
               PROVE  /\ k \in 1 .. first - 1 <=>
                            k \in 1 .. Len(es) /\ \A l \in 1 .. k : es[l].type # "torn"
                      /\ k \in 1 .. first - 1 => Loaded(block)[k] = es[k]
    BY <2>4, <2>6
  <2>7. ASSUME k \in 1 .. first - 1
        PROVE  k \in 1 .. Len(es) /\ \A l \in 1 .. k : es[l].type # "torn"
    <3>1. \A l \in 1 .. k : l \in 1 .. Len(es) /\ l < first
      BY <1>1, <2>5, <2>7
    <3>2. \A l \in 1 .. k : l \notin bad
      BY <2>3, <2>5, <3>1
    <3>3. k \in 1 .. Len(es)
      BY <1>1, <2>5, <2>7
    <3> QED
      BY <3>1, <3>2, <3>3
  <2>8. ASSUME k \in 1 .. Len(es), \A l \in 1 .. k : es[l].type # "torn"
        PROVE  k \in 1 .. first - 1
    <3>1. first \notin 1 .. k
      BY <2>5, <2>8
    <3> HIDE DEF es
    <3> QED
      BY <1>1, <2>5, <2>8, <3>1
  <2> QED
    BY <2>4, <2>6, <2>7, <2>8
<1> QED
  BY <1>2, <1>3

\* Where the events go on, so does what is read of them.
LEMMA LoadedGoesOn ==
  ASSUME NEW block, NEW later, block.events \in Seq(Events), later.events \in Seq(Events),
         GoesOn(block.events, later.events)
  PROVE  GoesOn(Loaded(block), Loaded(later))
<1> SUFFICES ASSUME NEW k \in 1 .. Len(Loaded(block))
             PROVE  k \in 1 .. Len(Loaded(later)) /\ Loaded(later)[k] = Loaded(block)[k]
  BY DEF GoesOn
<1>1. k \in Nat /\ Len(block.events) \in Nat
  BY LenProperties
<1>2. /\ k \in 1 .. Len(block.events)
      /\ \A l \in 1 .. k : block.events[l].type # "torn"
      /\ Loaded(block)[k] = block.events[k]
  BY <1>1, LoadedMeans
<1>3. \A l \in 1 .. k : l \in 1 .. Len(block.events)
  BY <1>1, <1>2
<1>4. /\ k \in 1 .. Len(later.events)
      /\ \A l \in 1 .. k : later.events[l].type # "torn"
      /\ later.events[k] = block.events[k]
  BY <1>2, <1>3 DEF GoesOn
<1> QED
  BY <1>1, <1>2, <1>4, LoadedMeans

LEMMA GrownItself == \A bs : Grown(bs, bs)
  BY DEF Grown, GoesOn

LEMMA GrownTwice ==
  ASSUME NEW bs, NEW ds, NEW es, Grown(bs, ds), Grown(ds, es)
  PROVE  Grown(bs, es)
<1> SUFFICES ASSUME NEW b \in 1 .. Len(bs)
             PROVE  b \in 1 .. Len(es) /\ GoesOn(bs[b].events, es[b].events)
  BY DEF Grown
<1>1. b \in 1 .. Len(ds) /\ GoesOn(bs[b].events, ds[b].events)
  BY DEF Grown
<1>2. b \in 1 .. Len(es) /\ GoesOn(ds[b].events, es[b].events)
  BY <1>1 DEF Grown
<1> QED
  BY <1>1, <1>2 DEF GoesOn

\* Neither a meta file nor a seal touches the events; an event comes after the others;
\* and a new directory is none of the old ones.
LEMMA GrownByMeta ==
  ASSUME NEW bs \in Dirs, NEW n \in 1 .. Len(bs), NEW status \in Metas
  PROVE  Grown(bs, WriteMeta(bs, n, status))
  BY MetaWritten DEF Grown, GoesOn

LEMMA GrownBySeal ==
  ASSUME NEW bs \in Dirs, NEW n \in 0 .. Len(bs)
  PROVE  Grown(bs, Seal(bs, n))
  BY Sealed DEF Grown, GoesOn

LEMMA GrownByEvent ==
  ASSUME NEW bs \in Dirs, NEW n \in 1 .. Len(bs), NEW e \in Events
  PROVE  Grown(bs, Appended(bs, n, e))
<1> DEFINE d == Appended(bs, n, e)
<1>1. /\ Len(d) = Len(bs)
      /\ \A b \in 1 .. Len(bs) : b # n => d[b].events = bs[b].events
      /\ d[n].events = Append(bs[n].events, e)
  BY EventAppended
<1>2. GoesOn(bs[n].events, Append(bs[n].events, e))
  <2>1. bs[n].events \in Seq(Events)
    BY EventsOfDir
  <2> DEFINE es == bs[n].events
  <2>2. /\ Len(Append(es, e)) = Len(es) + 1
        /\ \A k \in 1 .. Len(es) : Append(es, e)[k] = es[k]
        /\ \A k \in 1 .. Len(es) : k \in 1 .. Len(es) + 1
    BY <2>1, Added
  <2> HIDE DEF es
  <2>3. GoesOn(es, Append(es, e))
    BY <2>2 DEF GoesOn
  <2> QED
    BY <2>3 DEF es
<1> HIDE DEF d
<1>3. \A b \in 1 .. Len(bs) : GoesOn(bs[b].events, d[b].events)
  BY <1>1, <1>2 DEF GoesOn
<1> QED
  BY <1>1, <1>3 DEF Grown, d

LEMMA GrownByDir ==
  ASSUME NEW bs \in Dirs
  PROVE  Grown(bs, MakeDir(bs, Len(bs) + 1))
<1> DEFINE made == MakeDir(bs, Len(bs) + 1)
<1>1. /\ Len(made) = Len(bs) + 1
      /\ \A b \in 1 .. Len(bs) : made[b] = bs[b]
  BY DirMade
<1>2. \A b \in 1 .. Len(bs) : b \in 1 .. Len(bs) + 1
  BY LenProperties DEF Dirs
<1> HIDE DEF made
<1> QED
  BY <1>1, <1>2 DEF Grown, GoesOn, made

\* The steps of a block's start, each after the other.
LEMMA GrownByStart ==
  ASSUME NEW bs \in Dirs, OneInput(bs), LastActive(bs), NEW e \in Events
  PROVE  LET n == Len(bs) + 1
             sealed == Seal(bs, ActiveOf(bs))
             made == MakeDir(sealed, n)
             begun == Appended(made, n, e)
         IN  Grown(bs, sealed) /\ Grown(bs, made) /\ Grown(bs, begun)
<1> DEFINE n == Len(bs) + 1
           sealed == Seal(bs, ActiveOf(bs))
           made == MakeDir(sealed, n)
           begun == Appended(made, n, e)
<1>1. /\ sealed \in Dirs /\ Len(sealed) = Len(bs)
      /\ made \in Dirs /\ n \in 1 .. Len(made)
  BY NextBlock
<1>2. Grown(bs, sealed)
  BY ActiveInRange, GrownBySeal
<1>3. Grown(sealed, made)
  BY <1>1, GrownByDir
<1>4. Grown(made, begun)
  BY <1>1, GrownByEvent
<1> HIDE DEF begun, made, sealed
<1>5. Grown(bs, made)
  BY <1>2, <1>3, GrownTwice
<1>6. Grown(bs, begun)
  BY <1>4, <1>5, GrownTwice
<1> QED
  BY <1>2, <1>5, <1>6 DEF begun, made, sealed, n

AllGrown == \A s \in Sessions : Grown(blocks[s], blocks'[s])

\* A step that makes one session's directory grow.
LEMMA GrownInOne ==
  ASSUME StoreInv, NEW s \in Sessions, NEW d, Grown(blocks[s], d),
         blocks' = [blocks EXCEPT ![s] = d]
  PROVE  AllGrown
<1>1. \A t \in Sessions : blocks'[t] = IF t = s THEN d ELSE blocks[t]
  BY DEF StoreInv, DirsInv
<1> QED
  BY <1>1, GrownItself DEF AllGrown

LEMMA GrownByRecord ==
  ASSUME IInv, NEW m \in Runs, NEW e \in Events,
         \/ Record(m, e)
         \/ active[m] # 0 /\ blocks' = [blocks EXCEPT ![SessionOf[m]] = Appended(@, active[m], e)]
  PROVE  AllGrown
<1>1. CASE active[m] = 0
  BY <1>1, GrownItself DEF Record, AllGrown
<1>2. CASE active[m] # 0
  <2> DEFINE s == SessionOf[m]
             d == Appended(blocks[s], active[m], e)
  <2>1. s \in Sessions /\ blocks[s] \in Dirs /\ active[m] \in 1 .. Len(blocks[s])
    BY <1>2, ActiveIsThere DEF IInv
  <2>2. blocks' = [blocks EXCEPT ![s] = d]
    BY <1>2 DEF Record
  <2>3. Grown(blocks[s], d)
    BY <2>1, GrownByEvent
  <2> HIDE DEF d, s
  <2> QED
    BY <2>1, <2>2, <2>3, GrownInOne DEF IInv
<1> QED
  BY <1>1, <1>2

\* Whatever a death leaves of a block's start, it leaves what was there.
LEMMA GrownInPart ==
  ASSUME IInv, current \in Runs, NEW r \in Runs, NEW d \in PartialStarts(r)
  PROVE  Grown(blocks[SessionOf[current]], d)
<1> DEFINE m == current
           bs == blocks[SessionOf[m]]
           n == count[m] + 1
           e == Event("user", r, 0)
           sealed == Seal(bs, active[m])
           made == MakeDir(sealed, n)
           begun == Appended(made, n, e)
           torn == Appended(made, n, Torn(r))
<1>1. bs \in Dirs /\ OneInput(bs) /\ LastActive(bs)
  BY SessionsOfRuns DEF IInv, StoreInv, DirsInv
<1>2. count[m] = Len(bs) /\ active[m] = ActiveOf(bs)
  BY CurrentKnows DEF IInv, StoreInv, Knows
<1>3. e \in Events /\ Torn(r) \in Events /\ "broken" \in Metas
  BY DEF Events, Event, Torn, Metas
<1>4. n \in 1 .. Len(begun) /\ begun \in Dirs
  BY <1>1, <1>2, <1>3, NextBlock
<1>5. Grown(bs, sealed) /\ Grown(bs, made) /\ Grown(bs, begun)
  BY <1>1, <1>2, <1>3, GrownByStart
<1>6. Grown(bs, torn)
  BY <1>1, <1>2, <1>3, GrownByStart
<1>7. \/ d \in {sealed, made, torn, begun}
      \/ d = WriteMeta(begun, n, "broken")
      \/ active[m] # 0 /\ d = WriteMeta(bs, active[m], "broken")
  BY DEF PartialStarts, Starter
<1>8. active[m] # 0 => active[m] \in 1 .. Len(bs)
  BY <1>1, <1>2, ActiveInRange
<1> HIDE DEF e, begun, torn, made, sealed, n, bs, m
<1>9. CASE d = WriteMeta(begun, n, "broken")
  BY <1>3, <1>4, <1>5, <1>9, GrownByMeta, GrownTwice DEF bs, m
<1>10. CASE active[m] # 0 /\ d = WriteMeta(bs, active[m], "broken")
  BY <1>1, <1>3, <1>8, <1>10, GrownByMeta DEF bs, m
<1> QED
  BY <1>5, <1>6, <1>7, <1>9, <1>10 DEF bs, m

LEMMA CrashGrown ==
  ASSUME IInv, Crash
  PROVE  AllGrown
<1>1. CASE blocks' = blocks
  BY <1>1, GrownItself DEF AllGrown
<1>2. ASSUME NEW r \in Runs, pc[r] = "loading", NEW d \in PartialStarts(r),
             blocks' = [blocks EXCEPT ![SessionOf[current]] = d]
      PROVE  AllGrown
  <2>1. current \in Runs
    BY <1>2 DEF GoingOn, Ended, IInv, RunsInv
  <2> QED
    BY <1>2, <2>1, GrownInPart, SessionsOfRuns, GrownInOne DEF IInv
<1>3. ASSUME NEW r \in Runs, pc[r] \in {"thinking", "calling", "results"},
             active[Writes(r)] # 0,
             blocks' = [blocks EXCEPT ![SessionOf[Writes(r)]] =
                           Appended(@, active[Writes(r)], Torn(r))]
      PROVE  AllGrown
  <2>1. r \in GoingOn
    BY <1>3 DEF GoingOn, Ended
  <2>2. PICK m \in Runs : m = Writes(r)
    BY <2>1 DEF IInv, RunsInv, Writes
  <2>3. Torn(r) \in Events
    BY DEF Torn, Event, Events
  <2> QED
    BY <1>3, <2>2, <2>3, GrownByRecord
<1> QED
  BY <1>1, <1>2, <1>3, CrashLeaves

LEMMA StartGrown ==
  ASSUME IInv, NEW r \in Runs, StartBlock(r)
  PROVE  AllGrown
<1> DEFINE m == current
           s == SessionOf[m]
           bs == blocks[s]
           n == count[m] + 1
           e == Event("user", r, 0)
           begun == Appended(MakeDir(Seal(bs, active[m]), n), n, e)
           d == WriteMeta(begun, n, "active")
<1>1. r \in GoingOn /\ m \in Runs
  BY DEF StartBlock, IInv, RunsInv, GoingOn, Ended
<1>2. s \in Sessions /\ bs \in Dirs /\ OneInput(bs) /\ LastActive(bs)
  BY <1>1, SessionsOfRuns DEF IInv, StoreInv, DirsInv
<1>3. count[m] = Len(bs) /\ active[m] = ActiveOf(bs)
  BY <1>1, CurrentKnows DEF IInv, StoreInv, Knows
<1>4. e \in Events /\ "active" \in Metas
  BY DEF Events, Event, Metas
<1>5. blocks' = [blocks EXCEPT ![s] = d]
  BY DEF StartBlock, Starter
<1>6. n \in 1 .. Len(begun) /\ begun \in Dirs
  BY <1>2, <1>3, <1>4, NextBlock
<1>7. Grown(bs, begun)
  BY <1>2, <1>3, <1>4, GrownByStart
<1> HIDE DEF begun, n
<1>8. Grown(begun, d)
  BY <1>4, <1>6, GrownByMeta
<1> HIDE DEF d
<1>9. Grown(bs, d)
  BY <1>7, <1>8, GrownTwice
<1> HIDE DEF s
<1> QED
  BY <1>2, <1>5, <1>9, GrownInOne DEF IInv

\* No step of a run and no death takes an event away.
LEMMA NextGrown == IInv /\ [Next]_vars => AllGrown
<1> SUFFICES ASSUME IInv, [Next]_vars
             PROVE  AllGrown
  OBVIOUS
<1>1. ASSUME NEW r \in Runs, NEW m, m \in {uses[r], current}, r \in GoingOn,
             NEW type \in {"plan", "call", "result"}, NEW n \in Nat, Record(m, Event(type, r, n))
      PROVE  AllGrown
  <2>1. Event(type, r, n) \in Events
    BY DEF Event, Events
  <2>2. m \in Runs
    BY <1>1 DEF IInv, RunsInv
  <2> QED
    BY <1>1, <2>1, <2>2, GrownByRecord
<1>2. ASSUME NEW r \in Runs, RecordPlan(r)
      PROVE  AllGrown
  BY <1>1, <1>2 DEF RecordPlan, GoingOn, Ended
<1>3. ASSUME NEW r \in Runs, RecordCall(r)
      PROVE  AllGrown
  <2>1. /\ r \in GoingOn /\ called'[r] \in Nat
        /\ Record(uses[r], Event("call", r, called'[r]))
    BY <1>3 DEF RecordCall, GoingOn, Ended, IInv, RunsInv
  <2> QED
    BY <1>1, <2>1
<1>4. ASSUME NEW r \in Runs, RecordResult(r)
      PROVE  AllGrown
  <2>1. /\ r \in GoingOn /\ AnsweredCall(r) \in Nat
        /\ Record(uses[r], Event("result", r, AnsweredCall(r)))
    BY <1>4 DEF RecordResult, AnsweredCall, GoingOn, Ended, IInv, RunsInv
  <2> QED
    BY <1>1, <2>1
<1>5. ASSUME blocks' = blocks
      PROVE  AllGrown
  BY <1>5, GrownItself DEF AllGrown
<1>6. ASSUME NEW r \in Runs,
             \/ Lookup(r) \/ AskPrompt(r) \/ ReadPrompt(r) \/ Execute(r) \/ RunCalls(r)
             \/ Finish(r) \/ Stop(r)
      PROVE  AllGrown
  BY <1>5, <1>6 DEF Lookup, AskPrompt, ReadPrompt, Execute, RunCalls, Finish, Stop
<1> QED
  BY <1>2, <1>3, <1>4, <1>5, <1>6, StartGrown, CrashGrown DEF Next, RunNext, vars

\* The blocks go on, and so does what load_events reads of them.
HistoryStep ==
    \A s \in Sessions : \A b \in 1 .. Len(blocks[s]) :
        /\ b \in 1 .. Len(blocks'[s])
        /\ GoesOn(blocks[s][b].events, blocks'[s][b].events)
        /\ GoesOn(Loaded(blocks[s][b]), Loaded(blocks'[s][b]))

\* What is recorded stays: whatever runs overlap and whenever the process dies, no step
\* takes a block or one of its events away, changes their order or hides from
\* load_events what it could read before.
THEOREM HistoryIsKept == Spec => [][HistoryStep]_vars
<1>1. IInv /\ IInv' /\ [Next]_vars => [HistoryStep]_vars
  <2> SUFFICES ASSUME IInv, IInv', [Next]_vars,
                      NEW s \in Sessions, NEW b \in 1 .. Len(blocks[s])
               PROVE  /\ b \in 1 .. Len(blocks'[s])
                      /\ GoesOn(blocks[s][b].events, blocks'[s][b].events)
                      /\ GoesOn(Loaded(blocks[s][b]), Loaded(blocks'[s][b]))
    BY DEF HistoryStep
  <2>1. b \in 1 .. Len(blocks'[s]) /\ GoesOn(blocks[s][b].events, blocks'[s][b].events)
    BY NextGrown DEF AllGrown, Grown
  <2>2. blocks[s] \in Dirs /\ blocks'[s] \in Dirs
    BY DEF IInv, StoreInv, DirsInv
  <2>3. blocks[s][b].events \in Seq(Events) /\ blocks'[s][b].events \in Seq(Events)
    BY <2>1, <2>2, EventsOfDir
  <2>4. GoesOn(Loaded(blocks[s][b]), Loaded(blocks'[s][b]))
    BY <2>1, <2>3, LoadedGoesOn
  <2> QED
    BY <2>1, <2>4
<1> QED
  BY <1>1, Invariance, PTL DEF Spec
=============================================================================
