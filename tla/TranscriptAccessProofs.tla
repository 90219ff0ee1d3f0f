----------------------- MODULE TranscriptAccessProofs -----------------------
(* Proofs about TranscriptAccess for any sessions, files, limit and writers. *)
EXTENDS TranscriptAccess, FiniteSetTheorems, TLAPS

-----------------------------------------------------------------------------
(* While a source is read, the open file holds what it was seen to hold; and as
   long as its stamp is the one that was taken, it held nothing else, and what
   was read is the beginning of that, or all of it. *)
Faithful(r) ==
  LET now == inodes[r.inode].blocks IN
  /\ r.held = {now} /\ Len(now) <= Limit
  /\ Len(r.payload) <= Len(now) /\ \A n \in 1..Len(r.payload) : r.payload[n] = now[n]
  /\ r.phase = "read" => Len(r.payload) = Len(now)
Watched(r) ==
  r.phase \in {"reading", "read"} =>
    /\ r.inode \in Inodes /\ r.stat \in Nat /\ r.stat <= inodes[r.inode].stamp
    /\ r.todo # <<>> /\ Len(r.payload) <= Limit + 1
    /\ inodes[r.inode].blocks \in r.held
    /\ inodes[r.inode].stamp = r.stat => Faithful(r)

(* In a quiet time, the sources that were skipped could not be shown, and the
   file that is read is the one the path of the source leads to. *)
Readable(r, l) == l \in r.roots /\ names[l] \in Inodes
Passed(r, l) ==
  Readable(r, l) => LET b == inodes[names[l]].blocks IN Len(b) > Limit \/ b = <<>> \/ b[1][1] # Recorder[r.session]
Skipped(r) == Len(r.sources) - Len(r.todo)
Quiet(r) ==
  r.phase # "answered" /\ r.quiet =>
    /\ Len(r.todo) <= Len(r.sources)
    /\ \A n \in 1..Len(r.todo) : r.todo[n] = r.sources[Skipped(r) + n]
    /\ \A n \in 1..Skipped(r) : Passed(r, r.sources[n])
    /\ r.phase \in {"reading", "read"} =>
         /\ Readable(r, r.todo[1]) /\ r.inode = names[r.todo[1]] /\ r.stat = inodes[r.inode].stamp

Fresh(r) == r.phase = "next" => r.payload = <<>> /\ r.held = {}
Honest(r) == r.phase = "answered" /\ r.how = "shown" =>
               r.payload \in r.held /\ Len(r.payload) <= Limit /\ r.payload[1][1] = Recorder[r.session]
Fair(r) ==
  r.phase = "answered" /\ r.how # "shown" /\ r.quiet =>
    \A n \in DOMAIN r.sources :
      \/ Passed(r, r.sources[n])
      \/ \E m \in 1..(n - 1) : LET k == r.sources[m] IN
           Readable(r, k) /\ (inodes[names[k]].blocks = <<>> \/ Harness[r.session] \notin {"pi", "codex"})

Sound(r) == Watched(r) /\ Quiet(r) /\ Fresh(r) /\ Honest(r) /\ Fair(r)
AccessInv == TypeOK /\ (request # Idle => Sound(request))

-----------------------------------------------------------------------------
(* Types. *)

LEMMA RequestShape ==
  ASSUME NEW r \in {Idle} \cup Readings \cup Answers
  PROVE  /\ r.phase = "idle" <=> r = Idle
         /\ r.phase \in {"next", "reading", "read"} <=> r \in Readings
         /\ r.phase = "answered" <=> r \in Answers
BY DEF Idle, Readings, Answers

LEMMA OrderTypes ==
  ASSUME TypeOK, NEW s \in Sessions, NEW q \in Orders(s)
  PROVE  q \in Seq(Locators)
<1>1. PICK c \in Candidates(s) : q \in SetToSeqs(c)
  BY DEF Orders
<1>2. c \subseteq Locators
  BY <1>1 DEF Candidates, Held, Available
<1>3. IsFiniteSet(c)
  BY <1>2, AccessConstants, FS_Subset
<1>4. Cardinality(c) \in Nat
  BY <1>3, FS_CardinalityType
<1>5. q \in [1..Cardinality(c) -> c]
  BY <1>1 DEF SetToSeqs
<1> QED BY <1>2, <1>4, <1>5

LEMMA InitTypes == Init => TypeOK
<1> SUFFICES ASSUME Init PROVE TypeOK
  OBVIOUS
<1> USE DEF Init
<1>1. ledger \in [Locators -> Seq(Generations)]
  OBVIOUS
<1>2. names \in [Locators -> Inodes \cup {None}]
  BY AccessConstants
<1>3. PICK of \in [Locators -> Writers \X (1..Limit)] :
        inodes = [i \in Inodes |->
                   [blocks |-> IF \E l \in Locators : Listed[l] = i
                               THEN LET l == CHOOSE k \in Locators : Listed[k] = i IN [n \in 1..of[l][2] |-> <<of[l][1], 0>>]
                               ELSE <<>>,
                    stamp |-> 0]]
  OBVIOUS
<1>4. ASSUME NEW i \in Inodes PROVE inodes[i] \in [blocks : Blocks, stamp : Nat] /\ inodes[i].stamp = 0
  <2>1. CASE \E l \in Locators : Listed[l] = i
    <3> DEFINE l == CHOOSE k \in Locators : Listed[k] = i
    <3>1. l \in Locators
      BY <2>1
    <3> HIDE DEF l
    <3>2. inodes[i] = [blocks |-> [n \in 1..of[l][2] |-> <<of[l][1], 0>>], stamp |-> 0]
      BY <1>3, <2>1 DEF l
    <3>3. of[l] \in Writers \X (1..Limit)
      BY <3>1
    <3>4. of[l][1] \in Sessions /\ of[l][2] \in Nat
      BY <3>3, AccessConstants DEF Writers
    <3>5. ASSUME NEW m \in Nat, NEW t \in Sessions PROVE [n \in 1..m |-> <<t, 0>>] \in Blocks
      <4>1. [n \in 1..m |-> <<t, 0>>] \in [1..m -> Sessions \X Nat]
        OBVIOUS
      <4> HIDE DEF Init
      <4> QED BY <4>1 DEF Blocks
    <3> HIDE DEF Init
    <3>6. [n \in 1..of[l][2] |-> <<of[l][1], 0>>] \in Blocks
      <4> DEFINE m == of[l][2]  t == of[l][1]
      <4>1. m \in Nat /\ t \in Sessions
        BY <3>4
      <4> HIDE DEF m, t
      <4>2. [n \in 1..m |-> <<t, 0>>] \in Blocks
        BY <3>5, <4>1
      <4> QED BY <4>2 DEF m, t
    <3> QED BY <3>2, <3>6
  <2>2. CASE ~\E l \in Locators : Listed[l] = i
    <3>1. inodes[i] = [blocks |-> <<>>, stamp |-> 0]
      BY <1>3, <2>2
    <3> HIDE DEF Init
    <3>2. <<>> \in Blocks
      BY DEF Blocks
    <3> QED BY <3>1, <3>2
  <2> QED BY <2>1, <2>2
<1>5. inodes = [i \in Inodes |-> inodes[i]]
  BY <1>3
<1>6. inodes \in [Inodes -> [blocks : Blocks, stamp : Nat]]
  BY <1>4, <1>5
<1>7. writes = 0 /\ request = Idle /\ parents \in [Sessions -> Locators \cup {None}]
  OBVIOUS
<1> HIDE DEF Init
<1> QED BY <1>1, <1>2, <1>4, <1>6, <1>7 DEF TypeOK

-----------------------------------------------------------------------------
(* The world. *)

LEMMA ChangedTypes ==
  ASSUME TypeOK, NEW i \in Inodes, NEW b \in Blocks, Changed(i, b)
  PROVE  /\ inodes' \in [Inodes -> [blocks : Blocks, stamp : Nat]]
         /\ inodes'[i].stamp = writes + 1 /\ inodes'[i].blocks = b
         /\ \A j \in Inodes : j # i => inodes'[j] = inodes[j]
BY DEF TypeOK, Changed

LEMMA WorldMoves ==
  ASSUME TypeOK, World
  PROVE  /\ writes' = writes + 1 /\ writes' \in Nat /\ ledger' = ledger /\ parents' = parents
         /\ names' \in [Locators -> Inodes \cup {None}]
         /\ inodes' \in [Inodes -> [blocks : Blocks, stamp : Nat]]
         /\ \A j \in Inodes : inodes'[j] = inodes[j] \/ inodes'[j].stamp = writes + 1
<1>1. CASE \E i \in Inodes : GoOn(i)
  <2>1. PICK i \in Inodes : GoOn(i)
    BY <1>1
  <2>2. PICK s \in Writers : Changed(i, Append(inodes[i].blocks, <<s, writes + 1>>))
    BY <2>1 DEF GoOn
  <2>3. Append(inodes[i].blocks, <<s, writes + 1>>) \in Blocks
    BY DEF TypeOK, Blocks, Writers
  <2> QED BY <2>1, <2>2, <2>3, ChangedTypes DEF GoOn, Written, TypeOK
<1>2. CASE \E i \in Inodes : Truncate(i)
  <2>1. PICK i \in Inodes : Truncate(i)
    BY <1>2
  <2>2. <<>> \in Blocks
    BY DEF Blocks
  <2> QED BY <2>1, <2>2, ChangedTypes DEF Truncate, Written, TypeOK
<1>3. CASE \E l \in Locators : Replace(l)
  <2>1. PICK l \in Locators : Replace(l)
    BY <1>3
  <2>2. PICK i \in Inodes, s \in Writers : names' = [names EXCEPT ![l] = i] /\ Changed(i, <<<<s, writes + 1>>>>)
    BY <2>1 DEF Replace
  <2>3. <<<<s, writes + 1>>>> \in Blocks
    BY DEF TypeOK, Blocks, Writers
  <2> QED BY <2>1, <2>2, <2>3, ChangedTypes DEF Replace, Written, TypeOK
<1>4. CASE \E l \in Locators : Unlink(l)
  BY <1>4 DEF Unlink, Written, TypeOK
<1> QED BY <1>1, <1>2, <1>3, <1>4 DEF World

LEMMA WorldStep ==
  ASSUME AccessInv, World, Follow
  PROVE  AccessInv'
<1> USE DEF AccessInv
<1>1. /\ writes' = writes + 1 /\ writes' \in Nat /\ ledger' = ledger /\ parents' = parents
      /\ names' \in [Locators -> Inodes \cup {None}]
      /\ inodes' \in [Inodes -> [blocks : Blocks, stamp : Nat]]
      /\ \A j \in Inodes : inodes'[j] = inodes[j] \/ inodes'[j].stamp = writes + 1
  BY WorldMoves
<1>2. ASSUME NEW i \in Inodes PROVE inodes'[i].stamp <= writes'
  <2>1. inodes[i].stamp \in Nat /\ inodes[i].stamp <= writes /\ writes \in Nat
    BY DEF TypeOK
  <2> QED BY <1>1, <2>1
<1>3. request \in {Idle} \cup Readings \cup Answers /\ writes \in Nat
  BY DEF TypeOK
<1>4. CASE request = Idle
  <2>1. request' = Idle
    BY <1>4 DEF Follow, Idle
  <2> QED BY <1>1, <1>2, <2>1 DEF TypeOK
<1>5. CASE request \in Answers
  <2>1. request' = [request EXCEPT !.quiet = FALSE, !.held = @]
    BY <1>5, <1>3, RequestShape DEF Follow, Answers
  <2>2. /\ request'.phase = "answered" /\ request'.how = request.how /\ request'.payload = request.payload
        /\ request'.held = request.held /\ request'.session = request.session /\ ~request'.quiet /\ request' \in Answers
    BY <1>5, <2>1 DEF Answers
  <2>3. request # Idle /\ request.phase = "answered"
    BY <1>5 DEF Idle, Answers
  <2>4. Sound(request)'
    BY <2>2, <2>3 DEF Sound, Watched, Quiet, Fresh, Honest, Fair
  <2>5. TypeOK'
    BY <1>1, <1>2, <2>2, <2>3 DEF TypeOK
  <2> QED BY <2>4, <2>5
<1>6. CASE request \in Readings
  <2> DEFINE r == request  h == IF r.phase = "next" THEN r.held ELSE r.held \cup {inodes'[r.inode].blocks}
  <2>1. r.phase \in {"next", "reading", "read"} /\ r # Idle
    BY <1>6 DEF Idle, Readings
  <2>2. request' = [r EXCEPT !.quiet = FALSE, !.held = IF r.phase \notin {"reading", "read"} THEN @ ELSE @ \cup {inodes'[r.inode].blocks}]
    BY <2>1 DEF Follow
  <2>3. request' = [r EXCEPT !.quiet = FALSE, !.held = h]
    BY <1>6, <2>1, <2>2 DEF Readings
  <2>4. r.phase # "next" => r.inode \in Inodes /\ r.stat \in Nat /\ r.stat <= inodes[r.inode].stamp /\ inodes[r.inode].blocks \in r.held
    BY <2>1 DEF Sound, Watched
  <2>5. h \in SUBSET Blocks
    BY <1>1, <1>6, <2>4 DEF Readings
  <2> HIDE DEF h
  <2>6. /\ request' \in Readings /\ request'.phase = r.phase /\ request'.session = r.session /\ request'.todo = r.todo
        /\ request'.inode = r.inode /\ request'.stat = r.stat /\ request'.payload = r.payload /\ request'.held = h /\ ~request'.quiet
    BY <1>6, <2>3, <2>5 DEF Readings
  <2>7. Fresh(request)'
    BY <2>1, <2>6 DEF Fresh, Sound, h
  <2>8. Watched(request)'
    <3> SUFFICES ASSUME r.phase # "next" PROVE Watched(request)'
      BY <2>1, <2>6 DEF Watched
    <3>1. r.inode \in Inodes /\ r.stat \in Nat /\ r.stat <= inodes[r.inode].stamp /\ inodes[r.inode].blocks \in r.held
      BY <2>4
    <3>2. r.todo # <<>> /\ Len(r.payload) <= Limit + 1 /\ (inodes[r.inode].stamp = r.stat => Faithful(r))
      BY <2>1 DEF Sound, Watched
    <3>3. inodes[r.inode].stamp \in Nat /\ inodes[r.inode].stamp <= writes
      BY <3>1 DEF TypeOK
    <3>4. h = r.held \cup {inodes'[r.inode].blocks}
      BY DEF h
    <3>5. CASE inodes'[r.inode] = inodes[r.inode]
      <4>1. h = r.held
        BY <3>1, <3>4, <3>5
      <4>2. Faithful(r) => Faithful(request)'
        BY <3>5, <4>1, <2>6 DEF Faithful
      <4> QED BY <2>1, <2>6, <3>1, <3>2, <3>5, <4>1, <4>2 DEF Watched
    <3>6. CASE inodes'[r.inode].stamp = writes + 1
      <4>1. r.stat < inodes'[r.inode].stamp
        BY <1>3, <3>1, <3>3, <3>6
      <4> QED BY <1>1, <2>1, <2>6, <3>1, <3>2, <3>4, <4>1 DEF Watched
    <3> QED BY <1>1, <3>1, <3>5, <3>6
  <2>9. Quiet(request)' /\ Honest(request)' /\ Fair(request)'
    BY <2>1, <2>6 DEF Quiet, Honest, Fair
  <2>10. TypeOK'
    BY <1>1, <1>2, <2>1, <2>6 DEF TypeOK
  <2> QED BY <2>7, <2>8, <2>9, <2>10 DEF Sound
<1> QED BY <1>3, <1>4, <1>5, <1>6

LEMMA ImportStep ==
  ASSUME AccessInv, NEW l \in Locators, Import(l), UNCHANGED request
  PROVE  AccessInv'
<1> USE DEF AccessInv
<1>1. names' = names /\ inodes' = inodes /\ writes' = writes /\ request' = request
  BY DEF Import, files
<1>2. ledger[l] \in Seq(Generations)
  BY DEF TypeOK
<1>3. \E h \in Seq(Generations) : ledger' = [ledger EXCEPT ![l] = h]
  <2>1. CASE names[l] \in Inodes /\ inodes[names[l]].blocks # <<>>
    <3> DEFINE b == inodes[names[l]].blocks
    <3>1. b \in Seq(Sessions \X Nat) /\ b # <<>>
      BY <2>1 DEF TypeOK, Blocks
    <3>2. ledger' = [ledger EXCEPT ![l] = Append(ledger[l], [session |-> b[1][1], available |-> TRUE, size |-> Len(b)])]
      BY <2>1 DEF Import
    <3> HIDE DEF b
    <3>3. b[1] \in Sessions \X Nat /\ Len(b) \in Nat
      BY <3>1
    <3>4. [session |-> b[1][1], available |-> TRUE, size |-> Len(b)] \in Generations
      BY <3>3 DEF Generations
    <3> DEFINE h == Append(ledger[l], [session |-> b[1][1], available |-> TRUE, size |-> Len(b)])
    <3>5. h \in Seq(Generations)
      BY <1>2, <3>4
    <3>6. ledger' = [ledger EXCEPT ![l] = h]
      BY <3>2
    <3> HIDE DEF h
    <3> QED BY <3>5, <3>6
  <2>2. CASE ~(names[l] \in Inodes /\ inodes[names[l]].blocks # <<>>)
    <3> DEFINE g == ledger[l]  h == [i \in DOMAIN g |-> [g[i] EXCEPT !.available = FALSE]]
    <3>1. ledger' = [ledger EXCEPT ![l] = h]
      BY <2>2 DEF Import
    <3>2. g \in Seq(Generations)
      BY <1>2
    <3> HIDE DEF g
    <3>3. \A i \in DOMAIN g : g[i] \in Generations
      BY <3>2
    <3>4. \A i \in DOMAIN g : [g[i] EXCEPT !.available = FALSE] \in Generations
      BY <3>3 DEF Generations
    <3>5. h \in Seq(Generations)
      BY <3>2, <3>4
    <3> QED BY <3>1, <3>5
  <2> QED BY <2>1, <2>2
<1>4. ledger' \in [Locators -> Seq(Generations)]
  BY <1>3 DEF TypeOK
<1>7. parents' \in [Sessions -> Locators \cup {None}]
  BY DEF Import, TypeOK
<1>5. TypeOK'
  BY <1>1, <1>4, <1>7 DEF TypeOK
<1>6. request' # Idle => Sound(request)'
  <2>1. Sound(request)' <=> Sound(request)
    BY <1>1 DEF Sound, Watched, Faithful, Quiet, Passed, Readable, Skipped, Fresh, Honest, Fair
  <2> QED BY <1>1, <2>1
<1> QED BY <1>5, <1>6 DEF Idle

-----------------------------------------------------------------------------
(* The steps of a request. *)

(* A step of a request is right if the request it makes is. *)
LEMMA StepSuffices ==
  ASSUME AccessInv, UNCHANGED <<ledger, parents, files>>,
         request' \in {Idle} \cup Readings \cup Answers,
         request' # Idle => Len(request'.payload) <= Limit + 1 /\ Sound(request')
  PROVE  AccessInv'
<1>1. ledger' = ledger /\ parents' = parents /\ names' = names /\ inodes' = inodes /\ writes' = writes
  BY DEF files
<1>2. TypeOK'
  BY <1>1 DEF AccessInv, TypeOK
<1>3. request' # Idle => Sound(request)'
  BY <1>1 DEF Sound, Watched, Faithful, Quiet, Passed, Readable, Skipped, Fresh, Honest, Fair
<1> QED BY <1>2, <1>3 DEF AccessInv, Idle

LEMMA AskStep ==
  ASSUME AccessInv, NEW s \in Sessions, Ask(s), UNCHANGED <<ledger, parents, files>>
  PROVE  AccessInv'
<1>1. PICK roots \in SUBSET Locators, q \in Orders(s) :
        request' = [phase |-> "next", session |-> s, roots |-> roots, sources |-> q, todo |-> q, inode |-> None,
                    stat |-> None, payload |-> <<>>, held |-> {}, quiet |-> TRUE]
  BY DEF Ask
<1>2. q \in Seq(Locators)
  BY OrderTypes DEF AccessInv
<1>3. request' \in Readings
  BY <1>1, <1>2 DEF Readings, Blocks
<1>4. Sound(request')
  BY <1>1, <1>2 DEF Sound, Watched, Quiet, Skipped, Fresh, Honest, Fair
<1>5. Len(request'.payload) <= Limit + 1
  BY <1>1, AccessConstants
<1> QED BY <1>3, <1>4, <1>5, StepSuffices

LEMMA FinishStep ==
  ASSUME AccessInv, Finish, UNCHANGED <<ledger, parents, files>>
  PROVE  AccessInv'
BY StepSuffices DEF Finish

(* A source is skipped rightly if it could not be shown. *)
LEMMA SkipStep ==
  ASSUME AccessInv, request \in Readings, request.todo # <<>>, Skip, UNCHANGED <<ledger, parents, files>>,
         request.quiet => Passed(request, request.todo[1])
  PROVE  AccessInv'
<1> DEFINE r == request
<1>1. /\ request' \in Readings /\ request'.phase = "next" /\ request'.session = r.session /\ request'.roots = r.roots
      /\ request'.sources = r.sources /\ request'.todo = Tail(r.todo) /\ request'.payload = <<>> /\ request'.held = {}
      /\ request'.quiet = r.quiet
  <2>1. r.todo \in Seq(Locators) /\ r.todo # <<>>
    BY DEF Readings
  <2>2. Tail(r.todo) \in Seq(Locators) /\ <<>> \in Blocks
    BY <2>1 DEF Blocks
  <2> QED BY <2>2 DEF Skip, Readings
<1>2. r.todo \in Seq(Locators) /\ r.sources \in Seq(Locators)
  BY DEF Readings
<1>3. Len(Tail(r.todo)) = Len(r.todo) - 1 /\ \A n \in 1..Len(r.todo) - 1 : Tail(r.todo)[n] = r.todo[n + 1]
  BY <1>2
<1>4. ASSUME r.quiet PROVE Quiet(request')
  <2>1. /\ Len(r.todo) <= Len(r.sources) /\ (\A n \in 1..Len(r.todo) : r.todo[n] = r.sources[Skipped(r) + n])
        /\ \A n \in 1..Skipped(r) : Passed(r, r.sources[n])
    <3>1. r # Idle /\ r.phase # "answered"
      BY DEF Readings, Idle
    <3> QED BY <1>4, <3>1 DEF AccessInv, Sound, Quiet
  <2>2. Len(r.todo) \in Nat /\ Len(r.todo) > 0 /\ Len(r.sources) \in Nat
    BY <1>2
  <2>3. Skipped(request') = Skipped(r) + 1 /\ Skipped(r) \in Nat
    <3>1. Len(request'.todo) = Len(r.todo) - 1 /\ request'.sources = r.sources
      BY <1>1, <1>3
    <3> QED BY <2>1, <2>2, <3>1 DEF Skipped
  <2>4. r.todo[1] = r.sources[Skipped(r) + 1]
    BY <2>1, <2>2
  <2>5. \A n \in 1..Skipped(request') : Passed(r, r.sources[n])
    BY <1>4, <2>1, <2>3, <2>4
  <2>6. \A n \in 1..Skipped(request') : Passed(request', request'.sources[n])
    BY <1>1, <2>5 DEF Passed, Readable
  <2>7. \A n \in 1..Len(r.todo) - 1 : Tail(r.todo)[n] = r.sources[Skipped(request') + n]
    <3> TAKE n \in 1..Len(r.todo) - 1
    <3>1. n + 1 \in 1..Len(r.todo) /\ n \in Nat
      BY <2>2
    <3>2. r.todo[n + 1] = r.sources[Skipped(r) + (n + 1)]
      BY <2>1, <3>1
    <3>3. Skipped(r) + (n + 1) = Skipped(request') + n
      BY <2>3, <3>1
    <3> QED BY <1>3, <3>2, <3>3
  <2> QED BY <1>1, <1>3, <2>1, <2>2, <2>6, <2>7 DEF Quiet
<1>5. Sound(request')
  BY <1>1, <1>4 DEF Sound, Watched, Quiet, Fresh, Honest, Fair
<1> QED BY <1>1, <1>5, AccessConstants, StepSuffices

LEMMA OpenStep ==
  ASSUME AccessInv, Open, UNCHANGED <<ledger, parents, files>>
  PROVE  AccessInv'
<1> DEFINE r == request  l == Head(r.todo)
<1>1. r \in Readings /\ r.phase = "next" /\ r.todo # <<>> /\ r # Idle
  BY RequestShape DEF Open, AccessInv, TypeOK, Idle
<1>2. r.todo \in Seq(Locators) /\ l = r.todo[1] /\ l \in Locators
  BY <1>1 DEF Readings
<1>3. CASE Openable(l) /\ Len(inodes[names[l]].blocks) <= Limit
  <2> DEFINE i == names[l]
  <2>1. i \in Inodes /\ Readable(r, l)
    BY <1>3 DEF Openable, Readable
  <2>2. request' = [r EXCEPT !.phase = "reading", !.inode = i, !.stat = inodes[i].stamp, !.held = {inodes[i].blocks}]
    BY <1>3 DEF Open
  <2>3. inodes[i].blocks \in Blocks /\ inodes[i].stamp \in Nat /\ Len(inodes[i].blocks) <= Limit
    BY <1>3, <2>1 DEF AccessInv, TypeOK
  <2> HIDE DEF i
  <2>4. /\ request' \in Readings /\ request'.phase = "reading" /\ request'.session = r.session /\ request'.roots = r.roots
        /\ request'.sources = r.sources /\ request'.todo = r.todo /\ request'.inode = i /\ request'.stat = inodes[i].stamp
        /\ request'.payload = r.payload /\ request'.held = {inodes[i].blocks} /\ request'.quiet = r.quiet
    BY <1>1, <2>1, <2>2, <2>3 DEF Readings
  <2>5. r.payload = <<>>
    BY <1>1 DEF AccessInv, Sound, Fresh
  <2>6. Len(inodes[i].blocks) \in Nat /\ Len(r.payload) = 0 /\ inodes[i].stamp <= inodes[i].stamp
    BY <2>3, <2>5 DEF Blocks
  <2>7. Watched(request')
    <3>1. Faithful(request')
      BY <2>3, <2>4, <2>5, <2>6 DEF Faithful
    <3> QED BY <1>1, <2>1, <2>3, <2>4, <2>6, <3>1, AccessConstants DEF Watched
  <2>8. Quiet(request')
    <3> SUFFICES ASSUME r.quiet PROVE Quiet(request')
      BY <2>4 DEF Quiet
    <3>1. /\ Len(r.todo) <= Len(r.sources) /\ (\A n \in 1..Len(r.todo) : r.todo[n] = r.sources[Skipped(r) + n])
          /\ \A n \in 1..Skipped(r) : Passed(r, r.sources[n])
      BY <1>1 DEF AccessInv, Sound, Quiet
    <3>2. Skipped(request') = Skipped(r)
      BY <2>4 DEF Skipped
    <3>3. \A n \in 1..Skipped(r) : Passed(request', request'.sources[n])
      BY <2>4, <3>1 DEF Passed, Readable
    <3>4. Readable(request', request'.todo[1]) /\ i = names[request'.todo[1]]
      BY <1>2, <2>1, <2>4 DEF Readable, i
    <3> QED BY <2>4, <3>1, <3>2, <3>3, <3>4 DEF Quiet
  <2>9. Fresh(request') /\ Honest(request') /\ Fair(request')
    BY <2>4 DEF Fresh, Honest, Fair
  <2> QED BY <2>4, <2>6, <2>7, <2>8, <2>9, AccessConstants, StepSuffices DEF Sound
<1>4. CASE ~(Openable(l) /\ Len(inodes[names[l]].blocks) <= Limit)
  <2>1. Skip
    BY <1>4 DEF Open
  <2>2. Passed(r, l)
    <3> SUFFICES ASSUME Readable(r, l) PROVE Len(inodes[names[l]].blocks) > Limit
      BY DEF Passed
    <3>1. Len(inodes[names[l]].blocks) \in Nat
      BY DEF Readable, AccessInv, TypeOK, Blocks
    <3> QED BY <1>4, <3>1, AccessConstants DEF Openable, Readable
  <2> QED BY <1>1, <1>2, <2>1, <2>2, SkipStep
<1> QED BY <1>3, <1>4

LEMMA GiveUpStep ==
  ASSUME AccessInv, GiveUp, UNCHANGED <<ledger, parents, files>>
  PROVE  AccessInv'
<1> DEFINE r == request
<1>1. r \in Readings /\ r.phase = "next" /\ r.todo = <<>> /\ r # Idle
  BY RequestShape DEF GiveUp, AccessInv, TypeOK, Idle
<1>2. /\ request' \in Answers /\ request'.phase = "answered" /\ request'.how = "unavailable" /\ request'.session = r.session
      /\ request'.roots = r.roots /\ request'.sources = r.sources /\ request'.payload = r.payload /\ request'.quiet = r.quiet
  BY <1>1 DEF GiveUp, Answer, Answers, Readings
<1>3. r.sources \in Seq(Locators)
  BY <1>1 DEF Readings
<1>4. Fair(request')
  <2> SUFFICES ASSUME r.quiet PROVE \A n \in DOMAIN r.sources : Passed(request', r.sources[n])
    BY <1>2 DEF Fair
  <2>1. \A n \in 1..Skipped(r) : Passed(r, r.sources[n])
    BY <1>1 DEF AccessInv, Sound, Quiet
  <2>2. Skipped(r) = Len(r.sources) /\ DOMAIN r.sources = 1..Len(r.sources)
    BY <1>1, <1>3 DEF Skipped
  <2> QED BY <1>2, <2>1, <2>2 DEF Passed, Readable
<1>5. Watched(request') /\ Quiet(request') /\ Fresh(request') /\ Honest(request')
  BY <1>2 DEF Watched, Quiet, Fresh, Honest
<1>6. Len(request'.payload) <= Limit + 1
  BY <1>1, <1>2 DEF AccessInv, TypeOK
<1> QED BY <1>2, <1>4, <1>5, <1>6, StepSuffices DEF Sound

LEMMA ReadStep ==
  ASSUME AccessInv, ReadBlock, UNCHANGED <<ledger, parents, files>>
  PROVE  AccessInv'
<1> DEFINE r == request  now == inodes[r.inode].blocks  got == Len(r.payload)
<1>1. r \in Readings /\ r.phase = "reading" /\ r # Idle
  BY RequestShape DEF ReadBlock, AccessInv, TypeOK, Idle
<1>2. /\ r.inode \in Inodes /\ r.stat \in Nat /\ r.stat <= inodes[r.inode].stamp
      /\ r.todo # <<>> /\ got <= Limit + 1 /\ now \in r.held
      /\ inodes[r.inode].stamp = r.stat => Faithful(r)
  BY <1>1 DEF AccessInv, Sound, Watched
<1>3. now \in Blocks /\ r.payload \in Blocks
  BY <1>1, <1>2 DEF AccessInv, TypeOK, Readings
<1>4. Len(now) \in Nat /\ got \in Nat /\ Limit \in Nat
  BY <1>3, AccessConstants DEF Blocks
<1>5. PICK p \in Blocks, step \in {"reading", "read"} :
        /\ request' = [r EXCEPT !.phase = step, !.payload = p]
        /\ \/ step = "reading" /\ More(got, now) /\ p = Append(r.payload, now[got + 1])
           \/ step = "read" /\ ~More(got, now) /\ p = r.payload
  <2>1. CASE More(got, now)
    <3>1. now[got + 1] \in Sessions \X Nat
      BY <1>3, <1>4, <2>1 DEF More, Blocks
    <3>2. Append(r.payload, now[got + 1]) \in Blocks
      BY <1>3, <3>1 DEF Blocks
    <3>3. request' = [r EXCEPT !.payload = Append(r.payload, now[got + 1])]
      BY <2>1 DEF ReadBlock
    <3>4. request' = [r EXCEPT !.phase = "reading", !.payload = Append(r.payload, now[got + 1])]
      BY <1>1, <3>3 DEF Readings
    <3> QED BY <2>1, <3>2, <3>4
  <2>2. CASE ~More(got, now)
    <3>1. request' = [r EXCEPT !.phase = "read"]
      BY <2>2 DEF ReadBlock
    <3>2. request' = [r EXCEPT !.phase = "read", !.payload = r.payload]
      BY <1>1, <3>1 DEF Readings
    <3> QED BY <1>3, <2>2, <3>2
  <2> QED BY <2>1, <2>2
<1>6. /\ request' \in Readings /\ request'.phase = step /\ request'.session = r.session /\ request'.roots = r.roots
      /\ request'.sources = r.sources /\ request'.todo = r.todo /\ request'.inode = r.inode /\ request'.stat = r.stat
      /\ request'.payload = p /\ request'.held = r.held /\ request'.quiet = r.quiet
  BY <1>1, <1>5 DEF Readings
<1>7. Len(p) <= Limit + 1
  <2>1. More(got, now) => got <= Limit
    BY DEF More
  <2>2. p = Append(r.payload, now[got + 1]) => Len(p) = got + 1
    BY <1>3 DEF Blocks
  <2> QED BY <1>2, <1>4, <1>5, <2>1, <2>2
<1>8. Faithful(r) => Faithful(request')
  <2> SUFFICES ASSUME Faithful(r) PROVE Faithful(request')
    OBVIOUS
  <2>1. r.held = {now} /\ Len(now) <= Limit /\ got <= Len(now) /\ (\A n \in 1..got : r.payload[n] = now[n])
    BY DEF Faithful
  <2>2. CASE step = "reading"
    <3>1. p = Append(r.payload, now[got + 1]) /\ got < Len(now)
      BY <1>5, <2>2 DEF More
    <3>2. Len(p) = got + 1 /\ p[got + 1] = now[got + 1] /\ \A n \in 1..got : p[n] = r.payload[n]
      BY <1>3, <3>1 DEF Blocks
    <3>3. \A n \in 1..Len(p) : p[n] = now[n]
      BY <1>4, <2>1, <3>2
    <3> QED BY <1>4, <1>6, <2>1, <2>2, <3>1, <3>2, <3>3 DEF Faithful
  <2>3. CASE step = "read"
    <3>1. p = r.payload /\ ~More(got, now)
      BY <1>5, <2>3
    <3>2. got = Len(now)
      BY <1>4, <2>1, <3>1 DEF More
    <3> QED BY <1>6, <2>1, <3>1, <3>2 DEF Faithful
  <2> QED BY <2>2, <2>3
<1>9. Watched(request')
  BY <1>2, <1>6, <1>7, <1>8 DEF Watched
<1>10. Quiet(request')
  <2> SUFFICES ASSUME r.quiet PROVE Quiet(request')
    BY <1>6 DEF Quiet
  <2>1. /\ Len(r.todo) <= Len(r.sources) /\ (\A n \in 1..Len(r.todo) : r.todo[n] = r.sources[Skipped(r) + n])
        /\ (\A n \in 1..Skipped(r) : Passed(r, r.sources[n]))
        /\ Readable(r, r.todo[1]) /\ r.inode = names[r.todo[1]] /\ r.stat = inodes[r.inode].stamp
    BY <1>1 DEF AccessInv, Sound, Quiet
  <2>2. Skipped(request') = Skipped(r)
    BY <1>6 DEF Skipped
  <2> QED BY <1>6, <2>1, <2>2 DEF Quiet, Passed, Readable
<1>11. Fresh(request') /\ Honest(request') /\ Fair(request')
  BY <1>5, <1>6 DEF Fresh, Honest, Fair
<1> QED BY <1>6, <1>7, <1>9, <1>10, <1>11, StepSuffices DEF Sound

LEMMA CheckStep ==
  ASSUME AccessInv, Check, UNCHANGED <<ledger, parents, files>>
  PROVE  AccessInv'
<1> DEFINE r == request  now == inodes[r.inode].blocks
<1>1. r \in Readings /\ r.phase = "read" /\ r # Idle
  BY RequestShape DEF Check, AccessInv, TypeOK, Idle
<1>2. r.inode \in Inodes /\ r.todo # <<>> /\ Len(r.payload) <= Limit + 1 /\ (Unchanged => Faithful(r))
  BY <1>1 DEF AccessInv, Sound, Watched, Unchanged
<1>3. now \in Blocks /\ r.payload \in Blocks /\ r.todo \in Seq(Locators) /\ r.sources \in Seq(Locators)
  BY <1>1, <1>2 DEF AccessInv, TypeOK, Readings
<1>4. ASSUME r.quiet
      PROVE  /\ Len(r.todo) <= Len(r.sources) /\ (\A n \in 1..Len(r.todo) : r.todo[n] = r.sources[Skipped(r) + n])
             /\ (\A n \in 1..Skipped(r) : Passed(r, r.sources[n]))
             /\ Readable(r, r.todo[1]) /\ r.inode = names[r.todo[1]] /\ Unchanged
  BY <1>1, <1>4 DEF AccessInv, Sound, Quiet, Unchanged
<1>5. ASSUME Unchanged PROVE r.payload = now /\ Len(now) <= Limit /\ r.held = {now}
  <2>1. /\ r.held = {now} /\ Len(now) <= Limit /\ Len(r.payload) = Len(now)
        /\ \A n \in 1..Len(r.payload) : r.payload[n] = now[n]
    BY <1>1, <1>2, <1>5 DEF Faithful
  <2> DEFINE p == r.payload
  <2>2. p \in Seq(Sessions \X Nat) /\ now \in Seq(Sessions \X Nat)
    BY <1>3 DEF Blocks
  <2> HIDE DEF p, now
  <2>3. Len(p) = Len(now) /\ \A n \in 1..Len(p) : p[n] = now[n]
    BY <2>1 DEF p
  <2>4. p = now
    BY <2>2, <2>3
  <2> QED BY <2>1, <2>4 DEF p, now
<1>6. ASSUME NEW how \in {"shown", "refused"}, request' = Answer(how)
      PROVE  /\ request' \in Answers /\ request'.phase = "answered" /\ request'.how = how /\ request'.session = r.session
             /\ request'.roots = r.roots /\ request'.sources = r.sources /\ request'.payload = r.payload
             /\ request'.held = r.held /\ request'.quiet = r.quiet
             /\ Watched(request') /\ Quiet(request') /\ Fresh(request')
  <2>1. /\ request' \in Answers /\ request'.phase = "answered" /\ request'.how = how /\ request'.session = r.session
        /\ request'.roots = r.roots /\ request'.sources = r.sources /\ request'.payload = r.payload
        /\ request'.held = r.held /\ request'.quiet = r.quiet
    BY <1>1, <1>6 DEF Answer, Answers, Readings
  <2> QED BY <2>1 DEF Watched, Quiet, Fresh
<1>7. CASE ~Unchanged
  <2>1. Skip
    BY <1>7 DEF Check
  <2> QED BY <1>1, <1>2, <1>4, <1>7, <2>1, SkipStep
<1>8. CASE Unchanged /\ OfSession(r.payload)
  <2>1. request' = Answer("shown")
    BY <1>8 DEF Check
  <2>2. Honest(request')
    BY <1>5, <1>6, <1>8, <2>1 DEF Honest, OfSession
  <2>3. Fair(request')
    BY <1>6, <2>1 DEF Fair
  <2> QED BY <1>2, <1>6, <2>1, <2>2, <2>3, StepSuffices DEF Sound
<1>9. ASSUME Unchanged, ~OfSession(r.payload), r.quiet
      PROVE  Passed(r, r.todo[1]) /\ Readable(r, r.todo[1]) /\ inodes[names[r.todo[1]]].blocks = r.payload
  BY <1>4, <1>5, <1>9 DEF Passed, OfSession
<1>10. CASE Unchanged /\ ~OfSession(r.payload) /\ Refused(r.payload)
  <2>1. request' = Answer("refused")
    BY <1>10 DEF Check
  <2>2. Honest(request')
    BY <1>6, <2>1 DEF Honest
  <2>3. Fair(request')
    <3> SUFFICES ASSUME r.quiet, NEW n \in DOMAIN r.sources
                 PROVE  \/ Passed(r, r.sources[n])
                        \/ \E m \in 1..(n - 1) : LET k == r.sources[m] IN
                             Readable(r, k) /\ (inodes[names[k]].blocks = <<>> \/ Harness[r.session] \notin {"pi", "codex"})
      BY <1>6, <2>1 DEF Fair, Passed, Readable
    <3> DEFINE m == Skipped(r) + 1
    <3>1. m \in Nat /\ m >= 1 /\ n \in Nat /\ n >= 1 /\ Skipped(r) \in Nat
      BY <1>3, <1>4 DEF Skipped
    <3>2. r.sources[m] = r.todo[1]
      BY <1>2, <1>3, <1>4
    <3>3. n < m => Passed(r, r.sources[n])
      <4>1. n < m => n \in 1..Skipped(r)
        BY <3>1
      <4> QED BY <1>4, <4>1
    <3>4. n = m => Passed(r, r.sources[n])
      BY <1>9, <1>10, <3>2
    <3>5. Readable(r, r.sources[m]) /\ (inodes[names[r.sources[m]]].blocks = <<>> \/ Harness[r.session] \notin {"pi", "codex"})
      BY <1>9, <1>10, <3>2 DEF Refused
    <3>6. n > m => m \in 1..(n - 1)
      BY <3>1
    <3> HIDE DEF m
    <3>7. n < m \/ n = m \/ n > m
      BY <3>1
    <3> QED BY <3>3, <3>4, <3>5, <3>6, <3>7
  <2> QED BY <1>2, <1>6, <2>1, <2>2, <2>3, StepSuffices DEF Sound
<1>11. CASE Unchanged /\ ~OfSession(r.payload) /\ ~Refused(r.payload)
  <2>1. Skip
    BY <1>11 DEF Check
  <2> QED BY <1>1, <1>2, <1>9, <1>11, <2>1, SkipStep
<1> QED BY <1>7, <1>8, <1>10, <1>11

-----------------------------------------------------------------------------
LEMMA AccessStep == AccessInv /\ [Next]_vars => AccessInv'
<1> SUFFICES ASSUME AccessInv, [Next]_vars PROVE AccessInv'
  OBVIOUS
<1>1. CASE World /\ Follow
  BY <1>1, WorldStep
<1>2. CASE (\E l \in Locators : Import(l)) /\ UNCHANGED request
  BY <1>2, ImportStep
<1>3. CASE Step /\ UNCHANGED <<ledger, parents, files>>
  BY <1>3, AskStep, OpenStep, ReadStep, CheckStep, GiveUpStep, FinishStep DEF Step
<1>4. CASE UNCHANGED vars
  BY <1>4 DEF vars, AccessInv, TypeOK, Sound, Watched, Faithful, Quiet, Passed, Readable, Skipped, Fresh, Honest, Fair
<1> QED BY <1>1, <1>2, <1>3, <1>4 DEF Next

LEMMA AccessInit == Init => AccessInv
BY InitTypes DEF Init, AccessInv

(* Every reachable state of the ledger, the files and the request is well typed,
   no file is stamped with a time to come, and no more than a block over the
   limit is ever read: of read_transcript_page and source_snapshot. *)
THEOREM AccessTypes == Spec => []TypeOK
<1>1. AccessInv => TypeOK
  BY DEF AccessInv
<1> QED BY <1>1, AccessInit, AccessStep, PTL DEF Spec

(* What read_transcript_page shows is one state of one file of the session that
   was asked for, however the file is written, replaced, moved or imported again
   meanwhile; and a session whose file can be shown is not refused when nothing
   changes. *)
THEOREM WholeFilesShown == Spec => []ShownWhole
<1>1. AccessInv => ShownWhole
  <2> SUFFICES ASSUME AccessInv, request.phase = "answered" PROVE ShownWhole
    BY DEF ShownWhole, ShownAtOnce, ShownOwn, NotHidden, Shown
  <2>1. request # Idle
    BY DEF Idle
  <2>2. Honest(request) /\ Fair(request)
    BY <2>1 DEF AccessInv, Sound
  <2>3. ShownAtOnce /\ ShownOwn
    BY <2>2 DEF ShownAtOnce, ShownOwn, Shown, Honest
  <2>4. NotHidden
    BY <2>2 DEF NotHidden, Shown, Fair, Passed, Readable
  <2> QED BY <2>3, <2>4 DEF ShownWhole
<1> QED BY <1>1, AccessInit, AccessStep, PTL DEF Spec
=============================================================================
