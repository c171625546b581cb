-------------------------- MODULE WebServerProofs --------------------------
(***************************************************************************)
(* The web server for every number of blocks, clients and rows.            *)
(***************************************************************************)
EXTENDS WebServer, SequenceTheorems, FiniteSetTheorems, WellFoundedInduction, TLAPS

\* What these invariants need of the types.
Shape ==
    /\ link \in [Clients -> {"none", "open", "closing"}]
    /\ slot \in [Clients -> Slots \cup {NoSlot}] /\ free \subseteq Slots
    /\ input \in [Slots -> {"method", "path", "lines"}]
    /\ output \in [Slots -> [part : Parts, list : Lists]]
    /\ heard \in [Clients -> {"method", "path", "lines", "refused"}]
    /\ cut \in BOOLEAN

IInv == Shape /\ PoolExact /\ OwnRequest /\ BufferEmptyBetweenPages

\* NoSlot is no block, and a page has at least one list.
LEMMA Constants == NoSlot \notin Slots /\ 1 \in Lists
  BY WebAssumption DEF NoSlot, Slots, Lists

LEMMA ParsedType ==
    ASSUME NEW awaited \in {"method", "path", "lines", "refused"}, NEW segment \in Segments
    PROVE  Parsed(awaited, segment) \in {"method", "path", "lines", "refused"}
<1>1. \A a \in {"method", "path", "lines", "refused"} : \A w :
          Read(a, w) \in {"method", "path", "lines", "refused"}
  BY DEF Read
<1> QED
  BY <1>1 DEF Parsed

\* A request that is complete stays so.
LEMMA ParsedLines ==
    ASSUME NEW segment
    PROVE  Parsed("lines", segment) = "lines"
  BY DEF Parsed, Read

\* A page goes on to another part of it.
LEMMA FollowingType ==
    ASSUME NEW at \in [part : Parts, list : Lists], NEW i
    PROVE  /\ Following(at, i) \in [part : Parts, list : Lists]
           /\ Following(at, i).part # "waiting"
<1>1. at.list \in Lists /\ Len(Rows) \in Nat
  BY WebAssumption
<1>2. at.list < Len(Rows) => at.list + 1 \in Lists
  BY <1>1 DEF Lists
<1> QED
  BY <1>1, <1>2, Constants DEF Following, At, Parts

LEMMA AllocFree ==
    ASSUME free # {}
    PROVE  memb_alloc \in free
  BY DEF memb_alloc

LEMMA InitIInv == Init => IInv
<1> SUFFICES ASSUME Init PROVE IInv
  OBVIOUS
<1>1. Shape
  BY Constants DEF Init, Fresh, Shape, Waiting, At, Parts
<1>2. PoolExact
  BY DEF Init, Fresh, PoolExact, Busy
<1>3. OwnRequest
  BY DEF Init, Fresh, OwnRequest
<1>4. BufferEmptyBetweenPages
  BY DEF Init, Fresh, BufferEmptyBetweenPages
<1> QED
  BY <1>1, <1>2, <1>3, <1>4 DEF IInv

\* What handle_connection does, for a block that is owed the word awaited.
Outcome(c, s, awaited, at, segment) ==
    /\ input' = [input EXCEPT ![s] = IF Parsed(awaited, segment) = "refused"
                                     THEN "method" ELSE Parsed(awaited, segment)]
    /\ link' = [link EXCEPT ![c] = IF Parsed(awaited, segment) = "refused"
                                   THEN "closing" ELSE "open"]
    /\ \E new \in [part : Parts, list : Lists] :
          /\ output' = [output EXCEPT ![s] = new]
          /\ new # Waiting <=> Parsed(awaited, segment) = "lines"
          /\ at # Waiting => new = at
          /\ at = Waiting => ~Buffered(new)
    /\ buf' = buf

LEMMA Handled ==
    ASSUME NEW c \in Clients, NEW s \in Slots, NEW segment \in Segments,
           NEW awaited \in {"method", "path", "lines"},
           NEW at \in [part : Parts, list : Lists],
           at # Waiting <=> awaited = "lines",
           handle_connection(c, s, awaited, at, segment)
    PROVE  Outcome(c, s, awaited, at, segment)
<1>1. At("status", 1) \in [part : Parts, list : Lists] /\ At("status", 1) # Waiting
  BY Constants DEF At, Parts, Waiting
<1>2. ~Buffered(Waiting) /\ ~Buffered(At("status", 1))
  BY DEF Buffered, Waiting, At
<1>3. CASE Parsed(awaited, segment) = "lines" /\ at = Waiting
  <2>1. output' = [output EXCEPT ![s] = At("status", 1)]
    BY <1>3 DEF handle_connection, Begin
  <2> QED
    BY <1>1, <1>2, <1>3, <2>1 DEF handle_connection, Outcome
<1>4. CASE ~(Parsed(awaited, segment) = "lines" /\ at = Waiting)
  <2>1. output' = [output EXCEPT ![s] = at]
    BY <1>4 DEF handle_connection
  <2>2. at # Waiting => Parsed(awaited, segment) = "lines"
    BY ParsedLines
  <2> QED
    BY <1>2, <1>4, <2>1, <2>2 DEF handle_connection, Outcome
<1> QED
  BY <1>3, <1>4

\* The page that goes on, and the buffer with it.
LEMMA WrittenOn ==
    ASSUME Shape, NEW s \in Slots, WriteOn(s)
    PROVE  \E new \in [part : Parts, list : Lists] :
              /\ output' = [output EXCEPT ![s] = new]
              /\ new.part # "waiting"
              /\ buf' # <<>> => Buffered(new) \/ (buf # <<>> /\ ~Buffered(output[s]))
<1> DEFINE at   == output[s]
           i    == IF at.part \in {"open", "row"} THEN MovedOn(at) ELSE iterator[at.list]
           next == Following(at, i)
<1>1. at \in [part : Parts, list : Lists]
  BY DEF Shape
<1>2. next \in [part : Parts, list : Lists] /\ next.part # "waiting"
  BY <1>1, FollowingType
<1>3. output' = [output EXCEPT ![s] = next]
  BY DEF WriteOn
<1>4. ~Buffered(next) => buf' = Reclaimed(at)
  BY DEF WriteOn
<1>5. Reclaimed(at) # <<>> => buf # <<>> /\ ~Buffered(at)
  BY DEF Reclaimed
<1> HIDE DEF next, i
<1> QED
  BY <1>2, <1>3, <1>4, <1>5

LEMMA StepShape == IInv /\ [Next]_wvars => Shape'
<1> SUFFICES ASSUME IInv, [Next]_wvars PROVE Shape'
  OBVIOUS
<1> USE DEF Shape
<1>1. ASSUME NEW c \in Clients, NEW segment \in Segments, Connected(c, segment) PROVE Shape'
  <2> DEFINE s == memb_alloc
  <2>1. s \in free /\ s \in Slots
    BY <1>1, AllocFree DEF IInv, Connected
  <2>2. Parsed("method", segment) \in {"method", "path", "lines", "refused"}
    BY ParsedType
  <2>3. Waiting \in [part : Parts, list : Lists]
    BY Constants DEF Waiting, At, Parts
  <2>4. handle_connection(c, s, "method", Waiting, segment)
    BY <1>1 DEF Connected
  <2>5. Outcome(c, s, "method", Waiting, segment)
    BY <2>1, <2>3, <2>4, Handled
  <2>6. /\ input' \in [Slots -> {"method", "path", "lines"}]
        /\ link' \in [Clients -> {"none", "open", "closing"}]
        /\ output' \in [Slots -> [part : Parts, list : Lists]]
    BY <2>1, <2>2, <2>5 DEF IInv, Outcome
  <2>7. slot' = [slot EXCEPT ![c] = s] /\ free' = free \ {s}
    BY <1>1 DEF Connected
  <2>8. heard' = [heard EXCEPT ![c] = Parsed("method", segment)] /\ cut' = cut
    BY <1>1 DEF Connected
  <2> HIDE DEF s
  <2> QED
    BY <2>1, <2>2, <2>6, <2>7, <2>8 DEF IInv
<1>2. ASSUME NEW c \in Clients, NEW segment \in Segments, NewData(c, segment) PROVE Shape'
  <2> DEFINE s == slot[c]
  <2>1. s \in Slots /\ link[c] = "open"
    BY <1>2 DEF IInv, NewData, PoolExact, Busy
  <2>2. input[s] = heard[c] /\ (output[s] # Waiting <=> heard[c] = "lines")
    BY <2>1 DEF IInv, OwnRequest
  <2>3. input[s] \in {"method", "path", "lines"} /\ output[s] \in [part : Parts, list : Lists]
    BY <2>1 DEF IInv
  <2>4. handle_connection(c, s, input[s], output[s], segment)
    BY <1>2 DEF NewData
  <2>5. Parsed(heard[c], segment) \in {"method", "path", "lines", "refused"}
    BY ParsedType DEF IInv
  <2>6. Outcome(c, s, input[s], output[s], segment)
    BY <2>1, <2>2, <2>3, <2>4, Handled
  <2>7. /\ input' \in [Slots -> {"method", "path", "lines"}]
        /\ link' \in [Clients -> {"none", "open", "closing"}]
        /\ output' \in [Slots -> [part : Parts, list : Lists]]
    BY <2>1, <2>2, <2>5, <2>6 DEF IInv, Outcome
  <2> QED
    BY <1>2, <2>5, <2>7 DEF IInv, NewData, pool
<1>3. ASSUME NEW c \in Clients, Acked(c) PROVE Shape'
  <2>1. slot[c] \in Slots
    BY <1>3 DEF IInv, Acked, PoolExact, Busy
  <2>2. output' \in [Slots -> [part : Parts, list : Lists]]
    BY <1>3, <2>1, WrittenOn DEF IInv, Acked
  <2>3. link' \in [Clients -> {"none", "open", "closing"}]
    BY <1>3 DEF IInv, Acked
  <2> QED
    BY <1>3, <2>2, <2>3 DEF IInv, Acked, pool
<1>4. ASSUME NEW c \in Clients, Release(c), link[c] # "none" PROVE Shape'
  <2>1. slot[c] \in Slots
    BY <1>4 DEF IInv, PoolExact, Busy
  <2> QED
    BY <1>4, <2>1 DEF IInv, Release, state
<1>5. CASE Reboot
  BY <1>5, Constants DEF IInv, Reboot, Waiting, At, Parts
<1>6. CASE Tick
  BY <1>6 DEF IInv, Tick, pool, history
<1>7. ASSUME NEW c \in Clients, Refused(c) \/ Rexmit(c) PROVE Shape'
  BY <1>7 DEF IInv, Refused, Rexmit, pool, state, history
<1>8. CASE UNCHANGED wvars
  BY <1>8 DEF IInv, wvars, pool, state, history
<1> QED
  BY <1>1, <1>2, <1>3, <1>4, <1>5, <1>6, <1>7, <1>8 DEF Next, Poll, Finished, TimedOut, Left

\* The block, and what Connected and NewData make of it.
LEMMA ConnectedOutcome ==
    ASSUME IInv, NEW c \in Clients, NEW segment \in Segments, Connected(c, segment)
    PROVE  /\ memb_alloc \in free /\ memb_alloc \in Slots /\ link[c] = "none"
           /\ slot' = [slot EXCEPT ![c] = memb_alloc] /\ free' = free \ {memb_alloc}
           /\ heard' = [heard EXCEPT ![c] = Parsed("method", segment)] /\ cut' = cut
           /\ Outcome(c, memb_alloc, "method", Waiting, segment)
<1>1. memb_alloc \in free /\ memb_alloc \in Slots
  BY AllocFree DEF IInv, Shape, Connected
<1>2. Waiting \in [part : Parts, list : Lists]
  BY Constants DEF Waiting, At, Parts
<1>3. handle_connection(c, memb_alloc, "method", Waiting, segment)
  BY DEF Connected
<1>4. Outcome(c, memb_alloc, "method", Waiting, segment)
  BY <1>1, <1>2, <1>3, Handled
<1> QED
  BY <1>1, <1>4 DEF Connected

LEMMA NewDataOutcome ==
    ASSUME IInv, NEW c \in Clients, NEW segment \in Segments, NewData(c, segment)
    PROVE  /\ slot[c] \in Slots /\ slot[c] \notin free /\ link[c] = "open"
           /\ slot' = slot /\ free' = free /\ cut' = cut
           /\ heard' = [heard EXCEPT ![c] = Parsed(heard[c], segment)]
           /\ Outcome(c, slot[c], heard[c], output[slot[c]], segment)
<1>1. slot[c] \in Slots /\ slot[c] \notin free /\ link[c] = "open"
  BY DEF IInv, Shape, NewData, PoolExact, Busy
<1>2. input[slot[c]] = heard[c] /\ (output[slot[c]] # Waiting <=> heard[c] = "lines")
  BY <1>1 DEF IInv, OwnRequest
<1>3. input[slot[c]] \in {"method", "path", "lines"} /\ output[slot[c]] \in [part : Parts, list : Lists]
  BY <1>1 DEF IInv, Shape
<1>4. handle_connection(c, slot[c], input[slot[c]], output[slot[c]], segment)
  BY DEF NewData
<1>5. Outcome(c, slot[c], heard[c], output[slot[c]], segment)
  BY <1>1, <1>2, <1>3, <1>4, Handled
<1> QED
  BY <1>1, <1>5 DEF NewData, pool

LEMMA StepPoolExact == IInv /\ [Next]_wvars => PoolExact'
<1> SUFFICES ASSUME IInv, [Next]_wvars PROVE PoolExact'
  OBVIOUS
<1> USE Constants DEF IInv, Shape, PoolExact, Busy
<1>1. ASSUME NEW c \in Clients, NEW segment \in Segments, Connected(c, segment) PROVE PoolExact'
  <2>1. /\ memb_alloc \in free /\ memb_alloc \in Slots /\ link[c] = "none"
        /\ slot' = [slot EXCEPT ![c] = memb_alloc] /\ free' = free \ {memb_alloc}
    BY <1>1, ConnectedOutcome
  <2>2. link' = [link EXCEPT ![c] = link'[c]] /\ link'[c] # "none"
    BY <1>1, ConnectedOutcome DEF Outcome
  <2>3. \A d \in Clients \ {c} : link'[d] = link[d] /\ slot'[d] = slot[d]
    BY <2>1, <2>2
  <2>4. \A d \in Clients : d # c /\ link[d] # "none" => slot[d] # memb_alloc
    BY <2>1
  <2> QED
    BY <2>1, <2>2, <2>3, <2>4
<1>2. ASSUME NEW c \in Clients, NEW segment \in Segments, NewData(c, segment) PROVE PoolExact'
  <2>1. link[c] = "open" /\ slot' = slot /\ free' = free
    BY <1>2, NewDataOutcome
  <2>2. link' = [link EXCEPT ![c] = link'[c]] /\ link'[c] # "none"
    BY <1>2, NewDataOutcome DEF Outcome
  <2>3. \A d \in Clients : link'[d] # "none" <=> link[d] # "none"
    BY <2>1, <2>2
  <2> QED
    BY <2>1, <2>3
<1>3. ASSUME NEW c \in Clients, Acked(c) PROVE PoolExact'
  <2>1. \A d \in Clients : link'[d] # "none" <=> link[d] # "none"
    BY <1>3 DEF Acked
  <2> QED
    BY <1>3, <2>1 DEF Acked, pool
<1>4. ASSUME NEW c \in Clients, Release(c), link[c] # "none" PROVE PoolExact'
  <2>1. slot[c] \in Slots /\ slot[c] \notin free
    BY <1>4
  <2>2. \A d \in Clients \ {c} : link'[d] = link[d] /\ slot'[d] = slot[d]
    BY <1>4 DEF Release
  <2>3. link'[c] = "none" /\ slot'[c] = NoSlot /\ free' = free \cup {slot[c]}
    BY <1>4 DEF Release
  <2>4. \A d \in Clients \ {c} : link[d] # "none" => slot[d] # slot[c]
    BY <1>4
  <2>5. \A d \in Clients : slot'[d] # NoSlot <=> link'[d] # "none"
    BY <2>2, <2>3
  <2>6. {slot'[d] : d \in {e \in Clients : link'[e] # "none"}}
            = {slot[d] : d \in {e \in Clients : link[e] # "none"}} \ {slot[c]}
    BY <1>4, <2>2, <2>3, <2>4
  <2>7. free' = Slots \ {slot'[d] : d \in {e \in Clients : link'[e] # "none"}}
    BY <2>1, <2>3, <2>6
  <2>8. \A d, e \in Clients : link'[d] # "none" /\ link'[e] # "none" /\ slot'[d] = slot'[e] => d = e
    BY <2>2, <2>3
  <2> QED
    BY <2>5, <2>7, <2>8
<1>5. CASE Reboot
  BY <1>5 DEF Reboot
<1>6. CASE Tick
  BY <1>6 DEF Tick, pool
<1>7. ASSUME NEW c \in Clients, Refused(c) \/ Rexmit(c) PROVE PoolExact'
  BY <1>7 DEF Refused, Rexmit, pool
<1>8. CASE UNCHANGED wvars
  BY <1>8 DEF wvars, pool
<1> QED
  BY <1>1, <1>2, <1>3, <1>4, <1>5, <1>6, <1>7, <1>8 DEF Next, Poll, Finished, TimedOut, Left

LEMMA StepOwnRequest == IInv /\ [Next]_wvars => OwnRequest'
<1> SUFFICES ASSUME IInv, [Next]_wvars PROVE OwnRequest'
  OBVIOUS
<1>0. /\ Shape /\ PoolExact /\ OwnRequest
      /\ \A c \in Clients : link[c] # "none" => slot[c] \in Slots /\ slot[c] \notin free
      /\ \A c, d \in Clients : link[c] # "none" /\ link[d] # "none" /\ slot[c] = slot[d] => c = d
  BY DEF IInv, Shape, PoolExact, Busy
<1>1. ASSUME NEW c \in Clients, NEW segment \in Segments, Connected(c, segment) PROVE OwnRequest'
  <2> DEFINE s == memb_alloc
  <2>1. /\ s \in free /\ s \in Slots /\ slot' = [slot EXCEPT ![c] = s]
        /\ heard' = [heard EXCEPT ![c] = Parsed("method", segment)]
        /\ Outcome(c, s, "method", Waiting, segment)
    BY <1>1, ConnectedOutcome
  <2>2. PICK new \in [part : Parts, list : Lists] :
            output' = [output EXCEPT ![s] = new]
            /\ (new # Waiting <=> Parsed("method", segment) = "lines")
    BY <2>1 DEF Outcome
  <2> HIDE DEF s
  <2>3. ASSUME NEW d \in Clients, d # c, link'[d] = "open"
        PROVE  input'[slot'[d]] = heard'[d] /\ (output'[slot'[d]] # Waiting <=> heard'[d] = "lines")
    <3>1. link[d] = "open" /\ slot'[d] = slot[d] /\ heard'[d] = heard[d]
      BY <1>0, <2>1, <2>3 DEF Outcome, Shape
    <3>2. slot[d] \in Slots /\ slot[d] # s
      BY <1>0, <2>1, <3>1
    <3>3. input'[slot[d]] = input[slot[d]] /\ output'[slot[d]] = output[slot[d]]
      BY <1>0, <2>1, <2>2, <3>2 DEF Outcome, Shape
    <3> QED
      BY <1>0, <3>1, <3>3 DEF OwnRequest
  <2>4. ASSUME link'[c] = "open"
        PROVE  input'[slot'[c]] = heard'[c] /\ (output'[slot'[c]] # Waiting <=> heard'[c] = "lines")
    <3>1. slot'[c] = s /\ heard'[c] = Parsed("method", segment) /\ heard'[c] # "refused"
      BY <1>0, <2>1, <2>4 DEF Outcome, Shape
    <3>2. input'[s] = heard'[c] /\ output'[s] = new
      BY <1>0, <2>1, <2>2, <3>1 DEF Outcome, Shape
    <3> QED
      BY <2>2, <3>1, <3>2
  <2> QED
    BY <2>3, <2>4 DEF OwnRequest
<1>2. ASSUME NEW c \in Clients, NEW segment \in Segments, NewData(c, segment) PROVE OwnRequest'
  <2> DEFINE s == slot[c]
  <2>1. /\ s \in Slots /\ link[c] = "open" /\ slot' = slot
        /\ heard' = [heard EXCEPT ![c] = Parsed(heard[c], segment)]
        /\ Outcome(c, s, heard[c], output[s], segment)
    BY <1>2, NewDataOutcome
  <2>2. PICK new \in [part : Parts, list : Lists] :
            output' = [output EXCEPT ![s] = new]
            /\ (new # Waiting <=> Parsed(heard[c], segment) = "lines")
    BY <2>1 DEF Outcome
  <2>3. \A d \in Clients : d # c /\ link[d] # "none" => slot[d] # s
    BY <1>0, <2>1
  <2> HIDE DEF s
  <2>4. ASSUME NEW d \in Clients, d # c, link'[d] = "open"
        PROVE  input'[slot'[d]] = heard'[d] /\ (output'[slot'[d]] # Waiting <=> heard'[d] = "lines")
    <3>1. link[d] = "open" /\ slot'[d] = slot[d] /\ heard'[d] = heard[d]
      BY <1>0, <2>1, <2>4 DEF Outcome, Shape
    <3>2. slot[d] \in Slots /\ slot[d] # s
      BY <1>0, <2>3, <2>4, <3>1
    <3>3. input'[slot[d]] = input[slot[d]] /\ output'[slot[d]] = output[slot[d]]
      BY <1>0, <2>1, <2>2, <3>2 DEF Outcome, Shape
    <3> QED
      BY <1>0, <3>1, <3>3 DEF OwnRequest
  <2>5. ASSUME link'[c] = "open"
        PROVE  input'[slot'[c]] = heard'[c] /\ (output'[slot'[c]] # Waiting <=> heard'[c] = "lines")
    <3>1. slot'[c] = s /\ heard'[c] = Parsed(heard[c], segment) /\ heard'[c] # "refused"
      BY <1>0, <2>1, <2>5 DEF Outcome, Shape, s
    <3>2. input'[s] = heard'[c] /\ output'[s] = new
      BY <1>0, <2>1, <2>2, <3>1 DEF Outcome, Shape
    <3> QED
      BY <2>2, <3>1, <3>2
  <2> QED
    BY <2>4, <2>5 DEF OwnRequest
<1>3. ASSUME NEW c \in Clients, Acked(c) PROVE OwnRequest'
  <2>1. PICK new \in [part : Parts, list : Lists] :
            output' = [output EXCEPT ![slot[c]] = new] /\ new.part # "waiting"
    BY <1>0, <1>3, WrittenOn DEF Acked
  <2>2. link[c] = "open" /\ output[slot[c]].part # "waiting" /\ slot[c] \in Slots
    BY <1>0, <1>3 DEF Acked, Writing
  <2>3. output[slot[c]] # Waiting /\ new # Waiting
    BY <2>1, <2>2 DEF Waiting, At
  <2>4. \A d \in Clients : link'[d] = "open" => link[d] = "open"
    BY <1>0, <1>3, <2>2 DEF Acked, Shape
  <2>5. slot' = slot /\ heard' = heard /\ input' = input
    BY <1>3 DEF Acked, pool
  <2>6. \A d \in Clients : link[d] = "open" => (output'[slot[d]] # Waiting <=> output[slot[d]] # Waiting)
    BY <1>0, <2>1, <2>2, <2>3 DEF Shape
  <2> QED
    BY <1>0, <2>4, <2>5, <2>6 DEF OwnRequest
<1>4. ASSUME NEW c \in Clients, Release(c), link[c] # "none" PROVE OwnRequest'
  <2>1. \A d \in Clients : link'[d] = "open" =>
            d # c /\ link[d] = "open" /\ slot'[d] = slot[d] /\ heard'[d] = heard[d]
    BY <1>0, <1>4 DEF Release, Shape
  <2> QED
    BY <1>0, <1>4, <2>1 DEF Release, state, OwnRequest
<1>5. CASE Reboot
  BY <1>5 DEF Reboot, OwnRequest
<1>6. CASE Tick
  BY <1>0, <1>6 DEF Tick, pool, history, OwnRequest
<1>7. ASSUME NEW c \in Clients, Refused(c) \/ Rexmit(c) PROVE OwnRequest'
  BY <1>0, <1>7 DEF Refused, Rexmit, pool, state, history, OwnRequest
<1>8. CASE UNCHANGED wvars
  BY <1>0, <1>8 DEF wvars, pool, state, history, OwnRequest
<1> QED
  BY <1>1, <1>2, <1>3, <1>4, <1>5, <1>6, <1>7, <1>8 DEF Next, Poll, Finished, TimedOut, Left

LEMMA StepBufferEmpty == IInv /\ [Next]_wvars => BufferEmptyBetweenPages'
<1> SUFFICES ASSUME IInv, [Next]_wvars, buf' # <<>>, ~cut'
             PROVE  \E s \in Slots : Writing(s)' /\ Buffered(output'[s])
  BY DEF BufferEmptyBetweenPages
<1>0. Shape /\ PoolExact /\ BufferEmptyBetweenPages
  BY DEF IInv
<1>a. ASSUME NEW s \in Slots, Writing(s), Buffered(output[s]),
             s \notin free', output'[s] = output[s]
      PROVE  \E t \in Slots : Writing(t)' /\ Buffered(output'[t])
  BY <1>a DEF Writing, Buffered
<1>1. ASSUME NEW c \in Clients, NEW segment \in Segments, Connected(c, segment)
      PROVE  \E s \in Slots : Writing(s)' /\ Buffered(output'[s])
  <2>1. /\ memb_alloc \in free /\ free' = free \ {memb_alloc} /\ cut' = cut /\ buf' = buf
        /\ \E new : output' = [output EXCEPT ![memb_alloc] = new]
    BY <1>1, ConnectedOutcome DEF Outcome
  <2>2. PICK s \in Slots : Writing(s) /\ Buffered(output[s])
    BY <1>0, <2>1 DEF BufferEmptyBetweenPages
  <2>3. s # memb_alloc /\ s \notin free'
    BY <2>1, <2>2 DEF Writing
  <2> QED
    BY <1>0, <1>a, <2>1, <2>2, <2>3 DEF Shape
<1>2. ASSUME NEW c \in Clients, NEW segment \in Segments, NewData(c, segment)
      PROVE  \E s \in Slots : Writing(s)' /\ Buffered(output'[s])
  <2>1. free' = free /\ cut' = cut /\ buf' = buf
    BY <1>2, NewDataOutcome DEF Outcome
  <2>2. PICK new : /\ output' = [output EXCEPT ![slot[c]] = new]
                   /\ output[slot[c]] # Waiting => new = output[slot[c]]
    BY <1>2, NewDataOutcome DEF Outcome
  <2>3. PICK s \in Slots : Writing(s) /\ Buffered(output[s])
    BY <1>0, <2>1 DEF BufferEmptyBetweenPages
  <2>4. output[s] # Waiting
    BY <2>3 DEF Buffered, Waiting, At
  <2>5. output'[s] = output[s]
    BY <1>0, <2>2, <2>4 DEF Shape
  <2> QED
    BY <1>a, <2>1, <2>3, <2>5 DEF Writing
<1>3. ASSUME NEW c \in Clients, Acked(c)
      PROVE  \E s \in Slots : Writing(s)' /\ Buffered(output'[s])
  <2>1. slot[c] \in Slots /\ slot[c] \notin free /\ free' = free
    BY <1>0, <1>3 DEF Acked, Shape, PoolExact, Busy, pool
  <2>2. PICK new \in [part : Parts, list : Lists] :
            /\ output' = [output EXCEPT ![slot[c]] = new]
            /\ Buffered(new) \/ (buf # <<>> /\ ~Buffered(output[slot[c]]))
    BY <1>0, <1>3, <2>1, WrittenOn DEF Acked
  <2>3. CASE Buffered(new)
    BY <1>0, <2>1, <2>2, <2>3 DEF Shape, Writing, Buffered
  <2>4. CASE buf # <<>> /\ ~Buffered(output[slot[c]])
    <3>1. ~cut
      BY <1>3, <2>4 DEF Acked
    <3>2. PICK s \in Slots : Writing(s) /\ Buffered(output[s])
      BY <1>0, <2>4, <3>1 DEF BufferEmptyBetweenPages
    <3>3. output'[s] = output[s]
      BY <1>0, <2>2, <2>4, <3>2 DEF Shape
    <3> QED
      BY <1>a, <2>1, <3>2, <3>3 DEF Writing
  <2> QED
    BY <2>2, <2>3, <2>4
<1>4. ASSUME NEW c \in Clients, Release(c), link[c] # "none"
      PROVE  \E s \in Slots : Writing(s)' /\ Buffered(output'[s])
  <2>1. ~cut /\ buf # <<>> /\ ~(Writing(slot[c]) /\ Buffered(output[slot[c]]))
    BY <1>4 DEF Release
  <2>2. PICK s \in Slots : Writing(s) /\ Buffered(output[s])
    BY <1>0, <2>1 DEF BufferEmptyBetweenPages
  <2> QED
    BY <1>4, <1>a, <2>1, <2>2 DEF Release, state, Writing
<1>5. CASE Reboot
  BY <1>5 DEF Reboot
<1>6. CASE Tick
  BY <1>0, <1>6 DEF Tick, pool, script, history, BufferEmptyBetweenPages, Writing
<1>7. ASSUME NEW c \in Clients, Refused(c) \/ Rexmit(c)
      PROVE  \E s \in Slots : Writing(s)' /\ Buffered(output'[s])
  BY <1>0, <1>7 DEF Refused, Rexmit, pool, state, script, history, BufferEmptyBetweenPages, Writing
<1>8. CASE UNCHANGED wvars
  BY <1>0, <1>8 DEF wvars, pool, state, script, history, BufferEmptyBetweenPages, Writing
<1> QED
  BY <1>1, <1>2, <1>3, <1>4, <1>5, <1>6, <1>7, <1>8 DEF Next, Poll, Finished, TimedOut, Left

LEMMA InductiveIInv == Spec => []IInv
<1>1. IInv /\ [Next]_wvars => IInv'
  BY StepShape, StepPoolExact, StepOwnRequest, StepBufferEmpty DEF IInv
<1> QED
  BY InitIInv, <1>1, PTL DEF Spec

(* No block of the pool is lost or in two hands, however many connections  *)
(* have come and gone and however each of them ended.                      *)
THEOREM PoolIsAlwaysExact == Spec => []PoolExact
<1>1. IInv => PoolExact
  BY DEF IInv
<1> QED
  BY InductiveIInv, <1>1, PTL

\* As many connections are being served as blocks are in use.
LEMMA PoolCapacity ==
    ASSUME Shape, PoolExact
    PROVE  IsFiniteSet(Busy) /\ Cardinality(Busy) + Cardinality(free) = Conns
<1> DEFINE T == {slot[c] : c \in Busy}
           f == [c \in Busy |-> slot[c]]
<1>1. IsFiniteSet(Slots) /\ Cardinality(Slots) = Conns
  BY WebAssumption, FS_Interval DEF Slots
<1>2. T \in SUBSET Slots /\ free = Slots \ T
  BY DEF Shape, PoolExact, Busy
<1>3. IsFiniteSet(T) /\ Cardinality(T) \in Nat
  BY <1>1, <1>2, FS_Subset, FS_CardinalityType
<1>4. IsFiniteSet(Busy) /\ Cardinality(Busy) = Cardinality(T)
  <2>1. f \in Injection(Busy, T) /\ f \in Surjection(Busy, T)
    BY DEF PoolExact, Injection, IsInjective, Surjection
  <2> HIDE DEF f, T
  <2> QED
    BY <1>3, <2>1, FS_Injection
<1>5. Cardinality(free) = Conns - Cardinality(T)
  <2>1. Slots \cap T = T
    BY <1>2
  <2> HIDE DEF T
  <2> QED
    BY <1>1, <1>2, <2>1, FS_Difference
<1> QED
  BY <1>3, <1>4, <1>5, WebAssumption

(* A client is turned away only while Conns others have their connections, *)
(* after any number of connections: uip_abort of httpd_appcall never hides *)
(* a block that nobody uses.                                               *)
RefusedOnlyWhenFull ==
    [][\A c \in Clients : Refused(c) => Cardinality(Busy) = Conns]_wvars

(* The capacity of the pool is all there, whatever the clients did before: *)
(* what is in use and what is free always make up Conns.                   *)
THEOREM AlwaysRefusedOnlyWhenFull == Spec => RefusedOnlyWhenFull
<1>1. IInv => [\A c \in Clients : Refused(c) => Cardinality(Busy) = Conns]_wvars
  <2> SUFFICES ASSUME IInv, NEW c \in Clients, Refused(c) PROVE Cardinality(Busy) = Conns
    OBVIOUS
  <2>1. IsFiniteSet(Busy) /\ Cardinality(Busy) + Cardinality(free) = Conns
    BY PoolCapacity DEF IInv
  <2>2. Cardinality(free) = 0
    BY FS_EmptySet DEF Refused
  <2>3. Cardinality(Busy) \in Nat
    BY <2>1, FS_CardinalityType
  <2> QED
    BY <2>1, <2>2, <2>3
<1> QED
  BY InductiveIInv, <1>1, PTL DEF RefusedOnlyWhenFull

(* The protothreads of a block that is used again remember nothing of its  *)
(* last owner: a client is answered when it has asked, and not before.     *)
THEOREM ClientIsServedItsOwn == Spec => []OwnRequest
<1>1. IInv => OwnRequest
  BY DEF IInv
<1> QED
  BY InductiveIInv, <1>1, PTL

(* The page buffer is empty whenever no chunk of it is under way, but for  *)
(* the chunk of a connection that ended before it was acknowledged.        *)
THEOREM BufferIsAlwaysReclaimed == Spec => []BufferEmptyBetweenPages
<1>1. IInv => BufferEmptyBetweenPages
  BY DEF IInv
<1> QED
  BY InductiveIInv, <1>1, PTL
-----------------------------------------------------------------------------
\* The rest of the types: the timers, the iterators, the bounds.
RestTypeOK ==
    /\ age \in [Slots -> 0..IdleTime]
    /\ iterator \in [Lists -> Nat] /\ \A k \in Lists : iterator[k] \in 0..Rows[k]
    /\ lone \subseteq Slots
    /\ visits \in 0..MaxVisits /\ segments \in 0..MaxSegments /\ faults \in 0..MaxFaults

LEMMA RowsAreNat == \A k \in Lists : Rows[k] \in Nat
  BY WebAssumption DEF Lists

\* An iterator never passes the end of its list.
LEMMA MovedOnType ==
    ASSUME RestTypeOK, NEW at, at.list \in Lists
    PROVE  /\ MovedOn(at) \in Nat /\ MovedOn(at) \in 0..Rows[at.list]
           /\ at.part = "open" => MovedOn(at) = IF Rows[at.list] = 0 THEN NoRow ELSE 1
           /\ at.part # "open" /\ iterator[at.list] \in 1..Rows[at.list] =>
                  MovedOn(at) = IF iterator[at.list] = Rows[at.list] THEN NoRow
                                ELSE iterator[at.list] + 1
<1>1. Rows[at.list] \in Nat /\ iterator[at.list] \in 0..Rows[at.list]
  BY RowsAreNat DEF RestTypeOK
<1>2. CASE at.part = "open"
  BY <1>1, <1>2 DEF MovedOn, NoRow
<1>3. CASE at.part # "open" /\ iterator[at.list] = NoRow
  BY <1>1, <1>3 DEF MovedOn, NoRow
<1>4. CASE at.part # "open" /\ iterator[at.list] # NoRow
  BY <1>1, <1>4 DEF MovedOn, NoRow
<1> QED
  BY <1>2, <1>3, <1>4

\* What handle_connection does besides: it begins a page, or leaves the pages alone.
LEMMA HandledLone ==
    ASSUME NEW c, NEW s \in Slots, NEW awaited, NEW at, NEW segment,
           handle_connection(c, s, awaited, at, segment)
    PROVE  /\ iterator' = iterator /\ buf' = buf
           /\ \/ at = Waiting /\ Begin(s)
              \/ output' = [output EXCEPT ![s] = at] /\ UNCHANGED <<lone, flight, page>>
  BY DEF handle_connection

LEMMA InitRest == Init => RestTypeOK
<1> SUFFICES ASSUME Init PROVE RestTypeOK
  OBVIOUS
<1>1. iterator = [k \in Lists |-> 0] /\ age = [s \in Slots |-> 0] /\ lone = {}
        /\ visits = 0 /\ segments = 0 /\ faults = 0
  BY DEF Init, Fresh, NoRow
<1>2. \A k \in Lists : 0 \in 0..Rows[k]
  BY RowsAreNat
<1> QED
  BY <1>1, <1>2, WebAssumption DEF RestTypeOK

LEMMA StepRest == IInv /\ RestTypeOK /\ [Next]_wvars => RestTypeOK'
<1> SUFFICES ASSUME IInv, RestTypeOK, [Next]_wvars PROVE RestTypeOK'
  OBVIOUS
<1>0. \A s \in Slots : [age EXCEPT ![s] = 0] \in [Slots -> 0..IdleTime]
  BY WebAssumption DEF RestTypeOK
<1>1. ASSUME NEW s \in Slots, NEW c \in Clients, NEW awaited, NEW at, NEW segment,
             handle_connection(c, s, awaited, at, segment)
      PROVE  iterator' = iterator /\ lone' \subseteq Slots
  <2>1. Begin(s) => lone' \subseteq lone \cup {s}
    BY DEF Begin
  <2>2. iterator' = iterator /\ (Begin(s) \/ lone' = lone)
    BY <1>1, HandledLone
  <2> QED
    BY <2>1, <2>2 DEF RestTypeOK
<1>2. ASSUME NEW c \in Clients, NEW segment \in Segments, Connected(c, segment) PROVE RestTypeOK'
  <2>1. memb_alloc \in Slots
    BY <1>2, ConnectedOutcome
  <2>2. iterator' = iterator /\ lone' \subseteq Slots
    BY <1>1, <1>2, <2>1 DEF Connected
  <2>3. age' = [age EXCEPT ![memb_alloc] = 0] /\ visits < MaxVisits /\ visits' = visits + 1
          /\ segments' = segments /\ faults' = faults
    BY <1>2 DEF Connected
  <2> QED
    BY <1>0, <2>1, <2>2, <2>3, WebAssumption DEF RestTypeOK
<1>3. ASSUME NEW c \in Clients, NEW segment \in Segments, NewData(c, segment) PROVE RestTypeOK'
  <2>1. slot[c] \in Slots
    BY <1>3, NewDataOutcome
  <2>2. iterator' = iterator /\ lone' \subseteq Slots
    BY <1>1, <1>3, <2>1 DEF NewData
  <2>3. age' = [age EXCEPT ![slot[c]] = 0] /\ segments < MaxSegments /\ segments' = segments + 1
          /\ visits' = visits /\ faults' = faults
    BY <1>3 DEF NewData
  <2> QED
    BY <1>0, <2>1, <2>2, <2>3, WebAssumption DEF RestTypeOK
<1>4. ASSUME NEW c \in Clients, Acked(c) PROVE RestTypeOK'
  <2>1. slot[c] \in Slots
    BY <1>4 DEF IInv, Shape, Acked, PoolExact, Busy
  <2>2. PICK at \in [part : Parts, list : Lists] : at = output[slot[c]]
    BY <2>1 DEF IInv, Shape
  <2>3. PICK i : /\ i = (IF at.part \in {"open", "row"} THEN MovedOn(at) ELSE iterator[at.list])
                 /\ iterator' = [iterator EXCEPT ![at.list] = i]
    BY <1>4, <2>2 DEF Acked, WriteOn
  <2>4. i \in Nat /\ i \in 0..Rows[at.list] /\ at.list \in Lists
    BY <2>2, <2>3, MovedOnType DEF RestTypeOK
  <2>5. iterator' \in [Lists -> Nat] /\ \A k \in Lists : iterator'[k] \in 0..Rows[k]
    BY <2>3, <2>4 DEF RestTypeOK
  <2>6. age' = [age EXCEPT ![slot[c]] = 0] /\ lone' = lone
          /\ visits' = visits /\ segments' = segments /\ faults' = faults
    BY <1>4 DEF Acked, bounds
  <2> QED
    BY <1>0, <2>1, <2>5, <2>6 DEF RestTypeOK
<1>5. ASSUME NEW c \in Clients, Rexmit(c) PROVE RestTypeOK'
  <2>1. slot[c] \in Slots
    BY <1>5 DEF IInv, Shape, Rexmit, PoolExact, Busy
  <2>2. age' = [age EXCEPT ![slot[c]] = 0] /\ lone' = lone /\ iterator' = iterator
          /\ visits' = visits /\ segments' = segments
          /\ faults < MaxFaults /\ faults' = faults + 1
    BY <1>5 DEF Rexmit, history
  <2> QED
    BY <1>0, <2>1, <2>2, WebAssumption DEF RestTypeOK
<1>6. ASSUME NEW c \in Clients, Refused(c) PROVE RestTypeOK'
  BY <1>6, WebAssumption DEF Refused, RestTypeOK, state, script, history
<1>7. ASSUME NEW c \in Clients, Release(c) PROVE RestTypeOK'
  BY <1>7 DEF Release, RestTypeOK, state, bounds
<1>8. CASE Tick
  <2>1. age' \in [Slots -> 0..IdleTime]
    BY <1>8, WebAssumption DEF Tick, RestTypeOK
  <2> QED
    BY <1>8, <2>1 DEF Tick, RestTypeOK, script, history, bounds
<1>9. CASE Reboot
  <2>1. age' = [s \in Slots |-> 0] /\ iterator' = [k \in Lists |-> 0] /\ lone' = {}
          /\ visits' = visits /\ segments' = segments
          /\ faults < MaxFaults /\ faults' = faults + 1
    BY <1>9 DEF Reboot, NoRow
  <2>2. \A k \in Lists : 0 \in 0..Rows[k]
    BY RowsAreNat
  <2> QED
    BY <2>1, <2>2, WebAssumption DEF RestTypeOK
<1>10. CASE UNCHANGED wvars
  BY <1>10 DEF wvars, RestTypeOK, state, script, history, bounds
<1> QED
  BY <1>2, <1>3, <1>4, <1>5, <1>6, <1>7, <1>8, <1>9, <1>10
     DEF Next, Poll, Finished, TimedOut, Left

(* The types, among them that no iterator passes the end of its list,      *)
(* whichever page of whichever connection moves it.                        *)
THEOREM WebServerTypeCorrect == Spec => []TypeOK
<1>1. IInv /\ [Next]_wvars => IInv'
  BY StepShape, StepPoolExact, StepOwnRequest, StepBufferEmpty DEF IInv
<1>2. IInv /\ RestTypeOK => TypeOK
  BY DEF IInv, Shape, RestTypeOK, TypeOK
<1> QED
  BY InitIInv, InitRest, StepRest, <1>1, <1>2, PTL DEF Spec
-----------------------------------------------------------------------------
(***************************************************************************)
(* The page that nobody interrupts.  What it is to say is defined by       *)
(* recursion over its lists; the induction that the definition needs is    *)
(* taken in the form in which it is a statement about sets: every set of   *)
(* numbers that is not empty has a least member.                           *)
(***************************************************************************)
Chunks == [part : Parts, list : Lists, row : Nat]

\* Of the lists before the k-th, everything that the page says of them.
Shown[k \in 0..Len(Rows)] == IF k = 0 THEN <<>> ELSE Shown[k - 1] \o Listing(k)

Heading == <<Chunk(At("status", 1), NoRow), Chunk(At("type", 1), NoRow), Chunk(At("top", 1), NoRow)>>

LEMMA LeastNumber ==
    ASSUME NEW T, T \subseteq Nat, T # {}
    PROVE  \E n \in T : \A m \in T : n <= m
<1>1. PICK R : IsWellFoundedOn(R, Nat) /\ \A x, y \in Nat : x < y => <<x, y>> \in R
  <2>1. IsWellFoundedOn(OpToRel(<, Nat), Nat)
    BY NatLessThanWellFounded
  <2>2. \A x, y \in Nat : x < y => <<x, y>> \in OpToRel(<, Nat)
    BY DEF OpToRel
  <2> QED
    BY <2>1, <2>2, Zenon
<1>2. PICK n \in T : \A y \in T : ~ (<<y, n>> \in R)
  <2>1. IsWellFoundedOn(R, Nat)
    BY <1>1
  <2>2. \E x \in T : \A y \in T : ~ (<<y, x>> \in R)
    BY <2>1, WFMin, Zenon
  <2> QED
    BY <2>2
<1>3. ASSUME NEW m \in T PROVE n <= m
  <2>1. n \in Nat /\ m \in Nat /\ ~(m < n)
    BY <1>1, <1>2
  <2> QED
    BY <2>1
<1> QED
  BY <1>2, <1>3

LEMMA ChunkType ==
    ASSUME NEW part \in Parts, NEW k \in Lists, NEW i \in Nat
    PROVE  /\ At(part, k) \in [part : Parts, list : Lists]
           /\ At(part, k).part = part /\ At(part, k).list = k
           /\ Chunk(At(part, k), i) \in Chunks
  BY DEF At, Chunk, Chunks, NoRow

LEMMA RowChunks ==
    ASSUME NEW k \in Lists, NEW n \in Nat
    PROVE  /\ [i \in 1..n |-> Chunk(At("row", k), i)] \in Seq(Chunks)
           /\ Len([i \in 1..n |-> Chunk(At("row", k), i)]) = n
<1>1. \A i \in 1..n : Chunk(At("row", k), i) \in Chunks
  BY ChunkType DEF Parts
<1> QED
  BY <1>1

LEMMA ListingType ==
    ASSUME NEW k \in Lists
    PROVE  Listing(k) \in Seq(Chunks)
<1>1. [i \in 1..Rows[k] |-> Chunk(At("row", k), i)] \in Seq(Chunks)
  BY RowsAreNat, RowChunks
<1>2. Chunk(At("open", k), NoRow) \in Chunks /\ Chunk(At("end", k), NoRow) \in Chunks
  BY ChunkType DEF Parts, NoRow
<1> QED
  BY <1>1, <1>2 DEF Listing

\* f strings the first n lists together.
Strings(f, n) ==
    /\ f \in [0..n -> Seq(Chunks)] /\ f[0] = <<>>
    /\ \A k \in 1..n : f[k] = f[k - 1] \o Listing(k)

LEMMA StringsExist == \E f : Strings(f, Len(Rows))
<1> DEFINE T == {n \in 0..Len(Rows) : ~ \E f : Strings(f, n)}
<1>0. Len(Rows) \in Nat
  BY WebAssumption
<1> SUFFICES ASSUME T # {} PROVE FALSE
  BY <1>0
<1>1. PICK n \in T : \A m \in T : n <= m
  <2>1. T \subseteq Nat
    BY <1>0
  <2> QED
    BY <2>1, LeastNumber
<1>2. n \in 0..Len(Rows) /\ ~ \E f : Strings(f, n)
  BY <1>1
<1>3. CASE n = 0
  <2>1. Strings([k \in 0..0 |-> <<>>], 0)
    BY DEF Strings
  <2> QED
    BY <1>2, <1>3, <2>1
<1>4. CASE n > 0
  <2>1. PICK f : Strings(f, n - 1)
    BY <1>0, <1>1, <1>2, <1>4
  <2> DEFINE g == [k \in 0..n |-> IF k = n THEN f[n - 1] \o Listing(n) ELSE f[k]]
  <2>2. f \in [0..(n - 1) -> Seq(Chunks)] /\ n - 1 \in 0..(n - 1) /\ Listing(n) \in Seq(Chunks)
    BY <1>0, <1>2, <1>4, <2>1, ListingType DEF Strings, Lists
  <2>3. f[n - 1] \o Listing(n) \in Seq(Chunks)
    BY <2>2
  <2>4. g \in [0..n -> Seq(Chunks)] /\ g[0] = <<>>
    BY <1>0, <1>2, <1>4, <2>1, <2>2, <2>3 DEF Strings
  <2>5. ASSUME NEW k \in 1..n PROVE g[k] = g[k - 1] \o Listing(k)
    <3>1. CASE k = n
      <4>1. n \in 0..n /\ n - 1 \in 0..n /\ n - 1 # n
        BY <1>0, <1>2, <1>4
      <4> QED
        BY <3>1, <4>1
    <3>2. CASE k # n
      <4>1. k \in 1..(n - 1) /\ k - 1 \in 0..n /\ k - 1 # n /\ k \in 0..n
        BY <1>0, <1>2, <3>2
      <4> QED
        BY <2>1, <3>2, <4>1 DEF Strings
    <3> QED
      BY <3>1, <3>2
  <2>6. Strings(g, n)
    BY <2>4, <2>5 DEF Strings
  <2> QED
    BY <1>2, <2>6
<1> QED
  BY <1>0, <1>2, <1>3, <1>4

LEMMA ShownIsString == Strings(Shown, Len(Rows))
<1> DEFINE Def(f) == f = [k \in 0..Len(Rows) |-> IF k = 0 THEN <<>> ELSE f[k - 1] \o Listing(k)]
<1>1. Len(Rows) \in Nat
  BY WebAssumption
<1>2. PICK f : Strings(f, Len(Rows))
  BY StringsExist
<1>3. Def(f)
  BY <1>1, <1>2 DEF Strings
<1>4. Def(Shown)
  <2>1. Def(CHOOSE h : Def(h))
    BY <1>3
  <2>2. Shown = CHOOSE h : Def(h)
    BY DEF Shown
  <2> QED
    BY <2>1, <2>2
<1>5. \A k \in 0..Len(Rows) : Shown[k] = IF k = 0 THEN <<>> ELSE Shown[k - 1] \o Listing(k)
  BY <1>4
<1>6. \A k \in 0..Len(Rows) : Shown[k] = f[k]
  <2> DEFINE T == {k \in 0..Len(Rows) : Shown[k] # f[k]}
  <2>1. ASSUME T # {} PROVE FALSE
    <3>1. PICK k \in T : \A m \in T : k <= m
      <4>1. T \subseteq Nat
        BY <1>1
      <4> QED
        BY <2>1, <4>1, LeastNumber
    <3>2. CASE k = 0
      BY <1>1, <1>2, <1>5, <3>1, <3>2 DEF Strings
    <3>3. CASE k > 0
      <4>1. k \in 1..Len(Rows) /\ k - 1 \in 0..Len(Rows) /\ ~(k <= k - 1)
        BY <1>1, <3>1, <3>3
      <4>2. Shown[k - 1] = f[k - 1]
        BY <3>1, <4>1
      <4> QED
        BY <1>2, <1>5, <3>1, <3>3, <4>1, <4>2 DEF Strings
    <3> QED
      BY <1>1, <3>1, <3>2, <3>3
  <2> QED
    BY <2>1
<1>7. DOMAIN Shown = 0..Len(Rows) /\ Shown = [k \in 0..Len(Rows) |-> Shown[k]]
  BY <1>4
<1>8. Shown = f
  BY <1>2, <1>6, <1>7 DEF Strings
<1> QED
  BY <1>2, <1>8

LEMMA WholePageIs ==
    WholePage = (Heading \o Shown[Len(Rows)]) \o <<Chunk(At("bottom", 1), NoRow)>>
  BY DEF WholePage, Shown, Heading

\* The page as far as the i-th row of the k-th list.
UpToRow(k, i) ==
    ((Heading \o Shown[k - 1]) \o <<Chunk(At("open", k), NoRow)>>)
        \o [j \in 1..i |-> Chunk(At("row", k), j)]

\* The page as far as the part at, of which i is the row.
UpTo(at, i) ==
    CASE at.part = "status" -> <<Chunk(At("status", 1), NoRow)>>
      [] at.part = "type"   -> <<Chunk(At("status", 1), NoRow), Chunk(At("type", 1), NoRow)>>
      [] at.part = "top"    -> Heading
      [] at.part = "open"   -> UpToRow(at.list, 0)
      [] at.part = "row"    -> UpToRow(at.list, i)
      [] at.part = "end"    -> Heading \o Shown[at.list]
      [] OTHER              -> WholePage

\* A part that a page goes on from.
Continues(at) ==
    /\ at \in [part : Parts, list : Lists] /\ at.part \notin {"waiting", "sent"}
    /\ at.part \in {"status", "type", "top", "bottom"} => at.list = 1
    /\ at.part = "row" => iterator[at.list] \in 1..Rows[at.list]

\* A page that is written alone is as far as its part says; the buffer holds
\* its chunk and nothing else, and nobody else writes.
Undisturbed(s) ==
    LET at == output[s]
        i  == iterator[at.list]
    IN  /\ Continues(at)
        /\ flight[s] = <<Chunk(at, i)>>
        /\ page[s] \o flight[s] = UpTo(at, i)
        /\ buf = IF Buffered(at) THEN flight[s] ELSE <<>>
        /\ \A t \in Slots \ {s} : ~Writing(t)

LoneInv ==
    /\ page \in [Slots -> Seq(Chunks)] /\ flight \in [Slots -> Seq(Chunks)]
    /\ lone \subseteq Slots
    /\ \A s \in Slots \ lone : page[s] = <<>> /\ flight[s] = <<>>
    /\ \A s \in lone :
          /\ s \notin free /\ output[s].part # "waiting"
          /\ output[s].part = "sent" => page[s] = WholePage /\ flight[s] = <<>>
          /\ output[s].part # "sent" => Undisturbed(s)

LEMMA ShownType ==
    /\ Shown[0] = <<>>
    /\ \A k \in Lists : /\ k - 1 \in 0..Len(Rows) /\ Shown[k - 1] \in Seq(Chunks)
                        /\ Shown[k] \in Seq(Chunks) /\ Shown[k] = Shown[k - 1] \o Listing(k)
<1>1. Len(Rows) \in Nat
  BY WebAssumption
<1>2. \A k \in Lists : k \in 0..Len(Rows) /\ k - 1 \in 0..Len(Rows)
  BY <1>1 DEF Lists
<1> QED
  BY <1>1, <1>2, ShownIsString DEF Strings, Lists

LEMMA HeadingType ==
    /\ Heading \in Seq(Chunks)
    /\ Heading = (<<Chunk(At("status", 1), NoRow)>> \o <<Chunk(At("type", 1), NoRow)>>)
                     \o <<Chunk(At("top", 1), NoRow)>>
<1>1. \A part \in Parts : Chunk(At(part, 1), NoRow) \in Chunks
  BY Constants, ChunkType DEF NoRow
<1> QED
  BY <1>1 DEF Heading, Parts

LEMMA Regroup == \A x, y, z \in Seq(Chunks) : (x \o y) \o z = x \o (y \o z)
  BY ConcatAssociative

\* Row by row, and the end of the list after its last row.
LEMMA RowsGrow ==
    ASSUME NEW k \in Lists
    PROVE  /\ UpToRow(k, 0) = (Heading \o Shown[k - 1]) \o <<Chunk(At("open", k), NoRow)>>
           /\ \A i \in Nat : UpToRow(k, i) \o <<Chunk(At("row", k), i + 1)>> = UpToRow(k, i + 1)
           /\ UpToRow(k, Rows[k]) \o <<Chunk(At("end", k), NoRow)>> = Heading \o Shown[k]
<1> DEFINE R(i)  == [j \in 1..i |-> Chunk(At("row", k), j)]
           open  == <<Chunk(At("open", k), NoRow)>>
           ended == <<Chunk(At("end", k), NoRow)>>
           above == Heading \o Shown[k - 1]
<1>1. Heading \in Seq(Chunks) /\ Shown[k - 1] \in Seq(Chunks) /\ above \in Seq(Chunks)
  <2>1. Heading \in Seq(Chunks) /\ Shown[k - 1] \in Seq(Chunks)
    BY HeadingType, ShownType
  <2> QED
    BY <2>1, ConcatProperties
<1>2. open \in Seq(Chunks) /\ ended \in Seq(Chunks)
  <2>1. Chunk(At("open", k), NoRow) \in Chunks /\ Chunk(At("end", k), NoRow) \in Chunks
    BY ChunkType DEF Parts, NoRow
  <2> QED
    BY <2>1
<1>3. \A i \in Nat : R(i) \in Seq(Chunks) /\ Len(R(i)) = i
  BY RowChunks
<1>4. above \o open \in Seq(Chunks)
  BY <1>1, <1>2, ConcatProperties
<1>5. \A i : UpToRow(k, i) = (above \o open) \o R(i)
  BY DEF UpToRow
<1>6. R(0) = <<>>
  BY <1>3
<1>7. \A i \in Nat : R(i) \o <<Chunk(At("row", k), i + 1)>> = R(i + 1)
  <2> TAKE i \in Nat
  <2>1. Chunk(At("row", k), i + 1) \in Chunks
    BY ChunkType DEF Parts
  <2> DEFINE c == Chunk(At("row", k), i + 1)
  <2>2. R(i) \in Seq(Chunks) /\ Len(R(i)) = i /\ R(i + 1) \in Seq(Chunks) /\ Len(R(i + 1)) = i + 1
    BY <1>3
  <2>3. <<c>> \in Seq(Chunks) /\ Len(<<c>>) = 1 /\ <<c>>[1] = c
    BY <2>1
  <2>4. /\ R(i) \o <<c>> \in Seq(Chunks) /\ Len(R(i) \o <<c>>) = i + 1
        /\ \A j \in 1..(i + 1) : (R(i) \o <<c>>)[j] = IF j <= i THEN R(i)[j] ELSE <<c>>[j - i]
    BY <2>2, <2>3, ConcatProperties
  <2>5. \A j \in 1..(i + 1) : (R(i) \o <<c>>)[j] = R(i + 1)[j]
    <3> TAKE j \in 1..(i + 1)
    <3>1. CASE j <= i
      <4>1. j \in 1..i
        BY <3>1
      <4> QED
        BY <2>4, <3>1, <4>1
    <3>2. CASE ~(j <= i)
      <4>1. j = i + 1 /\ j - i = 1
        BY <3>2
      <4> QED
        BY <2>3, <2>4, <3>2, <4>1
    <3> QED
      BY <3>1, <3>2
  <2> HIDE DEF R, c
  <2>6. R(i) \o <<c>> = R(i + 1)
    BY <2>2, <2>4, <2>5, SeqEqual
  <2> QED
    BY <2>6 DEF c
<1>8. Listing(k) = (open \o R(Rows[k])) \o ended
  BY DEF Listing
<1> HIDE DEF R, open, ended, above
<1>9. UpToRow(k, 0) = above \o open
  BY <1>4, <1>5, <1>6, ConcatEmptySeq
<1>10. \A i \in Nat : UpToRow(k, i) \o <<Chunk(At("row", k), i + 1)>> = UpToRow(k, i + 1)
  <2> TAKE i \in Nat
  <2>1. <<Chunk(At("row", k), i + 1)>> \in Seq(Chunks)
    <3>1. Chunk(At("row", k), i + 1) \in Chunks
      BY ChunkType DEF Parts
    <3> QED
      BY <3>1
  <2>2. ((above \o open) \o R(i)) \o <<Chunk(At("row", k), i + 1)>>
            = (above \o open) \o (R(i) \o <<Chunk(At("row", k), i + 1)>>)
    <3>1. above \o open \in Seq(Chunks) /\ R(i) \in Seq(Chunks)
      BY <1>3, <1>4
    <3> QED
      BY <2>1, <3>1, Regroup
  <2> QED
    BY <1>5, <1>7, <2>2
<1>11. UpToRow(k, Rows[k]) \o ended = Heading \o Shown[k]
  <2> DEFINE rows == R(Rows[k])
  <2>1. rows \in Seq(Chunks)
    BY <1>3, RowsAreNat
  <2> HIDE DEF rows
  <2>2. open \o rows \in Seq(Chunks) /\ (open \o rows) \o ended \in Seq(Chunks)
    BY <1>2, <2>1, ConcatProperties
  <2>3. (above \o open) \o rows = above \o (open \o rows)
    BY <1>1, <1>2, <2>1, ConcatAssociative
  <2>4. (above \o (open \o rows)) \o ended = above \o ((open \o rows) \o ended)
    <3>1. above \in Seq(Chunks) /\ open \o rows \in Seq(Chunks) /\ ended \in Seq(Chunks)
      BY <1>1, <1>2, <2>2
    <3> QED
      BY <3>1, Regroup
  <2>5. above \o ((open \o rows) \o ended) = Heading \o (Shown[k - 1] \o ((open \o rows) \o ended))
    <3> DEFINE listing == (open \o rows) \o ended
    <3>1. Heading \in Seq(Chunks) /\ Shown[k - 1] \in Seq(Chunks) /\ listing \in Seq(Chunks)
      BY <1>1, <2>2
    <3> HIDE DEF listing
    <3>2. (Heading \o Shown[k - 1]) \o listing = Heading \o (Shown[k - 1] \o listing)
      BY <3>1, Regroup
    <3> QED
      BY <3>2 DEF above, listing
  <2>6. Shown[k] = Shown[k - 1] \o ((open \o rows) \o ended)
    BY <1>8, ShownType DEF rows
  <2> QED
    BY <1>5, <2>3, <2>4, <2>5, <2>6 DEF rows
<1> QED
  BY <1>9, <1>10, <1>11 DEF open, above, ended

LEMMA ChunkOfPart ==
    ASSUME NEW at \in [part : Parts, list : Lists], NEW i \in Nat
    PROVE  /\ Chunk(at, i) \in Chunks
           /\ at = At(at.part, at.list) /\ at.part \in Parts /\ at.list \in Lists
           /\ at.part # "row" => Chunk(at, i) = Chunk(at, NoRow) /\ \A j : UpTo(at, j) = UpTo(at, i)
<1>1. at = At(at.part, at.list) /\ at.part \in Parts /\ at.list \in Lists
  BY DEF At
<1>2. Chunk(at, i) \in Chunks
  BY <1>1 DEF Chunk, Chunks, NoRow
<1>3. at.part # "row" => Chunk(at, i) = Chunk(at, NoRow)
  BY DEF Chunk
<1>4. at.part # "row" => \A j : UpTo(at, j) = UpTo(at, i)
  BY DEF UpTo
<1> QED
  BY <1>1, <1>2, <1>3, <1>4

LEMMA PartsOfThePage ==
    /\ \A part, n : At(part, n).part = part /\ At(part, n).list = n
    /\ \A part, n, j : part # "row" => Chunk(At(part, n), j) = Chunk(At(part, n), NoRow)
    /\ \A n, j : /\ UpTo(At("open", n), j) = UpToRow(n, 0)
                 /\ UpTo(At("row", n), j) = UpToRow(n, j)
                 /\ UpTo(At("end", n), j) = Heading \o Shown[n]
                 /\ UpTo(At("bottom", n), j) = WholePage
                 /\ UpTo(At("top", n), j) = Heading
<1>1. \A part, n : At(part, n).part = part /\ At(part, n).list = n
  BY DEF At
<1>2. \A part, n, j : part # "row" => Chunk(At(part, n), j) = Chunk(At(part, n), NoRow)
  BY DEF At, Chunk
<1>3. \A n, j : UpTo(At("open", n), j) = UpToRow(n, 0)
  BY DEF At, UpTo
<1>4. \A n, j : UpTo(At("row", n), j) = UpToRow(n, j)
  BY DEF At, UpTo
<1>5. \A n, j : UpTo(At("end", n), j) = Heading \o Shown[n]
  BY DEF At, UpTo
<1>6. \A n, j : UpTo(At("bottom", n), j) = WholePage
  BY DEF At, UpTo
<1>7. \A n, j : UpTo(At("top", n), j) = Heading
  BY DEF At, UpTo
<1> QED
  BY <1>1, <1>2, <1>3, <1>4, <1>5, <1>6, <1>7

\* The pages next to each other, by the part that the first one ends with.
LEMMA PagesGrow ==
    /\ <<Chunk(At("status", 1), NoRow)>> \o <<Chunk(At("type", 1), NoRow)>>
           = <<Chunk(At("status", 1), NoRow), Chunk(At("type", 1), NoRow)>>
    /\ <<Chunk(At("status", 1), NoRow), Chunk(At("type", 1), NoRow)>> \o <<Chunk(At("top", 1), NoRow)>>
           = Heading
    /\ Heading \o <<Chunk(At("open", 1), NoRow)>> = UpToRow(1, 0)
    /\ \A k \in Lists : k + 1 \in Lists =>
           (Heading \o Shown[k]) \o <<Chunk(At("open", k + 1), NoRow)>> = UpToRow(k + 1, 0)
<1>1. \A part \in Parts : Chunk(At(part, 1), NoRow) \in Chunks
  BY Constants, ChunkType DEF NoRow
<1>2. PICK S, T, U \in Chunks : /\ S = Chunk(At("status", 1), NoRow)
                                /\ T = Chunk(At("type", 1), NoRow)
                                /\ U = Chunk(At("top", 1), NoRow)
  BY <1>1 DEF Parts
<1>3. <<S>> \o <<T>> = <<S, T>> /\ <<S, T>> \o <<U>> = Heading
  <2>1. <<S>> \o <<T>> = <<S, T>>
    <3>1. <<S>> \in Seq(Chunks) /\ <<T>> \in Seq(Chunks) /\ <<S, T>> \in Seq(Chunks)
      OBVIOUS
    <3>2. Len(<<S>>) = 1 /\ Len(<<T>>) = 1 /\ Len(<<S, T>>) = 2
      OBVIOUS
    <3>3. <<S>>[1] = S /\ <<T>>[1] = T /\ <<S, T>>[1] = S /\ <<S, T>>[2] = T
      OBVIOUS
    <3>4. \A x, y, z \in Seq(Chunks) :
              Len(x) = 1 /\ Len(y) = 1 /\ Len(z) = 2 /\ z[1] = x[1] /\ z[2] = y[1] => x \o y = z
      <4> SUFFICES ASSUME NEW x \in Seq(Chunks), NEW y \in Seq(Chunks), NEW z \in Seq(Chunks),
                          Len(x) = 1, Len(y) = 1, Len(z) = 2, z[1] = x[1], z[2] = y[1]
                   PROVE  x \o y = z
        OBVIOUS
      <4>1. /\ x \o y \in Seq(Chunks) /\ Len(x \o y) = 2
            /\ \A i \in 1..2 : (x \o y)[i] = IF i <= 1 THEN x[i] ELSE y[i - 1]
        BY ConcatProperties
      <4>2. \A i \in 1..2 : (x \o y)[i] = z[i]
        BY <4>1
      <4> QED
        BY <4>1, <4>2, SeqEqual
    <3> QED
      BY <3>1, <3>2, <3>3, <3>4
  <2>2. (<<S>> \o <<T>>) \o <<U>> = Heading
    BY <1>2, HeadingType
  <2> QED
    BY <2>1, <2>2
<1>4. Heading \o Shown[0] = Heading
  BY HeadingType, ShownType, ConcatEmptySeq
<1>5. \A k \in Lists : UpToRow(k, 0) = (Heading \o Shown[k - 1]) \o <<Chunk(At("open", k), NoRow)>>
  BY RowsGrow
<1>6. Heading \o <<Chunk(At("open", 1), NoRow)>> = UpToRow(1, 0)
  <2>1. UpToRow(1, 0) = (Heading \o Shown[1 - 1]) \o <<Chunk(At("open", 1), NoRow)>>
    BY <1>5, Constants
  <2>2. 1 - 1 = 0
    OBVIOUS
  <2> QED
    BY <1>4, <2>1, <2>2
<1>7. ASSUME NEW k \in Lists, k + 1 \in Lists
      PROVE  (Heading \o Shown[k]) \o <<Chunk(At("open", k + 1), NoRow)>> = UpToRow(k + 1, 0)
  <2>1. (k + 1) - 1 = k
    BY DEF Lists
  <2>2. UpToRow(k + 1, 0) = (Heading \o Shown[(k + 1) - 1]) \o <<Chunk(At("open", k + 1), NoRow)>>
    BY <1>5, <1>7
  <2> QED
    BY <2>1, <2>2
<1> QED
  BY <1>2, <1>3, <1>6, <1>7

\* Where the page goes on, its next chunk is the one that is missing.
GoesOn(at, j, next, i) ==
    /\ UpTo(at, j) \o <<Chunk(next, i)>> = UpTo(next, i)
    /\ next.part # "sent"
    /\ next.part \in {"status", "type", "top", "bottom"} => next.list = 1
    /\ next.part = "row" => next.list = at.list /\ i \in 1..Rows[at.list]

\* To go on to a part that is no row.
LEMMA OnTo ==
    ASSUME NEW at, NEW j, NEW i, NEW part, NEW n,
           part \in {"type", "top", "open", "end", "bottom"},
           part \in {"type", "top", "bottom"} => n = 1,
           UpTo(at, j) \o <<Chunk(At(part, n), NoRow)>> = UpTo(At(part, n), i)
    PROVE  GoesOn(at, j, At(part, n), i)
<1>1. Chunk(At(part, n), i) = Chunk(At(part, n), NoRow)
  BY PartsOfThePage
<1>2. At(part, n).part = part /\ At(part, n).list = n
  BY PartsOfThePage
<1> HIDE DEF At
<1> QED
  BY <1>1, <1>2 DEF GoesOn

LEMMA PageGoesOn ==
    ASSUME RestTypeOK, NEW at, Continues(at),
           NEW i, i = IF at.part \in {"open", "row"} THEN MovedOn(at) ELSE iterator[at.list]
    PROVE  \/ GoesOn(at, iterator[at.list], Following(at, i), i)
           \/ Following(at, i) = At("sent", 1) /\ UpTo(at, iterator[at.list]) = WholePage
<1>1. PICK k \in Lists : k = at.list /\ at = At(at.part, k)
  BY DEF Continues, At
<1>2. Rows[k] \in Nat /\ Len(Rows) \in Nat
  BY RowsAreNat, WebAssumption
<1>3. PICK j : j = iterator[k]
  OBVIOUS
<1>4. CASE at.part = "status"
  <2>1. Following(at, i) = At("type", 1)
    BY <1>4 DEF Following
  <2>2. UpTo(at, j) = <<Chunk(At("status", 1), NoRow)>>
    BY <1>4 DEF UpTo
  <2>3. UpTo(At("type", 1), i) = <<Chunk(At("status", 1), NoRow), Chunk(At("type", 1), NoRow)>>
    BY DEF UpTo, At
  <2>4. UpTo(at, j) \o <<Chunk(At("type", 1), NoRow)>> = UpTo(At("type", 1), i)
    BY <2>2, <2>3, PagesGrow
  <2>5. GoesOn(at, j, At("type", 1), i)
    BY <2>4, OnTo
  <2> QED
    BY <1>1, <1>3, <2>1, <2>5
<1>5. CASE at.part = "type"
  <2>1. Following(at, i) = At("top", 1)
    BY <1>5 DEF Following
  <2>2. UpTo(at, j) = <<Chunk(At("status", 1), NoRow), Chunk(At("type", 1), NoRow)>>
    BY <1>5 DEF UpTo
  <2>3. UpTo(At("top", 1), i) = Heading
    BY PartsOfThePage
  <2>4. UpTo(at, j) \o <<Chunk(At("top", 1), NoRow)>> = UpTo(At("top", 1), i)
    BY <2>2, <2>3, PagesGrow
  <2>5. GoesOn(at, j, At("top", 1), i)
    BY <2>4, OnTo
  <2> QED
    BY <1>1, <1>3, <2>1, <2>5
<1>6. CASE at.part = "top"
  <2>1. Following(at, i) = At("open", 1)
    BY <1>6 DEF Following
  <2>2. UpTo(at, j) = Heading
    BY <1>6 DEF UpTo
  <2>3. UpTo(At("open", 1), i) = UpToRow(1, 0)
    BY PartsOfThePage
  <2>4. UpTo(at, j) \o <<Chunk(At("open", 1), NoRow)>> = UpTo(At("open", 1), i)
    BY <2>2, <2>3, PagesGrow
  <2>5. GoesOn(at, j, At("open", 1), i)
    BY <2>4, OnTo
  <2> QED
    BY <1>1, <1>3, <2>1, <2>5
<1>7. CASE at.part \in {"open", "row"} /\ i = NoRow
  <2>1. Following(at, i) = At("end", k)
    BY <1>1, <1>7 DEF Following
  <2>2. UpTo(at, j) = UpToRow(k, Rows[k])
    <3>1. CASE at.part = "open"
      <4>1. Rows[k] = 0
        <5>1. MovedOn(at) = IF Rows[at.list] = 0 THEN NoRow ELSE 1
          BY <1>1, <3>1, MovedOnType
        <5> QED
          BY <1>1, <1>7, <5>1 DEF NoRow
      <4>2. UpTo(at, j) = UpToRow(k, 0)
        BY <1>1, <3>1 DEF UpTo
      <4> QED
        BY <4>1, <4>2
    <3>2. CASE at.part = "row"
      <4>1. j = Rows[k]
        <5>1. iterator[at.list] \in 1..Rows[at.list]
          BY <3>2 DEF Continues
        <5>2. MovedOn(at) = IF iterator[at.list] = Rows[at.list] THEN NoRow ELSE iterator[at.list] + 1
          BY <1>1, <3>2, <5>1, MovedOnType
        <5> QED
          BY <1>1, <1>2, <1>3, <1>7, <5>1, <5>2 DEF NoRow
      <4>2. UpTo(at, j) = UpToRow(k, j)
        BY <1>1, <3>2 DEF UpTo
      <4> QED
        BY <4>1, <4>2
    <3> QED
      BY <1>7, <3>1, <3>2
  <2>3. UpToRow(k, Rows[k]) \o <<Chunk(At("end", k), NoRow)>> = UpTo(At("end", k), i)
    <3>1. UpToRow(k, Rows[k]) \o <<Chunk(At("end", k), NoRow)>> = Heading \o Shown[k]
      BY RowsGrow
    <3> QED
      BY <3>1, PartsOfThePage
  <2>4. UpTo(at, j) \o <<Chunk(At("end", k), NoRow)>> = UpTo(At("end", k), i)
    BY <2>2, <2>3
  <2>5. GoesOn(at, j, At("end", k), i)
    BY <2>4, OnTo
  <2> QED
    BY <1>1, <1>3, <2>1, <2>5
<1>8. CASE at.part \in {"open", "row"} /\ i # NoRow
  <2>1. Following(at, i) = At("row", k)
    BY <1>1, <1>8 DEF Following
  <2>2. PICK m \in Nat : i = m + 1 /\ i \in 1..Rows[k] /\ UpTo(at, j) = UpToRow(k, m)
    <3>1. CASE at.part = "open"
      <4>1. i = 0 + 1 /\ 1 \in 1..Rows[k]
        BY <1>1, <1>2, <1>8, <3>1, MovedOnType DEF NoRow
      <4>2. UpTo(at, j) = UpToRow(k, 0)
        BY <1>1, <3>1 DEF UpTo
      <4> QED
        BY <4>1, <4>2
    <3>2. CASE at.part = "row"
      <4>1. j \in Nat /\ i = j + 1 /\ i \in 1..Rows[k]
        BY <1>1, <1>2, <1>3, <1>8, <3>2, MovedOnType DEF NoRow, Continues
      <4>2. UpTo(at, j) = UpToRow(k, j)
        BY <1>1, <3>2 DEF UpTo
      <4> QED
        BY <4>1, <4>2
    <3> QED
      BY <1>8, <3>1, <3>2
  <2>3. UpToRow(k, m) \o <<Chunk(At("row", k), m + 1)>> = UpToRow(k, m + 1)
    BY RowsGrow
  <2>4. UpTo(At("row", k), i) = UpToRow(k, i) /\ At("row", k).part = "row" /\ At("row", k).list = k
    BY PartsOfThePage
  <2>5. UpTo(at, j) \o <<Chunk(At("row", k), i)>> = UpTo(At("row", k), i)
    BY <2>2, <2>3, <2>4
  <2>6. GoesOn(at, j, At("row", k), i)
    BY <1>1, <2>2, <2>4, <2>5 DEF GoesOn
  <2> QED
    BY <1>1, <1>3, <2>1, <2>6
<1>9. CASE at.part = "end"
  <2>1. UpTo(at, j) = Heading \o Shown[k]
    BY <1>1, <1>9 DEF UpTo
  <2>2. CASE k < Len(Rows)
    <3>1. Following(at, i) = At("open", k + 1) /\ k + 1 \in Lists
      BY <1>1, <1>2, <1>9, <2>2 DEF Following, Lists
    <3>2. (Heading \o Shown[k]) \o <<Chunk(At("open", k + 1), NoRow)>> = UpToRow(k + 1, 0)
      BY <3>1, PagesGrow
    <3>3. UpTo(At("open", k + 1), i) = UpToRow(k + 1, 0)
      BY PartsOfThePage
    <3>4. UpTo(at, j) \o <<Chunk(At("open", k + 1), NoRow)>> = UpTo(At("open", k + 1), i)
      BY <2>1, <3>2, <3>3
    <3>5. GoesOn(at, j, At("open", k + 1), i)
      BY <3>4, OnTo
    <3> QED
      BY <1>1, <1>3, <3>1, <3>5
  <2>3. CASE ~(k < Len(Rows))
    <3>1. Following(at, i) = At("bottom", 1) /\ k = Len(Rows)
      BY <1>1, <1>2, <1>9, <2>3 DEF Following, Lists
    <3>2. (Heading \o Shown[k]) \o <<Chunk(At("bottom", 1), NoRow)>> = WholePage
      BY <3>1, WholePageIs
    <3>3. UpTo(At("bottom", 1), i) = WholePage
      BY PartsOfThePage
    <3>4. UpTo(at, j) \o <<Chunk(At("bottom", 1), NoRow)>> = UpTo(At("bottom", 1), i)
      BY <2>1, <3>2, <3>3
    <3>5. GoesOn(at, j, At("bottom", 1), i)
      BY <3>4, OnTo
    <3> QED
      BY <1>1, <1>3, <3>1, <3>5
  <2> QED
    BY <2>2, <2>3
<1>10. CASE at.part = "bottom"
  <2>1. Following(at, i) = At("sent", 1)
    BY <1>10 DEF Following
  <2>2. UpTo(at, j) = WholePage
    BY <1>10 DEF UpTo
  <2> QED
    BY <1>1, <1>3, <2>1, <2>2
<1> QED
  BY <1>4, <1>5, <1>6, <1>7, <1>8, <1>9, <1>10 DEF Continues, Parts

\* A block that writes is the only one to write, or is not among the lone;
\* in either case the lone ones besides it have sent their pages.
LEMMA OtherLoneAreSent ==
    ASSUME LoneInv, NEW s \in Slots, Writing(s), NEW t \in lone, t # s
    PROVE  output[t].part = "sent"
<1>1. ~Undisturbed(t)
  BY DEF Undisturbed
<1> QED
  BY <1>1 DEF LoneInv

\* What a step leaves alone stays as it is.
LEMMA SameLone ==
    ASSUME LoneInv, UNCHANGED <<page, flight, lone, free, output, iterator, buf>>
    PROVE  LoneInv'
  BY DEF LoneInv, Undisturbed, Continues, Writing

LEMMA InitLone == Init => LoneInv
<1> SUFFICES ASSUME Init PROVE LoneInv
  OBVIOUS
<1>1. page = [s \in Slots |-> <<>>] /\ flight = [s \in Slots |-> <<>>] /\ lone = {}
  BY DEF Init, Fresh
<1> QED
  BY <1>1 DEF LoneInv

\* A block that waits or was free begins a page.
LEMMA BegunLone ==
    ASSUME RestTypeOK, Shape, LoneInv, NEW s \in Slots, s \in free \/ output[s] = Waiting,
           Begin(s), free' = free \ {s}, UNCHANGED <<iterator, buf>>
    PROVE  LoneInv'
<1> DEFINE alone == Others(s) = {} /\ buf = <<>>
           first == Chunk(At("status", 1), NoRow)
<1>1. s \notin lone /\ page[s] = <<>> /\ flight[s] = <<>> /\ s \notin Others(s)
  BY DEF LoneInv, Waiting, At, Others
<1>2. /\ output' = [output EXCEPT ![s] = At("status", 1)]
      /\ lone' = (lone \ Others(s)) \cup (IF alone THEN {s} ELSE {})
      /\ flight' = [t \in Slots |-> IF t = s /\ alone THEN <<first>>
                                    ELSE IF t \in Others(s) THEN <<>> ELSE flight[t]]
      /\ page' = [t \in Slots |-> IF t \in Others(s) THEN <<>> ELSE page[t]]
  BY DEF Begin
<1>3. At("status", 1) \in [part : Parts, list : Lists] /\ first \in Chunks
  BY Constants, ChunkType DEF Parts, NoRow
<1>4. /\ output'[s] = At("status", 1) /\ output'[s].part = "status" /\ output'[s].list = 1
      /\ \A t \in Slots \ {s} : output'[t] = output[t] /\ (t \in free' <=> t \in free)
  BY <1>2 DEF Shape, At
<1>5. page' \in [Slots -> Seq(Chunks)] /\ flight' \in [Slots -> Seq(Chunks)]
  <2>1. <<>> \in Seq(Chunks) /\ <<first>> \in Seq(Chunks)
    BY <1>3
  <2> HIDE DEF first, alone
  <2> QED
    BY <1>2, <2>1 DEF LoneInv
<1>6. ASSUME NEW t \in Slots \ lone' PROVE page'[t] = <<>> /\ flight'[t] = <<>>
  BY <1>1, <1>2, <1>6 DEF LoneInv
<1>7. ASSUME NEW t \in lone', t # s
      PROVE  t \notin free' /\ output'[t].part = "sent" /\ page'[t] = WholePage /\ flight'[t] = <<>>
  <2>1. t \in lone /\ t \in Slots /\ t \notin Others(s)
    BY <1>2, <1>7 DEF RestTypeOK
  <2>2. t \notin free /\ output[t].part \in {"waiting", "sent"} /\ output[t].part # "waiting"
    BY <1>7, <2>1 DEF Others, Writing, LoneInv
  <2>3. page[t] = WholePage /\ flight[t] = <<>>
    BY <2>1, <2>2 DEF LoneInv
  <2> QED
    BY <1>2, <1>4, <1>7, <2>1, <2>2, <2>3
<1>8. ASSUME s \in lone' PROVE s \notin free' /\ Undisturbed(s)'
  <2>1. alone
    BY <1>1, <1>2, <1>8
  <2>2. flight'[s] = <<first>> /\ page'[s] = <<>>
    BY <1>1, <1>2, <2>1
  <2>3. Chunk(At("status", 1), iterator'[1]) = first
    BY PartsOfThePage
  <2>4. UpTo(output'[s], iterator'[1]) = <<first>>
    BY <1>4 DEF UpTo
  <2>5. page'[s] \o flight'[s] = <<first>>
    BY <1>3, <2>2, ConcatEmptySeq
  <2>6. \A t \in Slots \ {s} : ~Writing(t)'
    BY <1>4, <2>1 DEF Others, Writing
  <2>7. Continues(output[s])'
    BY <1>3, <1>4 DEF Continues
  <2>8. ~Buffered(output'[s]) /\ buf' = <<>>
    BY <1>4, <2>1 DEF Buffered
  <2> HIDE DEF first
  <2> QED
    BY <1>4, <2>2, <2>3, <2>4, <2>5, <2>6, <2>7, <2>8 DEF Undisturbed
<1>9. s \in lone' => output'[s].part # "waiting" /\ output'[s].part # "sent"
  BY <1>4
<1>10. lone' \subseteq Slots
  BY <1>2 DEF LoneInv
<1>11. ASSUME NEW t \in lone'
       PROVE  /\ t \notin free' /\ output'[t].part # "waiting"
              /\ output'[t].part = "sent" => page'[t] = WholePage /\ flight'[t] = <<>>
              /\ output'[t].part # "sent" => Undisturbed(t)'
  <2>1. CASE t = s
    BY <1>8, <1>9, <1>11, <2>1
  <2>2. CASE t # s
    BY <1>7, <1>11, <2>2
  <2> QED
    BY <2>1, <2>2
<1> QED
  BY <1>5, <1>6, <1>10, <1>11 DEF LoneInv

\* A block changes hands, and no page begins.
LEMMA HandedLone ==
    ASSUME Shape, LoneInv, NEW s \in free,
           output' = [output EXCEPT ![s] = Waiting], free' = free \ {s},
           UNCHANGED <<lone, flight, page, iterator, buf>>
    PROVE  LoneInv'
<1>1. \A t \in Slots : Writing(t)' => Writing(t)
  BY DEF Writing, Shape, Waiting, At
<1>2. \A t \in lone : output'[t] = output[t] /\ t \notin free'
  BY DEF LoneInv, Shape
<1>3. \A t \in lone : Undisturbed(t) => Undisturbed(t)'
  BY <1>1, <1>2 DEF Undisturbed, Continues
<1> QED
  BY <1>2, <1>3 DEF LoneInv

\* The chunk of a block has been acknowledged.
LEMMA AckedLone ==
    ASSUME Shape, RestTypeOK, LoneInv, NEW s \in Slots, Writing(s), WriteOn(s),
           UNCHANGED <<lone, free>>
    PROVE  LoneInv'
<1>1. PICK at \in [part : Parts, list : Lists] : at = output[s]
  BY DEF Shape
<1>2. PICK j : j = iterator[at.list]
  OBVIOUS
<1>3. PICK i : i = IF at.part \in {"open", "row"} THEN MovedOn(at) ELSE iterator[at.list]
  OBVIOUS
<1>4. PICK next \in [part : Parts, list : Lists] : next = Following(at, i) /\ next.part # "waiting"
  BY FollowingType
<1>5. i \in Nat /\ at.list \in Lists
  BY <1>3, MovedOnType DEF RestTypeOK
<1>6. /\ output' = [output EXCEPT ![s] = next]
      /\ iterator' = [iterator EXCEPT ![at.list] = i]
      /\ buf' = IF Buffered(next) THEN Append(Reclaimed(at), Chunk(next, i)) ELSE Reclaimed(at)
      /\ flight' = [flight EXCEPT ![s] =
             IF s \notin lone \/ next.part = "sent" THEN <<>>
             ELSE IF Buffered(next) THEN buf' ELSE <<Chunk(next, i)>>]
      /\ page' = [page EXCEPT ![s] = @ \o flight[s]]
  BY <1>1, <1>3, <1>4 DEF WriteOn
<1>7. /\ \A t \in Slots \ {s} : output'[t] = output[t] /\ page'[t] = page[t] /\ flight'[t] = flight[t]
      /\ output'[s] = next /\ page'[s] = page[s] \o flight[s]
  BY <1>6 DEF Shape, LoneInv
<1>8. page[s] \in Seq(Chunks) /\ flight[s] \in Seq(Chunks) /\ page'[s] \in Seq(Chunks)
  <2>1. page[s] \in Seq(Chunks) /\ flight[s] \in Seq(Chunks)
    BY DEF LoneInv
  <2> QED
    BY <1>7, <2>1, ConcatProperties
<1>9. /\ page' \in [Slots -> Seq(Chunks)]
      /\ \A v \in Seq(Chunks) : [flight EXCEPT ![s] = v] \in [Slots -> Seq(Chunks)]
  BY <1>6, <1>7, <1>8 DEF LoneInv
<1>10. /\ \A t \in lone \ {s} : /\ t \in Slots /\ t \notin free /\ output[t].part = "sent"
                                /\ page[t] = WholePage /\ flight[t] = <<>>
       /\ \A t \in Slots \ lone : page[t] = <<>> /\ flight[t] = <<>>
       /\ lone \subseteq Slots /\ s \notin free
  BY OtherLoneAreSent DEF LoneInv, Writing
<1>11. CASE s \notin lone
  <2>1. flight'[s] = <<>> /\ page'[s] = <<>>
    <3>1. page[s] = <<>> /\ flight[s] = <<>>
      BY <1>10, <1>11
    <3>2. page[s] \o flight[s] = <<>>
      BY <1>8, <3>1, ConcatEmptySeq
    <3> QED
      BY <1>6, <1>7, <1>11, <3>2 DEF LoneInv
  <2>2. page' \in [Slots -> Seq(Chunks)] /\ flight' \in [Slots -> Seq(Chunks)]
    BY <1>6, <1>7, <1>8, <1>11, <2>1 DEF LoneInv
  <2>3. \A t \in Slots \ lone : page'[t] = <<>> /\ flight'[t] = <<>>
    BY <1>7, <1>10, <2>1
  <2>4. \A t \in lone : /\ t \notin free /\ output'[t].part = "sent"
                        /\ page'[t] = WholePage /\ flight'[t] = <<>>
    BY <1>7, <1>10, <1>11
  <2> QED
    BY <1>10, <2>2, <2>3, <2>4 DEF LoneInv
<1>12. CASE s \in lone
  <2>1. Undisturbed(s)
    BY <1>12 DEF LoneInv, Writing
  <2>2. /\ Continues(at) /\ page'[s] = UpTo(at, j)
        /\ buf = IF Buffered(at) THEN flight[s] ELSE <<>>
        /\ \A t \in Slots \ {s} : ~Writing(t)
    BY <1>1, <1>2, <1>7, <2>1 DEF Undisturbed
  <2>3. Reclaimed(at) = <<>>
    BY <2>2 DEF Reclaimed
  <2>4. Chunk(next, i) \in Chunks
    BY <1>4, <1>5, ChunkOfPart
  <2>5. CASE next.part = "sent"
    <3>1. page'[s] = WholePage
      <4>1. next = At("sent", 1) => next.part = "sent" /\ ~GoesOn(at, j, next, i)
        BY <2>5 DEF GoesOn
      <4>2. GoesOn(at, j, next, i) \/ UpTo(at, j) = WholePage
        BY <1>2, <1>3, <1>4, <2>2, PageGoesOn
      <4>3. ~GoesOn(at, j, next, i)
        BY <2>5 DEF GoesOn
      <4> QED
        BY <2>2, <4>2, <4>3
    <3>2. flight' = [flight EXCEPT ![s] = <<>>] /\ flight'[s] = <<>> /\ <<>> \in Seq(Chunks)
      BY <1>6, <2>5 DEF LoneInv
    <3>3. page' \in [Slots -> Seq(Chunks)] /\ flight' \in [Slots -> Seq(Chunks)]
      BY <1>9, <3>2
    <3>4. \A t \in lone : /\ t \notin free /\ output'[t].part = "sent"
                          /\ page'[t] = WholePage /\ flight'[t] = <<>>
      BY <1>7, <1>10, <2>5, <3>1, <3>2
    <3>5. \A t \in Slots \ lone : page'[t] = <<>> /\ flight'[t] = <<>>
      BY <1>7, <1>10, <1>12
    <3> QED
      BY <1>10, <3>3, <3>4, <3>5 DEF LoneInv
  <2>6. CASE next.part # "sent"
    <3>1. GoesOn(at, j, next, i)
      <4>1. GoesOn(at, j, next, i) \/ next = At("sent", 1)
        BY <1>2, <1>3, <1>4, <2>2, PageGoesOn
      <4> QED
        BY <2>6, <4>1, PartsOfThePage
    <3>2. buf' = IF Buffered(next) THEN <<Chunk(next, i)>> ELSE <<>>
      BY <1>6, <2>3
    <3>3. /\ flight' = [flight EXCEPT ![s] = <<Chunk(next, i)>>]
          /\ flight'[s] = <<Chunk(next, i)>> /\ <<Chunk(next, i)>> \in Seq(Chunks)
      <4>1. flight' = [flight EXCEPT ![s] = <<Chunk(next, i)>>]
        BY <1>6, <1>12, <2>6, <3>2
      <4> QED
        BY <2>4, <4>1 DEF LoneInv
    <3>4. page'[s] \o flight'[s] = UpTo(next, i)
      BY <2>2, <3>1, <3>3 DEF GoesOn
    <3>5. PICK m \in Nat : m = iterator'[next.list] /\ (next.part = "row" => m = i /\ m \in 1..Rows[next.list])
      <4>1. iterator' \in [Lists -> Nat] /\ next.list \in Lists
        BY <1>5, <1>6 DEF RestTypeOK
      <4>2. next.part = "row" => next.list = at.list /\ i \in 1..Rows[at.list]
        BY <3>1 DEF GoesOn
      <4>3. iterator'[at.list] = i
        BY <1>5, <1>6 DEF RestTypeOK
      <4> QED
        BY <4>1, <4>2, <4>3
    <3>6. Chunk(next, m) = Chunk(next, i) /\ UpTo(next, m) = UpTo(next, i)
      <4>1. CASE next.part = "row"
        BY <3>5, <4>1
      <4>2. CASE next.part # "row"
        BY <1>5, <3>5, <4>2, ChunkOfPart
      <4> QED
        BY <4>1, <4>2
    <3>7. Continues(output[s])'
      BY <1>4, <1>7, <2>6, <3>1, <3>5 DEF Continues, GoesOn
    <3>8. \A t \in Slots \ {s} : ~Writing(t)'
      BY <1>7, <2>2 DEF Writing
    <3>9. Undisturbed(s)'
      BY <1>7, <3>2, <3>3, <3>4, <3>5, <3>6, <3>7, <3>8 DEF Undisturbed
    <3>10. page' \in [Slots -> Seq(Chunks)] /\ flight' \in [Slots -> Seq(Chunks)]
      BY <1>9, <3>3
    <3>11. \A t \in lone \ {s} : /\ t \notin free /\ output'[t].part = "sent"
                                 /\ page'[t] = WholePage /\ flight'[t] = <<>>
      BY <1>7, <1>10
    <3>12. \A t \in Slots \ lone : page'[t] = <<>> /\ flight'[t] = <<>>
      BY <1>7, <1>10, <1>12
    <3>13. output'[s].part # "waiting" /\ output'[s].part # "sent"
      BY <1>4, <1>7, <2>6
    <3> QED
      BY <1>10, <3>9, <3>10, <3>11, <3>12, <3>13 DEF LoneInv
  <2> QED
    BY <2>5, <2>6
<1> QED
  BY <1>11, <1>12

\* A block is given back.
LEMMA ReleasedLone ==
    ASSUME Shape, LoneInv, NEW c \in Clients, slot[c] \in Slots, Release(c)
    PROVE  LoneInv'
<1>1. PICK s \in Slots : s = slot[c]
  OBVIOUS
<1>2. /\ free' = free \cup {s} /\ lone' = lone \ {s}
      /\ flight' = [flight EXCEPT ![s] = <<>>] /\ page' = [page EXCEPT ![s] = <<>>]
      /\ UNCHANGED <<output, iterator, buf>>
  BY <1>1 DEF Release, state
<1>3. <<>> \in Seq(Chunks)
  OBVIOUS
<1>4. page' \in [Slots -> Seq(Chunks)] /\ flight' \in [Slots -> Seq(Chunks)]
  BY <1>2, <1>3 DEF LoneInv
<1>5. \A t \in Slots \ lone' : page'[t] = <<>> /\ flight'[t] = <<>>
  BY <1>2 DEF LoneInv
<1>6. \A t \in lone' : /\ t \in lone /\ t \in Slots /\ t # s /\ t \notin free'
                       /\ page'[t] = page[t] /\ flight'[t] = flight[t]
  BY <1>2 DEF LoneInv
<1>7. \A t \in Slots : Writing(t)' => Writing(t)
  BY <1>2 DEF Writing
<1>8. \A t \in lone' : Undisturbed(t) => Undisturbed(t)'
  BY <1>2, <1>6, <1>7 DEF Undisturbed, Continues
<1> QED
  BY <1>2, <1>4, <1>5, <1>6, <1>8 DEF LoneInv

\* A chunk is sent again, out of the buffer where it still lies.
LEMMA ResentLone ==
    ASSUME LoneInv, NEW c \in Clients, slot[c] \in Slots, Rexmit(c)
    PROVE  LoneInv'
<1>1. PICK s \in Slots : s = slot[c] /\ Writing(s)
  BY DEF Rexmit
<1>2. UNCHANGED <<page, lone, free, output, iterator, buf>>
  BY DEF Rexmit, pool, history
<1>3. flight' = flight
  <2>1. CASE Buffered(output[s]) /\ s \in lone
    <3>1. buf = flight[s] /\ flight[s] \in Seq(Chunks)
      BY <1>1, <2>1 DEF LoneInv, Undisturbed, Writing
    <3>2. SubSeq(flight[s], 1, Len(flight[s])) = flight[s]
      BY <3>1, SubSeqFull
    <3>3. flight' = [flight EXCEPT ![s] = SubSeq(buf, 1, Len(flight[s]))]
      BY <1>1, <2>1 DEF Rexmit
    <3> QED
      BY <3>1, <3>2, <3>3 DEF LoneInv
  <2>2. CASE ~(Buffered(output[s]) /\ s \in lone)
    BY <1>1, <2>2 DEF Rexmit
  <2> QED
    BY <2>1, <2>2
<1> QED
  BY <1>2, <1>3, SameLone

LEMMA StepLone == IInv /\ RestTypeOK /\ LoneInv /\ [Next]_wvars => LoneInv'
<1> SUFFICES ASSUME IInv, RestTypeOK, LoneInv, [Next]_wvars PROVE LoneInv'
  OBVIOUS
<1>0. Shape /\ \A c \in Clients : link[c] # "none" => slot[c] \in Slots /\ slot[c] \notin free
  BY DEF IInv, Shape, PoolExact, Busy
<1>1. ASSUME NEW c \in Clients, NEW segment \in Segments, Connected(c, segment) PROVE LoneInv'
  <2>1. PICK s \in Slots : s = memb_alloc /\ s \in free /\ free' = free \ {s}
    BY <1>1, ConnectedOutcome
  <2>2. handle_connection(c, s, "method", Waiting, segment)
    BY <1>1, <2>1 DEF Connected
  <2>3. /\ UNCHANGED <<iterator, buf>>
        /\ Begin(s) \/ (output' = [output EXCEPT ![s] = Waiting] /\ UNCHANGED <<lone, flight, page>>)
    BY <2>2, HandledLone
  <2>4. CASE Begin(s)
    BY <1>0, <2>1, <2>3, <2>4, BegunLone
  <2>5. CASE output' = [output EXCEPT ![s] = Waiting] /\ UNCHANGED <<lone, flight, page>>
    BY <1>0, <2>1, <2>3, <2>5, HandedLone
  <2> QED
    BY <2>3, <2>4, <2>5
<1>2. ASSUME NEW c \in Clients, NEW segment \in Segments, NewData(c, segment) PROVE LoneInv'
  <2>1. PICK s \in Slots : s = slot[c] /\ s \notin free /\ free' = free
    BY <1>2, NewDataOutcome
  <2>2. handle_connection(c, s, input[s], output[s], segment) /\ free' = free \ {s}
    BY <1>2, <2>1 DEF NewData
  <2>3. /\ UNCHANGED <<iterator, buf>>
        /\ \/ output[s] = Waiting /\ Begin(s)
           \/ output' = [output EXCEPT ![s] = output[s]] /\ UNCHANGED <<lone, flight, page>>
    BY <2>2, HandledLone
  <2>4. CASE output[s] = Waiting /\ Begin(s)
    BY <1>0, <2>2, <2>3, <2>4, BegunLone
  <2>5. CASE output' = [output EXCEPT ![s] = output[s]] /\ UNCHANGED <<lone, flight, page>>
    <3>1. output' = output
      BY <1>0, <2>5 DEF Shape
    <3> QED
      BY <2>1, <2>3, <2>5, <3>1, SameLone
  <2> QED
    BY <2>3, <2>4, <2>5
<1>3. ASSUME NEW c \in Clients, Acked(c) PROVE LoneInv'
  <2>1. /\ slot[c] \in Slots /\ Writing(slot[c]) /\ WriteOn(slot[c])
        /\ UNCHANGED <<lone, free>>
    BY <1>0, <1>3 DEF Acked, pool
  <2> QED
    BY <1>0, <2>1, AckedLone
<1>4. ASSUME NEW c \in Clients, Release(c), link[c] # "none" PROVE LoneInv'
  BY <1>0, <1>4, ReleasedLone
<1>5. ASSUME NEW c \in Clients, Rexmit(c) PROVE LoneInv'
  <2>1. slot[c] \in Slots
    BY <1>0, <1>5 DEF Rexmit
  <2> QED
    BY <1>5, <2>1, ResentLone
<1>6. ASSUME NEW c \in Clients, Refused(c) PROVE LoneInv'
  BY <1>6, SameLone DEF Refused, pool, state, script, history
<1>7. CASE Tick
  BY <1>7, SameLone DEF Tick, pool, script, history
<1>8. CASE Reboot
  <2>1. page' = [t \in Slots |-> <<>>] /\ flight' = [t \in Slots |-> <<>>] /\ lone' = {}
    BY <1>8 DEF Reboot
  <2> QED
    BY <2>1 DEF LoneInv
<1>9. CASE UNCHANGED wvars
  BY <1>9, SameLone DEF wvars, pool, state, script, history
<1> QED
  BY <1>1, <1>2, <1>3, <1>4, <1>5, <1>6, <1>7, <1>8, <1>9 DEF Next, Poll, Finished, TimedOut, Left

(* A page that no other page overlaps, begun with an empty buffer, says    *)
(* all it has to say once and in order, whatever the number of its lists   *)
(* and of their rows, and whatever is sent twice or gives up meanwhile.    *)
THEOREM LonePageIsAlwaysWhole == Spec => []LonePageWhole
<1>1. IInv /\ [Next]_wvars => IInv'
  BY StepShape, StepPoolExact, StepOwnRequest, StepBufferEmpty DEF IInv
<1>2. LoneInv => LonePageWhole
  BY DEF LoneInv, LonePageWhole
<1> QED
  BY InitIInv, InitRest, InitLone, StepRest, StepLone, <1>1, <1>2, PTL DEF Spec
=============================================================================
