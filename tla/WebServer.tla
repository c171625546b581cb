----------------------------- MODULE WebServer -----------------------------
(***************************************************************************)
(* The web server of the border router (httpd-simple.c, webserver.c): a    *)
(* pool of connection states, a protothread that reads the request and one *)
(* that writes the page, chunk by chunk, from a single static buffer and   *)
(* with static iterators.  Every event of a TCP connection is one call of  *)
(* httpd_appcall and one step.  The TCP stack is external: it has one      *)
(* chunk of a connection in flight at a time, polls a connection that has  *)
(* none, and reports how each one ends.                                    *)
(***************************************************************************)
EXTENDS Integers, Sequences

CONSTANTS Clients,
          Conns,        \* CONNS, the blocks of the pool
          IdleTime,     \* the ticks of CLOCK_SECOND * 10
          Rows,         \* for each list of the page that is shown, its number of rows
          MaxVisits,    \* bound: connections in a behaviour
          MaxSegments,  \* bound: segments that clients send after the first
          MaxFaults     \* bound: retransmissions and reboots

ASSUME WebAssumption ==
    /\ Conns \in Nat \ {0}
    /\ IdleTime \in Nat \ {0}
    /\ Rows \in Seq(Nat) /\ Rows # <<>>
    /\ MaxVisits \in Nat /\ MaxSegments \in Nat /\ MaxFaults \in Nat

VARIABLES link,      \* external: each client's connection: none, open, or closing once the
                     \* server has asked for it to be closed
          slot,      \* the appstate of each connection
          free,      \* the blocks of the pool not in use
          input,     \* of each block, what handle_input reads next
          output,    \* of each block, where handle_output is; waiting in STATE_WAITING
          age,       \* of each block, the ticks since its timer was restarted
          iterator,  \* nbr, r and link: the row each list is at, NoRow for NULL
          buf,       \* the page buffer, as much of it as blen counts
          flight,    \* external: of each block, the chunk not yet acknowledged
          heard,     \* history: how far the client's own words make a request
          page,      \* history: of each block, what has been acknowledged of a lone page
          lone,      \* history: the blocks that write a page with nobody else about
          cut,       \* history: a connection has ended and left its chunk in the buffer
          visits, segments, faults   \* how much of the bounds is used

pool    == <<slot, free>>
state   == <<input, output, age>>
script  == <<iterator, buf, flight>>
history == <<heard, page, lone, cut>>
bounds  == <<visits, segments, faults>>
wvars   == <<link, pool, state, script, history, bounds>>

Slots  == 1..Conns
NoSlot == 0
NoRow  == 0
Lists  == 1..Len(Rows)
Parts  == {"waiting", "status", "type", "top", "open", "row", "end", "bottom", "sent"}
At(part, k) == [part |-> part, list |-> k]

Waiting == At("waiting", 1)
Writing(s) == s \notin free /\ output[s].part \notin {"waiting", "sent"}

\* The chunks that are put together in buf; the others are constants.
Buffered(at) == at.part \in {"open", "row", "end"}
Chunk(at, i) == [part |-> at.part, list |-> at.list, row |-> IF at.part = "row" THEN i ELSE NoRow]
-----------------------------------------------------------------------------
Fresh ==
    /\ link = [c \in Clients |-> "none"] /\ slot = [c \in Clients |-> NoSlot]
    /\ free = Slots
    /\ input = [s \in Slots |-> "method"] /\ output = [s \in Slots |-> Waiting]
    /\ age = [s \in Slots |-> 0]
    /\ iterator = [k \in Lists |-> NoRow]
    /\ buf = <<>>
    /\ flight = [s \in Slots |-> <<>>]
    /\ heard = [c \in Clients |-> "method"]
    /\ page = [s \in Slots |-> <<>>] /\ lone = {} /\ cut = FALSE

\* httpd_init, when the process of the router has started the web server.
Init == Fresh /\ visits = 0 /\ segments = 0 /\ faults = 0

(* ---- handle_input ---- *)

\* A request is "GET ", a path and lines that nobody looks at; a segment has
\* up to two words of it that something comes after.
Words    == {"GET", "path", "other", "none"}
Segments == ((Words \ {"none"}) \X {"none"}) \cup {<<"none", "none">>, <<"GET", "path">>}

Read(awaited, word) ==
    CASE word = "none" \/ awaited \in {"lines", "refused"} -> awaited
      [] awaited = "method" /\ word = "GET" -> "path"
      [] awaited = "path" /\ word = "path"  -> "lines"
      [] OTHER -> "refused"

Parsed(awaited, segment) == Read(Read(awaited, segment[1]), segment[2])

(* ---- handle_output and generate_routes ---- *)

\* Slips: the loop starts at the second row; it ends one row late.
MovedOnSecond(at) ==
    LET i == IF at.part = "open" THEN 2
             ELSE IF iterator[at.list] = NoRow THEN Rows[at.list] + 1
             ELSE iterator[at.list] + 1
    IN  IF i > Rows[at.list] THEN NoRow ELSE i
MovedOnLate(at) ==
    LET i == IF at.part = "open" THEN 1
             ELSE IF iterator[at.list] = NoRow THEN Rows[at.list] + 1
             ELSE iterator[at.list] + 1
    IN  IF i > Rows[at.list] + 1 THEN NoRow ELSE i

\* nbr_head, nbr_next and their like; the next of NULL is NULL.
MovedOn(at) ==
    LET i == IF at.part = "open" THEN 1
             ELSE IF iterator[at.list] = NoRow THEN Rows[at.list] + 1
             ELSE iterator[at.list] + 1
    IN  IF i > Rows[at.list] THEN NoRow ELSE i

Following(at, i) ==
    CASE at.part = "status" -> At("type", 1)
      [] at.part = "type"   -> At("top", 1)
      [] at.part = "top"    -> At("open", 1)
      [] at.part \in {"open", "row"} -> At(IF i = NoRow THEN "end" ELSE "row", at.list)
      [] at.part = "end"    -> IF at.list < Len(Rows) THEN At("open", at.list + 1)
                               ELSE At("bottom", 1)
      [] OTHER -> At("sent", 1)

\* A slip: no blen = 0 after the end of a list.
ReclaimedLate(at) == IF Buffered(at) /\ at.part # "end" THEN <<>> ELSE buf

\* The blen = 0 of SEND, once the chunk is acknowledged.
Reclaimed(at) == IF Buffered(at) THEN <<>> ELSE buf

\* The page of a connection whose chunk has been acknowledged: the loop moves
\* on, and the next chunk is sent; one that is put together with ADD goes out
\* with whatever else is in the buffer.
WriteOn(s) ==
    LET at   == output[s]
        i    == IF at.part \in {"open", "row"} THEN MovedOn(at) ELSE iterator[at.list]
        next == Following(at, i)
        rest == Reclaimed(at)
    IN  /\ output' = [output EXCEPT ![s] = next]
        /\ iterator' = [iterator EXCEPT ![at.list] = i]
        /\ buf' = IF Buffered(next) THEN Append(rest, Chunk(next, i)) ELSE rest
        /\ flight' = [flight EXCEPT ![s] =
               IF s \notin lone \/ next.part = "sent" THEN <<>>
               ELSE IF Buffered(next) THEN buf' ELSE <<Chunk(next, i)>>]
        /\ page' = [page EXCEPT ![s] = @ \o flight[s]]

\* STATE_OUTPUT, and the first chunk, of a page the block s begins.
Others(s) == {t \in Slots \ {s} : Writing(t)}

Begin(s) ==
    LET alone == Others(s) = {} /\ buf = <<>> IN
    /\ output' = [output EXCEPT ![s] = At("status", 1)]
    /\ lone' = (lone \ Others(s)) \cup (IF alone THEN {s} ELSE {})
    /\ flight' = [t \in Slots |-> IF t = s /\ alone THEN <<Chunk(At("status", 1), NoRow)>>
                                  ELSE IF t \in Others(s) THEN <<>> ELSE flight[t]]
    /\ page' = [t \in Slots |-> IF t \in Others(s) THEN <<>> ELSE page[t]]

\* handle_connection, for a block that awaits a word and is at a part of the
\* page.  A request that is not one closes the connection and PT_EXITs, which
\* rewinds handle_input.
handle_connection(c, s, awaited, at, segment) ==
    LET after == Parsed(awaited, segment) IN
    /\ input' = [input EXCEPT ![s] = IF after = "refused" THEN "method" ELSE after]
    /\ link' = [link EXCEPT ![c] = IF after = "refused" THEN "closing" ELSE "open"]
    /\ IF after = "lines" /\ at = Waiting
       THEN Begin(s)
       ELSE output' = [output EXCEPT ![s] = at] /\ UNCHANGED <<lone, flight, page>>
    /\ UNCHANGED <<iterator, buf>>

(* ---- httpd_appcall, by the event ---- *)

\* memb_alloc, which knows nothing but which blocks are free.
memb_alloc == CHOOSE s \in free : TRUE

\* A slip: a block is handed out as its last owner left it.
ConnectedStale(c, segment) ==
    /\ link[c] = "none" /\ visits < MaxVisits /\ visits' = visits + 1
    /\ free # {}
    /\ LET s == memb_alloc IN
          /\ slot' = [slot EXCEPT ![c] = s] /\ free' = free \ {s}
          /\ age' = [age EXCEPT ![s] = 0]
          /\ handle_connection(c, s, input[s], output[s], segment)
    /\ heard' = [heard EXCEPT ![c] = Parsed("method", segment)]
    /\ UNCHANGED <<cut, segments, faults>>

Connected(c, segment) ==
    /\ link[c] = "none" /\ visits < MaxVisits /\ visits' = visits + 1
    /\ free # {}
    /\ LET s == memb_alloc IN
          /\ slot' = [slot EXCEPT ![c] = s] /\ free' = free \ {s}
          /\ age' = [age EXCEPT ![s] = 0]
          /\ handle_connection(c, s, "method", Waiting, segment)
    /\ heard' = [heard EXCEPT ![c] = Parsed("method", segment)]
    /\ UNCHANGED <<cut, segments, faults>>

\* No block: uip_abort, after which the stack says no more of the connection.
Refused(c) ==
    /\ link[c] = "none" /\ visits < MaxVisits /\ visits' = visits + 1
    /\ free = {}
    /\ UNCHANGED <<link, pool, state, script, history, segments, faults>>

NewData(c, segment) ==
    LET s == slot[c] IN
    /\ link[c] = "open" /\ segments < MaxSegments /\ segments' = segments + 1
    /\ age' = [age EXCEPT ![s] = 0]
    /\ handle_connection(c, s, input[s], output[s], segment)
    /\ heard' = [heard EXCEPT ![c] = Parsed(heard[c], segment)]
    /\ UNCHANGED <<pool, cut, visits, faults>>

\* The end of the page is PSOCK_CLOSE.
Acked(c) ==
    LET s == slot[c] IN
    /\ link[c] = "open" /\ Writing(s)
    /\ age' = [age EXCEPT ![s] = 0]
    /\ WriteOn(s)
    /\ link' = [link EXCEPT ![c] = IF output'[s].part = "sent" THEN "closing" ELSE "open"]
    /\ cut' = (cut /\ ~Buffered(output[s]))
    /\ UNCHANGED <<pool, input, heard, lone, bounds>>

\* psock_send reads a chunk again where it read it first, as long as it was.
Rexmit(c) ==
    LET s == slot[c] IN
    /\ link[c] = "open" /\ Writing(s) /\ faults < MaxFaults /\ faults' = faults + 1
    /\ age' = [age EXCEPT ![s] = 0]
    /\ flight' = IF Buffered(output[s]) /\ s \in lone
                 THEN [flight EXCEPT ![s] = SubSeq(buf, 1, Len(@))]
                 ELSE flight
    /\ UNCHANGED <<link, pool, input, output, iterator, buf, history, visits, segments>>

\* A slip: the block is not given back.
ReleaseKeepsBlock(c) ==
    /\ slot' = [slot EXCEPT ![c] = NoSlot]
    /\ link' = [link EXCEPT ![c] = "none"]
    /\ heard' = [heard EXCEPT ![c] = "method"]
    /\ flight' = [flight EXCEPT ![slot[c]] = <<>>]
    /\ page' = [page EXCEPT ![slot[c]] = <<>>] /\ lone' = lone \ {slot[c]}
    /\ cut' = (cut \/ (Writing(slot[c]) /\ Buffered(output[slot[c]])))
    /\ UNCHANGED <<free, state, iterator, buf, bounds>>

\* memb_free, and no more events of the connection.
Release(c) ==
    /\ slot' = [slot EXCEPT ![c] = NoSlot] /\ free' = free \cup {slot[c]}
    /\ link' = [link EXCEPT ![c] = "none"]
    /\ heard' = [heard EXCEPT ![c] = "method"]
    /\ flight' = [flight EXCEPT ![slot[c]] = <<>>]
    /\ page' = [page EXCEPT ![slot[c]] = <<>>] /\ lone' = lone \ {slot[c]}
    /\ cut' = (cut \/ (Writing(slot[c]) /\ Buffered(output[slot[c]])))
    /\ UNCHANGED <<state, iterator, buf, bounds>>

\* A slip: any poll restarts the timer.
PollRestarts(c) ==
    /\ link[c] = "open" /\ output[slot[c]] = Waiting /\ age[slot[c]] > 0
    /\ age' = [age EXCEPT ![slot[c]] = 0]
    /\ UNCHANGED <<link, pool, input, output, script, history, bounds>>

\* A poll that finds the timer expired; another one changes nothing.  The
\* handle_connection that follows works on the block just freed: there is
\* no data and no page, so it changes nothing either.
Poll(c) ==
    /\ link[c] = "open" /\ output[slot[c]] = Waiting
    /\ age[slot[c]] >= IdleTime
    /\ Release(c)

\* uip_closed, uip_aborted, uip_timedout: the server's own close is done; the
\* chunk in flight was sent often enough; the client leaves.
Finished(c) == link[c] = "closing" /\ Release(c)
TimedOut(c) == link[c] = "open" /\ Writing(slot[c]) /\ Release(c)
Left(c)     == link[c] = "open" /\ Release(c)

\* The timers that somebody will look at, as far as it matters to him.
Tick ==
    LET running == {s \in Slots \ free : output[s] = Waiting /\ age[s] < IdleTime} IN
    /\ running # {}
    /\ age' = [s \in Slots |-> IF s \in running THEN age[s] + 1 ELSE age[s]]
    /\ UNCHANGED <<link, pool, input, output, script, history, bounds>>

Reboot ==
    /\ faults < MaxFaults /\ faults' = faults + 1
    /\ link' = [c \in Clients |-> "none"] /\ slot' = [c \in Clients |-> NoSlot]
    /\ free' = Slots
    /\ input' = [s \in Slots |-> "method"] /\ output' = [s \in Slots |-> Waiting]
    /\ age' = [s \in Slots |-> 0]
    /\ iterator' = [k \in Lists |-> NoRow]
    /\ buf' = <<>>
    /\ flight' = [s \in Slots |-> <<>>]
    /\ heard' = [c \in Clients |-> "method"]
    /\ page' = [s \in Slots |-> <<>>] /\ lone' = {} /\ cut' = FALSE
    /\ UNCHANGED <<visits, segments>>
-----------------------------------------------------------------------------
Next ==
    \/ \E c \in Clients :
          \/ \E segment \in Segments : Connected(c, segment) \/ NewData(c, segment)
          \/ Refused(c) \/ Acked(c) \/ Rexmit(c)
          \/ Poll(c) \/ Finished(c) \/ TimedOut(c) \/ Left(c)
    \/ Tick \/ Reboot

\* Time passes, the stack polls, and it either has a chunk acknowledged or
\* gives the connection up; nothing makes a client speak or leave.
Fairness ==
    /\ WF_wvars(Tick)
    /\ \A c \in Clients :
          /\ WF_wvars(Poll(c)) /\ WF_wvars(Finished(c))
          /\ WF_wvars(Acked(c) \/ TimedOut(c))

Spec == Init /\ [][Next]_wvars /\ Fairness
-----------------------------------------------------------------------------
Busy == {c \in Clients : link[c] # "none"}

TypeOK ==
    /\ link \in [Clients -> {"none", "open", "closing"}]
    /\ slot \in [Clients -> Slots \cup {NoSlot}] /\ free \subseteq Slots
    /\ input \in [Slots -> {"method", "path", "lines"}]
    /\ output \in [Slots -> [part : Parts, list : Lists]]
    /\ age \in [Slots -> 0..IdleTime]
    /\ \A k \in Lists : iterator[k] \in 0..Rows[k]
    /\ heard \in [Clients -> {"method", "path", "lines", "refused"}]
    /\ lone \subseteq Slots /\ cut \in BOOLEAN
    /\ visits \in 0..MaxVisits /\ segments \in 0..MaxSegments /\ faults \in 0..MaxFaults

(* Every block of the pool is free or belongs to exactly one connection,   *)
(* whichever of its five ends a connection comes to: none is lost, and     *)
(* none is handed to a client while another still uses it.                 *)
PoolExact ==
    /\ \A c \in Clients : slot[c] # NoSlot <=> c \in Busy
    /\ free = Slots \ {slot[c] : c \in Busy}
    /\ \A c, d \in Busy : slot[c] = slot[d] => c = d

(* A client is served by its own words only: whatever the last owner of    *)
(* its block was doing, the page begins after this client's whole request, *)
(* and at once.                                                            *)
OwnRequest ==
    \A c \in Clients : link[c] = "open" =>
        /\ input[slot[c]] = heard[c]
        /\ output[slot[c]] # Waiting <=> heard[c] = "lines"

(* The page, by its definition.                                            *)
Listing(k) ==
    <<Chunk(At("open", k), NoRow)>> \o [i \in 1..Rows[k] |-> Chunk(At("row", k), i)]
        \o <<Chunk(At("end", k), NoRow)>>

WholePage ==
    LET lists[k \in 0..Len(Rows)] == IF k = 0 THEN <<>> ELSE lists[k - 1] \o Listing(k)
    IN  <<Chunk(At("status", 1), NoRow), Chunk(At("type", 1), NoRow), Chunk(At("top", 1), NoRow)>>
            \o lists[Len(Rows)] \o <<Chunk(At("bottom", 1), NoRow)>>

(* "Multiple connections can result in interleaved tcp segments"           *)
(* (webserver.c:56), but a page that nobody else's overlaps, begun with an *)
(* empty buffer, lists every row once and in order, chunks that were sent  *)
(* twice and connections that only wait included.                          *)
LonePageWhole ==
    \A s \in lone : output[s].part = "sent" => page[s] = WholePage

(* The buffer that outlives the pages holds nothing between two of them,   *)
(* unless a connection has ended and left its chunk in it; then the next   *)
(* chunk that goes through the buffer takes it along, and it is empty.     *)
BufferEmptyBetweenPages ==
    buf # <<>> => cut \/ \E s \in Slots : Writing(s) /\ Buffered(output[s])

(* No client keeps a block for good by falling silent, half-way through    *)
(* its request or through its page.                                        *)
BlocksComeBack ==
    \A c \in Clients : slot[c] # NoSlot ~> slot[c] = NoSlot
=============================================================================
