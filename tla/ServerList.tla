----------------------------- MODULE ServerList -----------------------------
(***************************************************************************)
(* The server list of qstat.c and the address hash beside it: the heap     *)
(* objects made by add_qserver and add_qserver_byaddr, linked through      *)
(* next/prev and the global pointers `servers' and `last_server', indexed  *)
(* by address in server_hash, given back by free_server and walked by      *)
(* finish_output.                                                          *)
(*                                                                         *)
(* A struct qserver is a number: calloc hands out 1, 2, 3, ... and a       *)
(* number is never handed out twice, so a pointer to freed memory stays    *)
(* recognisable.  0 is NULL.  `last_server' points at the next field of a  *)
(* server, or at `servers': it is that server, or 0.                       *)
(*                                                                         *)
(* The process runs main's phases: "args" (the command line and -f files   *)
(* become servers), "work" (do_work adds and frees servers, in an order    *)
(* the network decides; Scheduler.tla says when), "finish"                 *)
(* (finish_output) and "done".                                             *)
(***************************************************************************)
EXTENDS Naturals, Sequences, FiniteSets

CONSTANTS
  CmdLines,     \* set of command lines; each a sequence of Args
  Discovered,   \* <<ip, port, type>> that masters and broadcasts report
  GamePorts,    \* ports a reply may move a server to
  Types,        \* server types
  MaxIp,        \* addresses are 0..MaxIp; 0 is one that did not resolve
  MaxPort,      \* largest unsigned short
  UIntMax,      \* largest unsigned int
  HashLength,   \* ADDRESS_HASH_LENGTH
  MaxServers,   \* bound on the structs allocated
  Options,      \* the options qstat may be started with, see OptionSets
  ShowGamePort, \* show_game_port
  RunTimeout    \* is run_timeout set?

Ids   == 1 .. MaxServers
Ptrs  == 0 .. MaxServers
Ips   == 0 .. MaxIp
Ports == 0 .. MaxPort

\* What add_qserver parses out of an argument: address, port range and type.
Args == [ip : Ips, lo : Ports, hi : Ports, type : Types]

\* noserverdups, cleared by -allowserverdups; server_sort: "none", "listed"
\* (-sort l) or "keys".
OptionSets == [noserverdups : BOOLEAN, sort : {"none", "listed", "keys"}]

ASSUME ServerListAssumption ==
  /\ MaxIp \in Nat /\ MaxPort \in Nat /\ UIntMax \in Nat
  /\ Types # {} /\ MaxServers \in Nat /\ HashLength \in Nat \ {0}
  /\ CmdLines \subseteq Seq(Args)
  /\ Discovered \subseteq Ips \X Ports \X Types
  /\ GamePorts \subseteq Ports
  /\ Options \subseteq OptionSets
  /\ ShowGamePort \in BOOLEAN /\ RunTimeout \in BOOLEAN

\* Name lookup of a port range fails, and the range has several ports.
UnresolvedRange(a) == a.ip = 0 /\ a.lo # 0 /\ a.lo < a.hi

VARIABLES
  options,             \* the options of this start
  phase, cmdline,      \* main's progress; the arguments not yet added
  adding,              \* add_qserver's loop: its argument, port and node
  live, count,         \* structs allocated and not freed; structs allocated
  ip, port, orig, type,                \* fields of each struct qserver
  servers, lastServer, next, prev,     \* the list
  hash,                                \* server_hash: buckets of pointers
  firstBind, lastBind,                 \* first_server_bind, last_server_bind
  numServers, numTotal,                \* num_servers, num_servers_total
  cursor, array,       \* finish_output's walk and its sort array
  shown                \* how often display_server ran for each server

fields == <<ip, port, orig, type>>
list   == <<servers, lastServer, next, prev>>
binds  == <<firstBind, lastBind>>
finish == <<cursor, array, shown>>
vars   == <<options, phase, cmdline, adding, live, count, fields, list, hash, binds,
            numServers, numTotal, finish>>

AnyType == CHOOSE t \in Types : TRUE
NoServerDups == options.noserverdups
Sort == options.sort

Idle == [on |-> FALSE, port |-> 0, node |-> 0,
         arg |-> [ip |-> 0, lo |-> 0, hi |-> 0, type |-> AnyType]]

InitList ==
  /\ options \in Options
  /\ phase = "args" /\ cmdline \in CmdLines /\ adding = Idle
  /\ live = {} /\ count = 0
  /\ ip = [s \in Ids |-> 0] /\ port = [s \in Ids |-> 0]
  /\ orig = [s \in Ids |-> 0] /\ type = [s \in Ids |-> AnyType]
  /\ servers = 0 /\ lastServer = 0
  /\ next = [s \in Ids |-> 0] /\ prev = [s \in Ids |-> 0]
  /\ hash = [b \in 0 .. HashLength - 1 |-> <<>>]
  /\ firstBind = 0 /\ lastBind = 0
  /\ numServers = 0 /\ numTotal = 0
  /\ cursor = 0 /\ array = <<>> /\ shown = [s \in Ids |-> 0]

-----------------------------------------------------------------------------
\* The address hash.

Bucket(a, p) == (a + p) % HashLength

Matches(a, p) ==
  LET b == hash[Bucket(a, p)]
  IN  {i \in DOMAIN b : b[i] # 0 /\ ip[b[i]] = a /\ port[b[i]] = p}

\* find_server_by_address: the first match in the bucket, NULL if none.
FindServerByAddress(a, p) ==
  LET m == Matches(a, p)
  IN  IF m = {} THEN 0
      ELSE hash[Bucket(a, p)][CHOOSE i \in m : \A j \in m : i <= j]

AddServerToHash(s, a, p) ==
  hash' = [hash EXCEPT ![Bucket(a, p)] = Append(@, s)]

\* Mutant: the bucket of the current port is searched.
RemoveByPort(s) ==
  LET h == Bucket(ip[s], port[s])
  IN  hash' = [hash EXCEPT ![h] = [i \in DOMAIN @ |-> IF @[i] = s THEN 0 ELSE @[i]]]

\* Mutant: the first entry with the same address is cleared.
RemoveByAddress(s) ==
  LET h == Bucket(ip[s], orig[s])
      b == hash[h]
      Same(i) == b[i] # 0 /\ ip[b[i]] = ip[s] /\ orig[b[i]] = orig[s]
      cleared == [i \in DOMAIN b |->
                    IF Same(i) /\ \A j \in 1 .. i - 1 : ~Same(j) THEN 0 ELSE b[i]]
  IN  hash' = [hash EXCEPT ![h] = cleared]

\* The bucket is the one of orig_port; only the first entry is cleared.
RemoveServerFromHash(s) ==
  LET h == Bucket(ip[s], orig[s])
      b == hash[h]
      cleared == [i \in DOMAIN b |->
                    IF b[i] = s /\ \A j \in 1 .. i - 1 : b[j] # s THEN 0 ELSE b[i]]
  IN  hash' = [hash EXCEPT ![h] = cleared]

-----------------------------------------------------------------------------
\* Linking and unlinking.

\* The lines that append a struct at *last_server.
Link(s) ==
  /\ prev' = IF lastServer = 0 THEN prev ELSE [prev EXCEPT ![s] = lastServer]
  /\ next' = IF lastServer = 0 THEN next ELSE [next EXCEPT ![lastServer] = s]
  /\ servers' = IF lastServer = 0 THEN s ELSE servers
  /\ lastServer' = s

SetFields(s, a, p, t) ==
  /\ ip' = [ip EXCEPT ![s] = a] /\ type' = [type EXCEPT ![s] = t]
  /\ port' = [port EXCEPT ![s] = p] /\ orig' = [orig EXCEPT ![s] = p]

\* A new struct with a resolved address: linked, hashed and counted.
Register(s, a, p, t) ==
  /\ s = count + 1 /\ s \in Ids
  /\ count' = s /\ live' = live \cup {s}
  /\ SetFields(s, a, p, t) /\ Link(s) /\ AddServerToHash(s, a, p)
  /\ numTotal' = numTotal + 1
  /\ numServers' = (numServers + 1) % (UIntMax + 1)

\* Mutants: free_server forgets last_server, the bind cursors, or the head.
UnlinkForgets(s, what) ==
  /\ servers' = IF servers = s /\ what # "head" THEN next[s] ELSE servers
  /\ lastServer' = IF lastServer = s /\ what # "last" THEN prev[s] ELSE lastServer
  /\ firstBind' = IF firstBind = s /\ what # "binds" THEN next[s] ELSE firstBind
  /\ lastBind' = IF lastBind = s /\ what # "binds" THEN next[s] ELSE lastBind
  /\ next' = IF prev[s] # 0 THEN [next EXCEPT ![prev[s]] = next[s]] ELSE next
  /\ prev' = IF next[s] # 0 THEN [prev EXCEPT ![next[s]] = prev[s]] ELSE prev
  /\ RemoveServerFromHash(s)
  /\ live' = live \ {s}
  /\ numServers' = IF numServers = 0 THEN UIntMax ELSE numServers - 1

UnlinkForgetsLast(s) == UnlinkForgets(s, "last")
UnlinkForgetsBinds(s) == UnlinkForgets(s, "binds")
UnlinkForgetsHead(s) == UnlinkForgets(s, "head")

\* free_server, in its order: the head first, then last_server, the two bind
\* cursors, the neighbours and the hash.
Unlink(s) ==
  LET head  == IF servers = s THEN next[s] ELSE servers
      prev1 == IF servers = s /\ head # 0 THEN [prev EXCEPT ![head] = 0] ELSE prev
      next1 == IF prev1[s] # 0 THEN [next EXCEPT ![prev1[s]] = next[s]] ELSE next
  IN  /\ servers' = head
      /\ lastServer' = IF lastServer = s THEN prev1[s] ELSE lastServer
      /\ firstBind' = IF firstBind = s THEN next[s] ELSE firstBind
      /\ lastBind' = IF lastBind = s THEN next[s] ELSE lastBind
      /\ next' = next1
      /\ prev' = IF next1[s] # 0 THEN [prev1 EXCEPT ![next1[s]] = prev1[s]] ELSE prev1
      /\ RemoveServerFromHash(s)
      /\ live' = live \ {s}
      /\ numServers' = IF numServers = 0 THEN UIntMax ELSE numServers - 1

\* Mutant: the server is printed and not freed.
DisplayOnly(s) ==
  /\ shown' = [shown EXCEPT ![s] = @ + 1]
  /\ UNCHANGED <<live, count, fields, list, hash, binds, numServers, numTotal>>

\* display_server: the server is printed, then freed.
DisplayServer(s) ==
  /\ shown' = [shown EXCEPT ![s] = @ + 1]
  /\ Unlink(s)
  /\ UNCHANGED <<count, fields, numTotal>>

-----------------------------------------------------------------------------
\* Phase "args": add_file and main call add_qserver once per argument.

\* add_qserver up to its loop over the ports of the range.
ParseArg ==
  /\ phase = "args" /\ ~adding.on /\ cmdline # <<>>
  /\ adding' = [on |-> TRUE, port |-> Head(cmdline).lo, node |-> 0, arg |-> Head(cmdline)]
  /\ cmdline' = Tail(cmdline)
  /\ UNCHANGED <<options, phase, live, count, fields, list, hash, binds,
                 numServers, numTotal, finish>>

\* Mutants: the last port is left out; no test for the wrap to port 0.
InRangeShort == adding.on /\ adding.port < adding.arg.hi /\ adding.port # 0
InRangeWraps == adding.on /\ adding.port <= adding.arg.hi

InRange == adding.on /\ adding.port <= adding.arg.hi /\ adding.port # 0

\* Mutant: the port counts past the largest unsigned short.
NextPortWide == adding.port + 1

\* ++port on an unsigned short.
NextPort == (adding.port + 1) % (MaxPort + 1)

\* One turn of the loop for a host that did not resolve.  The struct was
\* calloc'd once, before the loop: every turn initialises and links that one.
AddUnresolved ==
  /\ InRange /\ adding.arg.ip = 0
  /\ LET s == IF adding.node = 0 THEN count + 1 ELSE adding.node
     IN  /\ s \in Ids
         /\ count' = IF adding.node = 0 THEN s ELSE count
         /\ live' = live \cup {s}
         /\ SetFields(s, 0, adding.port, adding.arg.type) /\ Link(s)
         /\ adding' = [adding EXCEPT !.port = NextPort, !.node = s]
  /\ numTotal' = numTotal + 1
  /\ UNCHANGED <<options, phase, cmdline, hash, binds, numServers, finish>>

\* Mutant: init_qserver counts a server before the test for duplicates.
AddResolvedCounts ==
  /\ InRange /\ adding.arg.ip # 0
  /\ adding' = [adding EXCEPT !.port = NextPort]
  /\ IF NoServerDups /\ FindServerByAddress(adding.arg.ip, adding.port) # 0
     THEN numTotal' = numTotal + 1 /\ UNCHANGED <<live, count, fields, list, hash, numServers>>
     ELSE Register(count + 1, adding.arg.ip, adding.port, adding.arg.type)
  /\ UNCHANGED <<options, phase, cmdline, binds, finish>>

\* One turn of the loop for a resolved host; a known address is skipped.
AddResolved ==
  /\ InRange /\ adding.arg.ip # 0
  /\ adding' = [adding EXCEPT !.port = NextPort]
  /\ IF NoServerDups /\ FindServerByAddress(adding.arg.ip, adding.port) # 0
     THEN UNCHANGED <<live, count, fields, list, hash, numServers, numTotal>>
     ELSE Register(count + 1, adding.arg.ip, adding.port, adding.arg.type)
  /\ UNCHANGED <<options, phase, cmdline, binds, finish>>

EndArg ==
  /\ adding.on /\ ~InRange
  /\ adding' = Idle
  /\ UNCHANGED <<options, phase, cmdline, live, count, fields, list, hash, binds,
                 numServers, numTotal, finish>>

\* main: do_work, unless no server was added.
StartWork ==
  /\ phase = "args" /\ ~adding.on /\ cmdline = <<>>
  /\ phase' = IF servers = 0 THEN "done" ELSE "work"
  /\ UNCHANGED <<options, cmdline, adding, live, count, fields, list, hash, binds,
                 numServers, numTotal, finish>>

Load == ParseArg \/ AddUnresolved \/ AddResolved \/ EndArg

-----------------------------------------------------------------------------
\* Phase "work".

\* Mutant: the address is not looked up first.
AddByAddrAlways(a, p, t) ==
  /\ phase = "work" /\ a # 0 /\ Register(count + 1, a, p, t)
  /\ UNCHANGED <<options, phase, cmdline, adding, binds, finish>>

\* add_qserver_byaddr: an address from a master or a broadcast reply.
AddByAddr(a, p, t) ==
  /\ phase = "work" /\ a # 0 /\ FindServerByAddress(a, p) = 0
  /\ Register(count + 1, a, p, t)
  /\ UNCHANGED <<options, phase, cmdline, adding, binds, finish>>

\* change_server_port: a reply says which port the game itself uses.
ChangeServerPort(s, p, force) ==
  /\ phase = "work" /\ s \in live /\ ip[s] # 0
  /\ p # 0 /\ p # port[s] /\ (ShowGamePort \/ force)
  /\ port' = [port EXCEPT ![s] = p]
  /\ UNCHANGED <<options, phase, cmdline, adding, live, count, ip, orig, type, list, hash,
                 binds, numServers, numTotal, finish>>

\* A host that was not found has a name from the start and is never bound.
Bindable(s) == s \in live /\ ip[s] # 0

\* bind_sockets and get_next_timeout keep a server to go on from.
RememberBind(s) ==
  /\ phase = "work" /\ s \in live
  /\ \/ lastBind' = s /\ UNCHANGED firstBind
     \/ firstBind' = s /\ UNCHANGED lastBind
  /\ UNCHANGED <<options, phase, cmdline, adding, live, count, fields, list, hash,
                 numServers, numTotal, finish>>

\* cleanup_qserver displays, and so frees, a finished server unless sorting.
CloseServer(s) ==
  /\ phase = "work" /\ Sort = "none" /\ Bindable(s)
  /\ DisplayServer(s)
  /\ UNCHANGED <<options, phase, cmdline, adding, cursor, array>>

-----------------------------------------------------------------------------
\* Phase "finish".

\* do_work returned, or run_timeout struck between two arguments.
StartFinish ==
  /\ \/ phase = "work"
     \/ phase = "args" /\ ~adding.on /\ cmdline # <<>> /\ RunTimeout
  /\ phase' = "finish" /\ cursor' = servers
  /\ UNCHANGED <<options, cmdline, adding, live, count, fields, list, hash, binds,
                 numServers, numTotal, array, shown>>

\* Mutant: the walk of -sort l displays only hosts that were not found.
FinishWalkSkips ==
  /\ phase = "finish" /\ Sort # "keys" /\ cursor # 0
  /\ cursor' = next[cursor]
  /\ IF ip[cursor] = 0
     THEN DisplayServer(cursor)
     ELSE UNCHANGED <<live, count, fields, list, hash, binds, numServers, numTotal, shown>>
  /\ UNCHANGED <<options, phase, cmdline, adding, array>>

\* One turn of a finish_output loop that walks the list and displays.
FinishWalk ==
  /\ phase = "finish" /\ Sort # "keys" /\ cursor # 0
  /\ cursor' = next[cursor]
  /\ IF Sort = "listed" \/ ip[cursor] = 0
     THEN DisplayServer(cursor)
     ELSE UNCHANGED <<live, count, fields, list, hash, binds, numServers, numTotal, shown>>
  /\ UNCHANGED <<options, phase, cmdline, adding, array>>

\* One turn of the loop that fills the sort array.
FillArray ==
  /\ phase = "finish" /\ Sort = "keys" /\ cursor # 0
  /\ array' = Append(array, cursor) /\ cursor' = next[cursor]
  /\ UNCHANGED <<options, phase, cmdline, adding, live, count, fields, list, hash, binds,
                 numServers, numTotal, shown>>

\* One turn of the loop over the sorted array, whose order is any order.
ShowSorted ==
  /\ phase = "finish" /\ Sort = "keys" /\ cursor = 0
  /\ \E i \in DOMAIN array :
       /\ array' = SubSeq(array, 1, i - 1) \o SubSeq(array, i + 1, Len(array))
       /\ DisplayServer(array[i])
  /\ UNCHANGED <<options, phase, cmdline, adding, cursor>>

EndFinish ==
  /\ phase = "finish" /\ cursor = 0 /\ array = <<>>
  /\ phase' = "done"
  /\ UNCHANGED <<options, cmdline, adding, live, count, fields, list, hash, binds,
                 numServers, numTotal, finish>>

Finish == FinishWalk \/ FillArray \/ ShowSorted \/ EndFinish

Done == phase = "done" /\ UNCHANGED vars

-----------------------------------------------------------------------------
Work ==
  \/ \E d \in Discovered : AddByAddr(d[1], d[2], d[3])
  \/ \E s \in Ids, p \in GamePorts, force \in BOOLEAN : ChangeServerPort(s, p, force)
  \/ \E s \in Ids : RememberBind(s) \/ CloseServer(s)

NextList == Load \/ StartWork \/ Work \/ StartFinish \/ Finish \/ Done

\* The program is one sequential process: its own loops go on by themselves.
ListSpec == InitList /\ [][NextList]_vars /\ WF_vars(Load \/ StartWork) /\ WF_vars(Finish)

-----------------------------------------------------------------------------
(***************************************************************************)
(* Properties.                                                             *)
(***************************************************************************)

TypeOK ==
  /\ options \in OptionSets
  /\ phase \in {"args", "work", "finish", "done"}
  /\ cmdline \in Seq(Args)
  /\ adding \in [on : BOOLEAN, arg : Args, port : Ports, node : Ptrs]
  /\ live \subseteq 1 .. count /\ count \in Ptrs
  /\ ip \in [Ids -> Ips] /\ type \in [Ids -> Types]
  /\ port \in [Ids -> Ports] /\ orig \in [Ids -> Ports]
  /\ servers \in Ptrs /\ lastServer \in Ptrs
  /\ next \in [Ids -> Ptrs] /\ prev \in [Ids -> Ptrs]
  /\ hash \in [0 .. HashLength - 1 -> Seq(Ptrs)]
  /\ firstBind \in Ptrs /\ lastBind \in Ptrs
  /\ numServers \in 0 .. UIntMax /\ numTotal \in Nat
  /\ cursor \in Ptrs /\ array \in Seq(Ids) /\ shown \in [Ids -> Nat]

\* t is the live server after (before) s in the order of allocation, or NULL.
After(s, t) ==
  IF t = 0 THEN \A u \in live : u <= s
  ELSE t \in live /\ s < t /\ \A u \in live : u <= s \/ t <= u

Before(s, t) ==
  IF t = 0 THEN \A u \in live : s <= u
  ELSE t \in live /\ t < s /\ \A u \in live : s <= u \/ u <= t

\* The pointers are one doubly linked list of exactly the live servers, in the
\* order they were added, and last_server is its end: whatever free_server
\* takes out of it, first, last, only or middle.
ListWellFormed ==
  /\ After(0, servers)
  /\ \A s \in live : After(s, next[s]) /\ Before(s, prev[s])
  /\ Before(count + 1, lastServer)

\* No pointer the loops keep across a free dangles: the two bind cursors,
\* finish_output's next_server and the servers of its sort array.
CursorsLive ==
  /\ {firstBind, lastBind, cursor} \subseteq live \cup {0}
  /\ \A i \in DOMAIN array : array[i] \in live

\* The hash holds every live resolved server once, in the bucket of the port
\* it was added with, and nothing else: no freed server, although
\* change_server_port moves `port' behind the hash's back.
HashIndexesLive ==
  /\ \A b \in DOMAIN hash : \A i \in DOMAIN hash[b] :
       hash[b][i] # 0 =>
         /\ hash[b][i] \in live /\ ip[hash[b][i]] # 0
         /\ b = Bucket(ip[hash[b][i]], orig[hash[b][i]])
         /\ \A j \in DOMAIN hash[b] : hash[b][j] = hash[b][i] => j = i
  /\ \A s \in live : ip[s] # 0 =>
       \E i \in DOMAIN hash[Bucket(ip[s], orig[s])] : hash[Bucket(ip[s], orig[s])][i] = s

\* A server is displayed, and freed, at most once, and is in memory until then.
ShownOnce ==
  \A s \in 1 .. count : shown[s] = IF s \in live THEN 0 ELSE 1

\* When qstat ends it has shown every server; without -sort, a server that was
\* found but never finished (-timeout) is left out.
FinishShows ==
  phase = "done" => \A s \in live : Sort = "none" /\ ip[s] # 0

\* The sort array is allocated for num_servers_total entries and num_servers_total
\* entries are sorted and displayed: the list has that many servers, no more
\* (the fill overruns) and no fewer (uninitialised entries are displayed).
SortArrayExact ==
  phase = "finish" /\ Sort = "keys" =>
    /\ Len(array) <= numTotal
    /\ cursor = 0 => Len(array) + Cardinality({s \in Ids : shown[s] > 0}) = numTotal

\* An address is not added next to a live server that still uses the port it
\* was added with (add_qserver under -allowserverdups excepted).
NoDuplicateAdd ==
  [][\A s \in live' \ live :
       ip'[s] # 0 /\ (NoServerDups \/ phase = "work") =>
         \A t \in live : ~(ip[t] = ip'[s] /\ port[t] = port'[s] /\ orig[t] = port[t])]_vars

\* When the loop over a port range ends, every port of the range but 0 has its
\* server, the range ending at the largest port included.  (A range that starts
\* at port 0 is not scanned at all.)
RangeRegistered ==
  [][adding.on /\ ~adding'.on /\ adding.arg.lo # 0 =>
       \A p \in (adding.arg.lo .. adding.arg.hi) \ {0} :
         \E s \in live : ip[s] = adding.arg.ip /\ port[s] = p]_vars

\* The loop over a port range ends, although the port is an unsigned short that
\* may be at its largest value, and so does finish_output's walk.
LoopsEnd ==
  /\ phase = "args" ~> phase # "args"
  /\ phase = "finish" ~> phase = "done"

\* The servers as the next pointers give them.
Walk ==
  LET w[s \in Ptrs] == IF s = 0 THEN <<>> ELSE <<s>> \o w[next[s]]
  IN  w[servers]

\* The list and hash implement a registry: see Registry.tla.
Registry == INSTANCE Registry WITH
  Servers <- Ids, registry <- Walk,
  index <- UNION {{hash[b][i] : i \in DOMAIN hash[b]} \ {0} : b \in DOMAIN hash}

ImplementsRegistry == Registry!Spec

-----------------------------------------------------------------------------
(***************************************************************************)
(* What a comment of the source says and the code does not keep.           *)
(***************************************************************************)

\* qstat.c:3990: the test of the port is there "to prevent infinite loop": the
\* next pointers never lead back.
NoLoop == \A s \in live : next[s] = 0 \/ next[s] > s

=============================================================================
