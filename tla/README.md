# qstat in TLA+

qstat asks game servers, and the master servers that list them, for their
status, over UDP or TCP, a few tens at a time, and prints what they answer. It is
one C program with one thread. What is hard in it is not computing but
bookkeeping: one list of servers is walked by several functions that call each
other and free its elements; counters in four functions stand for the sockets that
are open; every datagram may be lost, late, doubled or cut into fragments, and a
handler per protocol has to make one answer of what comes.

The project covers the list, the engine that works through it, the handlers of all 78
types of servers and masters, the host cache and the sorting of what is
displayed. Options, configuration, templates and output are inventory only.

- [Inventory](#inventory)
- [Modules](#modules)
- [Runs](#runs)
- [Fairness](#fairness)
- [Proofs](#proofs)
- [Where the code disagrees with its documents](#where-the-code-disagrees-with-its-documents)
- [Not modelled](#not-modelled)
- [Plan](#plan)

To repeat everything: `tlc -config X.cfg M` for each run below, and `tlapm M.tla` for the proofs in
ServerListProofs, EngineProofs, EngineSafety, CountProofs, RetryProofs, QueriesProofs (some minutes), HostCacheProofs and SortingProofs.

## Inventory

Line numbers are of this commit; `qstat.c` is meant where no file is named.

| part | state | operations | what makes it correct |
|---|---|---|---|
| server list and hash | `servers`, `last_server`, `next`/`prev`, `server_hash`, the cursors `last_server_bind` and `first_server_bind`, `num_servers`, `num_servers_total` | `add_qserver` (3931), `add_qserver_byaddr` (4084), `free_server` (5934), `change_server_port`, `find_server_by_address`, the walks of `finish_output` (3790) | the list is a list after any adds and frees; nothing points at freed memory; every server is displayed once |
| query engine | per server `fd`, `state`, `retry1`, `retry2`, `next_rule`, `next_player_info`, `packet_time1/2`; `connmap`, `connected`, `waiting_for_masters`, the counters of the progress line, `bind_retry` | `do_work` (3090), `bind_sockets` (4664), `bind_qserver`, `connected_qserver`, `send_packets` (4808), `cleanup_qserver` (5661), `process_func_ret`, `add_servers_from_masters` | open sockets are counted and limited; every server is asked as often as `-retry` says, no more; every server ends as answered or given up, and is counted once; the work ends |
| fragment store | `saved_data` of a server; the table of `combine_packets` | `add_packet`, `combine_packets`, `packet_count`, `get_packet_fragment`, `combined_length`, `next_sequence` (packet_manip.c) | fragments make up the reply they were cut from, as soon as all are there |
| handlers | `challenge`, `master_query_tag`, `saved_data`, `master_pkt`, protocol versions, player counts | a query function and a packet function per type, some with a query of rules or players | a server shown as answered has answered what was asked; its players are listed once each; tries are spent as documented; the query ends |
| masters | `master_pkt`, `n_servers`, the paging tag | `deal_with_qwmaster_packet`, eight other packet functions | what a master reported is queried, once, after the masters; no page of its list is left out |
| type table | flags and function pointers (qstat.h) | read only after configuration | |
| options, files | the globals of `main` | `main`, `add_file`, `add_query_param`, `add_qserver_arg` | |
| sorting | | `quicksort`, `server_compare`, `player_compare` | the output is an ordered permutation of the list |
| players, rules | lists of a server | `add_player`, `add_rule`, `players_set_teamname` | |
| configuration | server types added at run time | `qsc_load_config_file` (config.c) | |
| host cache | `hcache`, `n_entry`, `max_entry`, `n_changes`, the file | `hcache_open`, `hcache_lookup_hostname`, `hcache_lookup_ipaddr`, `hcache_write_file` | a name gives the address it was stored with, one entry per address, what was found is in the file afterwards |
| templates, output | | template.c, the display functions, display_json.c, xform.c | |
| md5.c, utils.c, debug.c | | | |

How they work together. `main` fills the list, then calls `do_work`.
`do_work` calls `bind_sockets`, which walks the list from `last_server_bind`, opens
sockets up to `-maxsimultaneous` and sends the first query, then polls, reads what
came into a buffer of packets, and hands the packets to the handler of the
server's type. A handler returns a code, and `process_func_ret` turns that into
a call of `cleanup_qserver`, which may close the server and, when output is not
sorted, displays and frees it at once. When the last master closes, its report is
added to the list and `bind_sockets` is called again, from inside
whatever closed it: a handler, `send_packets` or `bind_sockets` itself.
`send_packets` walks the open sockets and repeats queries or gives up. When
nothing is connected any more, `finish_output` displays what is left.

Hard behaviours: walks of the list nested in each other, with pointers kept
across calls that free; a counter of sockets that four functions change; kernel
calls that fail one at a time (`bind`, `connect`, `send`, the descriptor table
full); TCP connections in progress; retries measured by time and reset by
answers; datagrams lost, late, repeated, reordered; challenges that change;
fragments without totals, with totals of their own each, or numbered by arrival; replies read in pieces whose
handlers ask for the next piece themselves, past the retry counters of the engine. `PROJECT.json` lists the hazards line by line,
with the properties that would catch each. Those with none have a note: the code breaks the property that would catch them, and
the run leaves the case out by name (4532, 4720, 5543: see [Scheduler.cfg](#schedulercfg-scheduler)); the property would have to say what the code does not
promise (an address whose server moved to another port is added again, 4309; players beyond `num_players` are lost in sorting, 11509; a
server whose tries went on challenges is shown as answered, a2s.c:262); or it would look at contents (ventrilo.c's reordered text).

## Modules

```
 Registry  <-- refined by --  ServerList  <-- extends --  Scheduler
                                  ^
             ServerListProofs <- EngineProofs <- EngineSafety <- CountProofs <- RetryProofs
                                 (EngineProofs extends Scheduler as well)

 Packets <-+                  +- A2S <- FL
           +- QServer <-------+- GS3
 TypeTable <-+                +- Streams <- Dialogues
                              +- Quake <- Fragmented      <- Handlers <- GameServers <- Queries <- QueriesProofs
                              +- Unreal
                              +- OneReply
                              +- Masters

 HostCache <- HostCacheProofs      Sorting <- SortingProofs
```

`MCServerList`, `MCScheduler`, `MCQueries`, `MCHostCache` and `MCSorting` hold the small instances.

**Registry** is what the list promises and no more: servers remembered in order, each
once, dropped in any order, found by address only while they are remembered.

**ServerList** is the list with its pointers. A struct is a number, handed out once,
so that a pointer to freed memory is recognisable as one outside `live`. `next`,
`prev`, `head` and `tail` are the C pointers (`tail` is the server whose `next` field
`last_server` points at, 0 for `&servers`); `bucket` is `server_hash`. One action for
each step of `add_qserver`'s loop over a range of ports (`ParseArg`,
`AddUnresolved`, `AddResolved`, `EndArg`), for `add_qserver_byaddr` (`AddByAddr`),
`change_server_port`, the moves of the bind cursors (`RememberBind`), the
display and freeing of a closed server (`CloseServer`) and the steps of
`finish_output`. The environment decides when work closes or moves which server.

**Scheduler** is `do_work` on that list. What interleaves in one thread is its
call stack, so the variable `stack` is one: a frame holds the locals of a running
function, `Top` is the function that runs, `Call` and `Return` are what they say. The walk
of `bind_sockets` is the frame `walk` with the pointer `s`, its waiting loop for TCP
the frames `pass` and `joined`, `cleanup_qserver` the frames `cleanup`, `display`
and `masters`. The kernel and the network choose which system call fails, which
socket is ready and what came; handlers are reduced to what they do to the
engine: one reply and done (`AnswerSingle`), a reply and then rules and players
(`AnswerQ1`, `AnswerQ3`), a master's page (`AnswerMaster`), a broadcast reply that
adds a server (`HandleBroadcast`). A scenario fixes command line, sorting, `-R`, `-P`, the
kinds of failures that may happen, and how many.

It extends `ServerList` and uses its actions. `ListSafety` states the composition: every step of
the engine is a step of the list or leaves it alone.

**Packets** is packet_manip.c. A fragment has the id, index and total its header
gave, and the piece of the reply it carries; `Combine` is `combine_packets` and
tells what it would do: call the handler again with pieces in a certain order, wait, or fail. **TypeTable** is
`builtin_types`: what a type can be sent, its flags, and which functions
query it and read its answer. **QServer** is
one `struct qserver` as a handler sees it: the send functions of qserver.c and qstat.c, the
retry counters, the players, `process_func_ret` as the operator `Fate`.

The handlers are operators from a server and a packet to a server, a return code and
the requests that went out, in modules by what they have in common:

| module | handlers |
|---|---|
| **A2S**, **FL**, **GS3** | a2s.c, fl.c, gs3.c: a challenge, then replies in fragments |
| **Quake** | qstat.c: Quake (rules and players one by one), QuakeWorld, Quake 2, Quake 3 and the games on it |
| **Fragmented** | Half-Life, HL2 and All Seeing Eye in qstat.c, haze.c, ventrilo.c, dirtybomb.c: each its own numbering of fragments |
| **Unreal** | gps.c, gs2.c, Unreal 2003 and Pariah: replies read as they come, and several ways to tell that no more will |
| **Streams** | ksp.c, farmsim.c, crysis.c: HTTP over TCP |
| **Dialogues** | ts2.c, ts3.c, tm.c, bfbc2.c, wic.c, terraria.c, starmade.c, bfris: commands and answers over TCP |
| **OneReply** | Tribes, Tribes 2, Ghost Recon, Raven Shield, Savage, Far Cry, Descent 3, doom3.c, ottd.c, tee.c, tf.c, cube2.c, mumble.c |
| **Masters** | the lists: QuakeWorld, Quake 2 and 3, Half-Life and Steam (paged), Tribes, Tribes 2, Descent 3, Gamespy, doom3.c, ottd.c, tee.c, ut2004.c (a login, then pages) |

**Handlers** dispatches to them through the type table, as the function pointers do.
**GameServers** is the other side (external code): what a server of each type answers, in one piece, in
fragments, pages or chunks, as its handler expects. A message has the fields the
handlers decide by; `bad` is "front" or "behind" in one that is cut in front of what the handler must have or
behind it, and "none" otherwise, as in the type table for a type without a master.

**Queries** puts one server of any type between `send_packets` and the network.
`Handle` delivers any reply to any query asked so far, as often as it likes, or none: loss, delay, repetition
and reordering in one. For TCP it delivers chunks in order, or the end of the
stream. A game server may issue challenges and change them, be guarded by one or not, be
`broken` (players without a challenge), `old` (Gamespy 3 asked as version 4), `short` (rules
cut off), send its total late (`behind`), cut lines in chunks (`chunky`), be `offline`, `unknown` or
`down`, send something else altogether (`odd`) or faulty datagrams (`cut`).

**HostCache** is hcache.c over several runs of the program: the file read line by
line (`ReadLine`), names and addresses looked up and
validated against what the resolver knows, the file written while servers are
added and at the end (`Written`, a line for each entry with an address), and a run that ends, is killed, or is killed while it
writes. A line's names are added one by one (`LineNames`), no name twice and not beyond
the number an entry takes. `room` is the size of the table: when it grows, what is written through a
pointer into the old one may be lost.

**Sorting** is `quicksort` with `qpartition`, as the stack of its calls; a step is a pass of the
partition's loop. `Compare` is `server_compare` or `player_compare` with the keys of `-sort`,
int differences wrapped, and `Taken` what `sort_players` puts into its array.

Scheduler and Queries are two views of the engine: all servers with handlers
reduced to effects, and one server with its handler in full. They do not share
variables; `send_packets` exists in both, as actions on a list in the one and for one
server in the other. Of masters, Scheduler has what happens to
their report, Queries how the report comes about.

## Runs

Every passing run checks one type invariant, and next to it what several steps would
have to go wrong together to violate.

### ServerList.cfg (`serverlist`)

Four command lines, with a range that ends at the largest port and a duplicate,
unresolved hosts before, between and after others, an empty range and one that
starts at port 0; addresses 0 (not found), 1 and 2; ports 0 to 3, where 3 stands
for 65535 and arithmetic wraps; a hash of two buckets, so that servers share one; at most three structs, so that
a first, middle, last and only server can be freed; three addresses that
masters or broadcasts may find at any time; unsorted, sorted by keys and in
listed order, with and without duplicates; `-timeout` may strike.

| property | says |
|---|---|
| `ListWellFormed` | both directions of the list agree, from `servers` to `last_server`, over exactly the live servers, in the order they were added |
| `CursorsLive` | the bind cursors and `finish_output`'s cursor point at live servers |
| `HashIndexesLive` | the hash has exactly the resolved live servers, once, in the bucket they were added to |
| `ShownOnce` | a server is displayed at most once |
| `FinishShows`, `SortArrayExact` | at the end every server was displayed, but for those that `-timeout` cut off unsorted; the array sized by `num_servers_total` gets exactly that many servers |
| `NoDuplicateAdd` | without `-allowserverdups` an address is not added while a server has it, unless that server's port was changed |
| `RangeRegistered` | a range of ports leaves a server for each of its ports |
| `ImplementsRegistry` | the list implements `Registry`, with the walk over `next` for `registry` and the contents of the hash for `index` |
| `LoopsEnd` | the loop over a port range and the walks of `finish_output` end |

Two facts the model shows and no property calls wrong: a range that starts at port
0 is not scanned, since the loop takes its 0 for a wrap-around, and
`last_server_bind` may rest on a host that was not resolved.

### Scheduler.cfg (`scheduler`)

Eleven scenarios of at most three servers on the command line (four structs with what masters and broadcasts
add), two sockets at a time, two tries, two players, a report of one address,
and a budget of replies and descriptor failures per scenario (0 to 4). They pair what
interacts: a server with details and one without, unsorted, with the descriptor table full, or
failing connects; Quake 1 with players and rules and failing sends; TCP with UDP, with
every kind of failure; two TCP servers, sorted; `-syncconnect`; a master and a
game server with `-timeout`; two masters, one of them with several pages; a
broadcast. About 260,000 distinct states.

| property | says |
|---|---|
| `SocketsCounted` | between the calls of `do_work`, `connected` is the number of open sockets, and `connmap` has the connected ones, each at its descriptor |
| `SocketLimit` | `-maxsimultaneous` is kept, also by nested walks |
| `PointersLive` | no function up the call stack, and no buffered packet, is left with a pointer to a freed server |
| `MastersFirst` | game servers wait until the masters are closed |
| `CountedOnce` | each closed server is counted once, as returned or timed out |
| `RetriesBounded`, `GivesUpLast` | a server is never asked more often than `-retry`, and not given up before |
| `NobodyForgotten` | when the work ends by itself, every server that was found is closed |
| `ReportsUsed` | a master is freed only after its report was added |
| `WorkEnds` | `do_work` ends, if sends do not fail for ever |
| `ListSafety` | every step is a step of `ServerList` |

These properties do not hold of every command line; the cases where the code
itself breaks one are left out of the scenarios and have a run of their own, or are
told in the hazards: several TCP servers unsorted (`scheduler_dangling`); descriptors
running out with sorted output (`scheduler_forgotten`); a master that fails to connect, sorted, with several game servers
before it and one after it, where `last_server_bind` moves beyond one that was passed over (qstat.c:4716); descriptors running out three times with a
connection pending, which then nobody waits for (qstat.c:4720); broadcasts with rules or players,
whose sockets are discounted and were never counted
(qstat.c:5543); two masters unsorted, where the first is freed with its report (qstat.c:5718, a known bug, CHANGES.txt:1567); `-syncconnect`
with a connection that fails (`connected` is decremented and was never incremented).
Three sockets would only add servers of the same kinds; two is the least number
at which a limit, a waiting server and two open ones exist together.

### Queries.cfg (`queries`)

Fourteen setups of the protocols that put replies together from several packets behind a challenge or a command: Source servers guarded by a challenge, of the first generation with three
fragments, with players unguarded, with a challenge that changes, with odd packets
and failing sends; 7DFPS of both protocols; Gamespy 4, 4 on an old server, and
3, with up to three fragments; HTTP in three chunks; Crysis. Two tries, three to
six arrivals: six is what a complete answer takes (a challenge, the info, two
fragments each of rules and players), so every setup with fewer fragments has
arrivals left for repeats. Time counts retry intervals, up to the last that any
test tells apart. About 270,000 distinct states.

| property | says |
|---|---|
| `AnsweredMeansAll` | a server closed as answered, with nothing noted as missing, did answer everything asked for |
| `RetriesAreResends` | the retries displayed are repetitions, not answers to challenges |
| `RepliesWhole` | fragments are put together only into the reply they were cut from |
| `FragmentsSuffice` | once every fragment of a reply has come it is read |
| `ChallengeFirst` | what needs a challenge is asked with one that the server issued |
| `QueryEnds` | the query of a server ends, whatever is lost |

Limits of these statements. `AnsweredMeansAll` leaves out a server whose tries are used
up: every challenge received sends a query and spends one, so that enough repeats
close the server, as answered, without a note (a2s.c:76). It
leaves out odd packets and failing sends, which close a server
by force. `RetriesAreResends` is for a2s.c and fl.c: gs3.c gives the try back but
not the retry displayed. `FragmentsSuffice` looks at fragments still kept; the
table of eight incomplete replies does not fill within the bounds. Characters are
signed, as on x86 (it decides a2s.c:485).

### Queries_handlers.cfg (`handlers`)

The same module with setups for every handler in the table, about 140 of them: each type with one reply, asked for
players, with failing sends and faulty datagrams, and for players and rules; each type
that asks in steps, without details, with `-R`, with `-R` and `-P`, and with odd packets; fragments in two and three parts, and
lists of two and three pages with repeats and losses; TCP streams in three chunks; the
dialogues of Teamspeak, Unreal's and Gamespy's masters; servers that are offline, unknown to their host or down. Two to six arrivals: what the
whole answer takes, and where it takes fewer, one or two more. Two players. Masters send datagrams of no known
kind too, a Tribes 2 master its types instead of a list, a Crysis server responses without a text and denials of
access. A send of rules and the one of players behind it fail independently. About 76,000 distinct states.

| property | says |
|---|---|
| `AnsweredMeansAll` | as above; for types with no reply per kind of detail, some reply with the server's name in it was read |
| `TimeoutMeansSilence` | a server closed as timed out never sent a reply that names it |
| `PlayersExact` | a server that answered lists each player once, if they are asked for |
| `PagesWhole` | a list that is asked for page by page has all its pages when it is taken for complete, each behind the one before it and the last one at the end, however often any of them came |
| `QueryEnds` | the query ends: handlers that ask for the next piece themselves do not keep it going |

Left out of these statements, since the code does otherwise:

- A page that comes twice is appended twice (6797): `found` is the sequence of what was appended, and `PagesWhole`
  does not say that a page is there once. Its addresses are refused when they are added for the second time
  (`add_qserver_byaddr`, 4108, `NoDuplicateAdd` of `ServerList.cfg`).
- A datagram of no known kind is read as a page of a Half-Life or Steam master's list (6786).
- Servers that were given up, and connections closed midway, are displayed as
  answered once a name is known.
- A Half-Life 2 server asked for players: a repeated info reply asks for them
  when no try is left, the counter becomes negative, and they are asked for ever (qstat.c:10735, 4897).
- Failed sends of rule and player requests spend no try (qstat.c:5561); failing
  sends come with single-reply types only.
- The Tribes and Tribes 2 masters wait without a retry when the last page is lost; they get lists of one page.
- dirtybomb.c never reads a reply of two packets; it gets one.
- The players of gps.c that come before `numplayers` are dropped; those of Pariah and XMP are listed twice
  (`PlayersExact` does not speak of these types).
- A Descent 3 server whose info reply comes twice is closed by the second, as by an error (`gaveUp`); Tribes 2 does
  not ask for a lost info reply again (`Needed` has its ping reply only); Unreal Tournament 2003 counts the players it
  reads, so that a repeated datagram stands for a missing one: it gets its players in one.

### HostCache.cfg (`hostcache`)

Five names, three of them of one address and one of none, two addresses; a resolver
that knows the addresses of names both ways, and one that has no names for
addresses but aliases for names; a file that is empty, or has addresses with and without names; room for
all entries from the start, as in any run of the code with fewer than a hundred addresses, and the
number of names an entry takes (2 for 5) within reach. Three runs, any of which
may be killed at any step. About 420,000 distinct states.

| property | says |
|---|---|
| `HostCacheTypeOK` | an address has one entry, the names in it differ, and the table has room |
| `AnswersAsResolved` | a lookup answers what the resolver would have, through whatever other names and runs the entry came about |
| `FileKeeps` | what a run was told is in the file after a run that ended, and stays there in later ones |

With a smaller table `FileKeeps` breaks: `hcache_open` keeps a pointer to the entry of
a line while `init_entry` may move the table (hcache.c:136). All three are proved as well,
for tables that do not move, and `AnswersAsResolved` for resolvers of the first kind.

### Sorting.cfg (`sorting`)

Every list of up to four servers of four kinds (equal in one key and not in another, never sent a request,
with more players than an int can subtract) under four key strings, and of up to three players of three
kinds, with and without a team in front, under three; ints of three bits. Also a server that
says it has fewer players than were listed.

| property | says |
|---|---|
| `SortingTypeOK` | whatever the comparison says, the array is a permutation of what was taken, the scans stay in their range, and both sides of a division have elements |
| `EndsSorted` | when `quicksort` has returned the array is in order, if the comparison is an order on the list |

Both are proved for every list, key and int as well.

### Runs that find a disagreement

| run | property | what happens |
|---|---|---|
| `serverlist_range` | `NoLoop` | a port range on a host that was not found links a struct to itself |
| `scheduler_dangling` | `PointersLive` | two TCP servers, unsorted: a freed server stays the start of the waiting loop |
| `scheduler_forgotten` | `NobodyForgotten` | sorted, a server passed over for want of a descriptor is never queried |
| `queries_lowapp` | `FragmentsSuffice` | an application id below 128 selects the wrong fragment format |
| `queries_chunked` | `FragmentsSuffice` | Crysis' chunks are numbered from 1 and counted from 0 |
| `queries_endless` | `QueryEnds` | a first-protocol 7DFPS server asked for rules is tried for ever |

## Fairness

- `ListSpec`: weak fairness of the loading loop and of `StartWork`, and of
  `finish_output`: code that runs to its end by itself. None for adds, frees and port
  changes, which depend on the network.
- `SchedulerSpec`: weak fairness of `Program`, the thread; strong fairness of
  `Clock`, which is enabled only where the thread polls or waits: each of these
  takes time (`poll` with a timeout, the pause between passes over pending
  connections), so a retry interval cannot stay unfinished for ever while the
  thread comes by again and again. No fairness for `Receive`: no server has to answer.
- `QueriesSpec`: weak fairness of `Start`, `SendPackets` and `Tick`, for the
  same reasons; none for `Handle` and `Rotate`.
- `SortingSpec`: weak fairness of the algorithm's step (no property of its runs needs it).
- `HostCacheSpec`: none; only safety is stated.

## Proofs

### The server list

`ServerListProofs` proves, for every value of the constants (any number of
servers, addresses, ports, buckets, command lines):

| theorem | statement |
|---|---|
| `ListInvariant` | `ListSpec => []ListInv` |
| `ListTypes` | `ListSpec => []TypeOK` |
| `ListStaysWellFormed` | `ListSpec => []ListWellFormed` |
| `CursorsNeverDangle` | `ListSpec => []CursorsLive` |
| `DisplayedAtMostOnce` | `ListSpec => []ShownOnce` |
| `HashExact` | `ListSpec => []HashIndexesLive` |

They assume `ServerListAssumption` (the constants have their types) and
`NoUnresolvedRange`: no host that fails to resolve is given with a range of several
ports. The assumption is needed: `serverlist_range` is the loop the code makes of
the list otherwise.

The argument. Structs are numbered as they are handed out and always linked at the
end, so `ListWellFormed` can say of each server by itself that `next` is the least live
server above it and `prev` the greatest below: a list without cycles, over all live
servers, stated and proved without induction over the list. `ListInv`
adds to the four properties what they need to be inductive: `OneTurn` (the loop over ports runs once for
an unresolved host, so that its struct is linked once), `Calloced` (a struct not
yet handed out has null pointers, so that linking it at the tail makes the new tail), `ArrayOrder`
(`finish_output`'s array lists servers in order, all behind the cursor, so that
none is displayed twice and the cursor survives each free) and `NotShown`. `LinkKeeps` and
`UnlinkKeeps` do the pointer surgery once, `UnlinkKeeps` by cases on whether the server is
first, last, both or neither; a lemma per group of actions (`LoadKeeps`, `WorkKeeps`,
`FinishKeeps`) uses them. `HashIndexesLive` is proved on top of `ListInv`: `HashAddKeeps`
and `HashRemoveKeeps` depend on the bucket being that of `orig_port`, which
`change_server_port` leaves alone.

The second half builds on these, under the same assumptions:

| theorem | statement |
|---|---|
| `AllDisplayed` | `ListSpec => []FinishShows` |
| `SortArrayFilled` | `ListSpec => []SortArrayExact` |
| `AddedOnce` | `ListSpec => NoDuplicateAdd` |
| `RangesComplete` | `ListSpec => RangeRegistered` |
| `ListRefinesRegistry` | `ListSpec => ImplementsRegistry` |

`FinishInv` says that a live server is ahead of `finish_output`'s cursor, or in the sort array,
or one that the walk for unresolved hosts passes by (`WalkComplete`), and that
`num_servers_total` counts the structs (`AllCounted`). `ArrayExact` then counts: the array
is an injection into the live servers, onto them when the walk is over, and by
`ShownOnce` the rest of the structs are those displayed. `AddsNoDuplicate` needs `HashIndexesLive`: only
because the hash is exact does a lookup that fails mean that nobody has the address
(`FoundIfThere`). `RangeProgress` is the loop invariant of a port range, with
a case for the port that wraps to 0.

`ListRefinesRegistry` is the refinement: with the walk over `next` for `registry` and the
contents of the hash for `index`, every step of the list is one of the registry (`Add`,
`Drop`) or none (`StepKinds`, `RegistryStep`). `Walk` is a recursive function over addresses. Since `next` only
goes forward (`NextAhead`), the walk ends and is defined (`WalkDefined`), and what it yields is an increasing
sequence of exactly the live servers (`WalkLists`), of which there is only one (`ListsUnique`): so
linking a struct appends it to the walk (`ListsAppend`) and unlinking one takes it out
and leaves the rest (`ListsRemove`).

### The query engine

`EngineProofs` and `EngineSafety` prove, for any number of servers, any command line, any
`-maxsimultaneous` and `-retry`, and any replies and failures:

| theorem | statement |
|---|---|
| `EngineInvariant` | `SchedulerSpec => []EngineInv` |
| `EngineKeepsList` | `SchedulerSpec => ListSafety` |
| `EngineListSound` | `SchedulerSpec => [](ListWellFormed /\ CursorsLive /\ ShownOnce /\ HashIndexesLive)` |
| `PointersStayLive` | `SchedulerSpec => []PointersLive` |
| `EngineRefinesRegistry` | `SchedulerSpec => ImplementsRegistry` |

They assume `SchedulerAssumption` and `SafeFrees`, which names the command lines for which the code
keeps its pointers. With sorted output nothing is freed before `finish_output`, and every scenario is
safe. Unsorted, `FreesSafely` leaves out what makes `bind_sockets` walk on over a server that it, or a
call of its own, has freed:

- a send that may fail: the status query's failure closes and frees the server, and `bind_sockets` then sets
  `last_server_bind` to it (4706-4709);
- TCP types: the waiting loop starts each pass at the first server of the walk (`scheduler_dangling`);
- connections that may fail together with a master: the walk that adds the reported servers may free the one the outer
  walk stands on;
- broadcasts for types that ask for rules or players, or mixed with other addresses: the reply of
  a server whose own packet waits in the buffer closes it.

`GamesReported` says that what masters and broadcasts report is a game server reached over UDP, as the
`master` fields of the type table do. Every scenario of `Scheduler.cfg` satisfies `SafeFrees`.

The argument. A call changes no frame of the stack but its own, so frames are counted
from the bottom (`Frame(d)`) and a step is described once and for all by `StackStep`: the frame on top
returns, goes on as another, or calls (`StackSteps`, one lemma per group of actions). In the same
way `WorkStep` lists the nine things a step can do to sockets, names and structs: ask, map, open,
begin to connect, join, drop, close, free, find (`WorkKinds`). Each part of the invariant
is kept by each of these, and no longer has to be looked at action by action. `EngineInv` has, above `ListInv` and
the types: where servers come from (`Origins`); the one-to-one relation of sockets and `connmap` (`Sockets`);
that a server that is being closed neither connects nor is asked again (`Settled`); that a packet
of it, or a descriptor to be read, is not waiting as well (`BufferedOnce`), for a free would leave
the packet with a dangling pointer; that a server found by a broadcast and not
sorted is shown by the packet that found it (`FoundShown`); where each kind of frame may be
(`StackKnown`); and then the pointers, with a part for each of the two ways the program
works. Sorted (`PointersSorted`), nothing is freed. Unsorted (`PointersFreeing`), a server about to be
freed is in no frame beneath, because `bind_sockets` moves on before it calls `cleanup_qserver`
and counts no connection in progress. `NextAhead`, the list goes forward, makes
`get_next_timeout`'s walk end (`FirstOpenDefined`, an induction by least counterexample), so that
`first_server_bind` is set to a server that is there.

`CountProofs` adds what the engine counts:

| theorem | statement |
|---|---|
| `CountInvariant` | `SchedulerSpec => [](EngineInv /\ CountInv)` |
| `ConnectedExact` | `SchedulerSpec => []SocketsCounted` |
| `NeverTooManyOpen` | `SchedulerSpec => []SocketLimit` |
| `MastersBeforeGames` | `SchedulerSpec => []MastersFirst` |

They assume `Orderly`: `SafeFrees`, and for every scenario `CountsSockets`, under which `connected` is exact.
It leaves out a connection refused under `-syncconnect`, which is taken off `connected` and was never
added (4532), broadcasts for types that ask for rules or players, whose new server binds a socket that
nobody counts (5543), and a send that may fail together with a master, where a cleanup that runs before the server
was counted binds the next ones. Every scenario of `Scheduler.cfg` satisfies `Orderly`.

`CountStep` says what a step does to the open sockets and the counters together: nothing, open one, count
the one whose query was just sent, drop one that did not connect, or end one. Between a status query
and the count of it the walk stands at `Bound`, and `connected` is one too small: `CountInv` says that this is
all, and `BoundAlone` that no walk beneath is at the same place, so that the test against
`-maxsimultaneous` is never one too late. `WaitingInv` says that `waiting_for_masters` is the number of masters
not closed, which needs that no server is cleaned up twice (`CleanupsOnce`): a cleanup begins only of
a server that is not closed, and the ones that run beneath it are of servers that have a name already,
while `send_packets`, which starts one for a server with a name, runs beneath nothing.

`RetryProofs` adds what becomes of one server's tries, name and report:

| theorem | statement |
|---|---|
| `TriesInvariant` | `SchedulerSpec => [](EngineInv /\ CountInv /\ MasterInv /\ TriesInv)` |
| `AskedWithinRetries` | `SchedulerSpec => []RetriesBounded` |
| `EngineTyped` | `SchedulerSpec => []SchedulerTypeOK` |
| `ClosedAreCounted` | `SchedulerSpec => [](~Broadcasts(setup) => CountedOnce)` |
| `GivenUpLast` | `SchedulerSpec => GivesUpLast` |
| `ReportsAreUsed` | `SchedulerSpec => [](Sort # "none" \/ OneMaster => ReportsUsed)` |

They assume `Orderly` too. `Tried` relates what a server was asked to what it has left: without a name, the
queries sent and the tries left come to at most `-retry`, and to exactly `-retry` where no send fails and the server is neither a TCP
one nor a broadcast (`Exact`), unless it is a master that sent a page. That is what makes `retry1` never negative, although
handlers reset it and `send_packets` counts it down in three places: without a name nothing resets it (a master's page adds
one, which the request for the next page takes off again), and with one the
test before each decrement holds. `SpentInv` is the same at the other end: a cleanup called by `send_packets` without an
answer is of a server with no tries left, through all that runs above that cleanup. `GivesUpLast` is the sum of the two.
`NamesInv` says which names a server may have while it is not closed: "TIMEOUT" only from a connection that failed, the
one case that is not counted; so each closing adds one to `returned` or `timedOut`, or is such a failure, which is the equation of
`CountedOnce`. A broadcast is left out: the server it finds is cleaned up once per reply, and so counted more than once.
`ReportsInv` says where the report of a master is while `cleanup_qserver` has it displayed: if there is one master, its
closing is the last, so `add_servers_from_masters` runs on top, and has yet to reach it in the list. With several
masters, unsorted, this is false, as the code frees the first with its report.

`EngineRefinesRegistry` composes the two: the running engine implements the registry as well, although its
functions add, move and free servers while others up the stack walk the list.

### Queries

`QueriesProofs` is about the types whose queries have a challenge, a2s, fls, gs3 and gs4, and the masters
whose list comes in pages, hlm and stm; for any setups, `-retry`, sizes of the fragment table, budgets and numbers of fragments, and whatever
is lost, late, repeated or reordered:

| theorem | statement: `QueriesSpec => []` of |
|---|---|
| `RetriesCounted` | `RetriesAreResends` |
| `RulesVouched` | `ChallengeFirst` |
| `ListsWhole` | `PagesWhole` |
| `SilentTimeouts` | `setup.type \in Types => TimeoutMeansSilence` |
| `AnsweredInFull` | `(setup.type \in Dialogues /\ Speaks(setup) /\ ~gaveUp) \/ setup.type \in GSTypes => AnsweredMeansAll` |
| `RepliesAreWhole` | `setup.type \in Types /\ Numbered(setup) => RepliesWhole` |
| `PiecesSuffice` | `setup.type \in Types /\ Numbered(setup) => FragmentsSuffice` |

`Dialogues` is a2s and fls, `GSTypes` gs3 and gs4, `Types` all four. The theorems assume only the types of the constants. The provisos are inside the formulas,
and are what the code does otherwise:

- a Half-Life or Steam master's datagram of no known kind ("odd") is read as a page (qstat.c:6786), for which `PagesWhole` itself
  leaves such masters out;
- a 7DFPS server of the first protocol tells no details, and is closed as answered without them (fl.c:236): `Speaks`;
- a Half-Life or 7DFPS query that was given up, or ended by a handler's error (`gaveUp`), may have read the
  info only;
- a Source server whose application id has a low byte under 128 is read with the wrong fragment header
  (a2s.c:202, run `queries_lowapp`): `Numbered`. It holds of every other setup.

The argument. Each function of a handler is reduced to a relation between the server it is given and the one it leaves,
so that the invariants never see the handler's text: `InfoAsked`, `MoreAsked`, `Challenged`, `InfoRead` and the like for a2s.c and fl.c.
`Good` is what every outcome of a handler satisfies, and `process_func_ret` (`Fate`) and `send_packets`
keep.

- `DialogueInv` has the counters: `Tries` says that every try spent after the first query is among the retries
  shown, and that these are at most the repeats and renewals; so the retry that a challenge takes back was
  counted before. Every request for details carries a challenge that was issued (`RequestFine`), because
  one is asked for only with a challenge held (`Vouched`), and no server is named before it sent its info (`Unnamed`, `Named`).
- `HeardInv` relates what the server remembers to the replies it read (`Recalls`): it has a name exactly when it
  has read an info, and the have_ bits of rules and players only after their replies. `Fulfilled` says that
  a server closed as answered, with tries left and nothing noted as missing, has read all; `Promised` and `Named`, that as long as
  something is missing `next_rule` keeps it open.
- `PiecesInv` is about the fragments kept. Each is a piece of the reply to the query whose id it has
  (`Cut`), at the index that the piece has, with that reply's total. Of each reply, either it was read, its fragments
  then marked with a total of 0, or one piece is still missing (`Waiting`). The lemmas on `AddPacket` and
  `Combine` say what packet_manip.c makes of such a list: no reply is complete before its last piece comes (`CountedIs`),
  the one that is then is chosen (`ChosenIs`), and its pieces in the order of their indexes are
  the reply (`CombinedIs`), whatever other replies are in pieces at the same time.
- `GSInv` and `GSHeard` are the same for gs3.c, where all fragments have the id of the query and totals are guessed.
  `GSTotalled`: all fragments kept have one total, which is too low only as long as none of the last two pieces has
  come; and then the piece it makes the last is not there. So a total guessed
  too low never completes a reply.
- `PagingInv`, for the masters: all pages before the one to be asked for next, and before any that was asked for and whose reply may
  still come, have been collected (`Preceded`), and the pages collected are in order (`InOrder`, kept by `AppendedInOrder`). The last page
  is appended only behind all others, which makes the list whole.

### The host cache

`HostCacheProofs` proves, for any hosts, addresses, resolvers, files, sizes and number of runs, ended or killed anywhere:

| theorem | statement | provisos |
|---|---|---|
| `CacheTypes` | `HostCacheSpec => []HostCacheTypeOK` | `FilesSound` |
| `LookupsAsResolved` | `HostCacheSpec => []AnswersAsResolved` | `FilesSound`, `Consistent` |
| `AnswersStayOnFile` | `HostCacheSpec => []FileKeeps` | `FilesSound`, `RoomForAll` |

`FilesSound`: the file the first run finds is one that `write_file` wrote (an address has one line, with no name twice); `hcache_open` does not
look for others. `Consistent`: the names the resolver has for an address have that address, and
so has the first file; with other resolvers the two lookups store different answers.
`RoomForAll`: there are fewer addresses than the table has entries at first (100 in the code), since with more of them
the table moves, and `FileKeeps` does not hold.

Names are added by folds, which are recursive functions over a sequence's positions. `FoldDefined` shows by least
elements that they are defined, and `FoldSteps` that a fold makes the steps its text says, one for each element;
`HostnamesAdded`, `LineRead` and `WrittenLines` are what that makes of `add_hostname`'s loop, of a line of the file and of `write_file`.
`TableInv` has the table, the file and the lines still to be read, all `Sound`, and no address both in the table and in a line to
come. `NamesInv` says that every name of an entry resolves to it. `KeepInv` says that what
a run was told, or an earlier run wrote, is in the table or in a line to come, unless the entry is full of other names;
and that the table has nothing that the file lacks until `n_changes` says so, which is why a run without changes need not write.

### Sorting

`SortingProofs` proves, for any servers and players, any keys, and any size of an int:

| theorem | statement |
|---|---|
| `SortingTypes` | `SortingSpec => []SortingTypeOK` |
| `SortingSorts` | `SortingSpec => []EndsSorted` |

They assume `SortingAssumption` (types of the constants) alone. `RangeInv` has the types, a permutation that is composed with
each exchange (`ExchangePermutes`), and `PivotFirst`: before its first exchange a
pass has the pivot in front. Hence the scan from the left stops there
(`CompareSame`: no element is before itself, whatever the keys), hence the last pass never
ends at the end of its range, and the second call always has
fewer elements than the range (`DivideSplits`): this is why quicksort terminates even under an inconsistent
comparison. `OrderInv` adds that two elements are in order or in one range still to be sorted
(`PairsOrdered`), and that what the scans have passed is on its side of the pivot (`ScannedSides`). An
exchange cannot disturb elements outside the first range (`OutsideFirst`), and a division
orders its two sides through the pivot, the one place that needs `Consistent`.

### Model-checked only

- `NobodyForgotten` of Scheduler: that the walks of `bind_sockets` pass every server once it may be asked. It
  would also take a hypothesis for each of the two cases in which they do not.
- `QueryTypeOK` and `PlayersExact`, and, for the types `QueriesProofs` does not treat, `AnsweredMeansAll`,
  `TimeoutMeansSilence`, `RepliesWhole` and `FragmentsSuffice`: each other handler keeps its own
  account of what has come, and would need relations and an invariant of its own.
- Host caches that outgrow their first table, and resolvers whose two lookups disagree.
- Liveness (`LoopsEnd`, `WorkEnds`, `QueryEnds`), as `tlapm` has no rule for fairness.

## Where the code disagrees with its documents

The six runs above each quote a comment or document and show the code do
otherwise; `PROJECT.json` has the lines under `findings`. They were met while writing down
what the code does, and the passing runs leave these cases out by name.

## Not modelled

- Contents of replies: names, maps, rules. A model says that a reply of some kind came, and how many players it has.
- Several virtual servers of one Teamspeak 3 host, and logins; filters and regions in a master's request; ventrilo.c's cipher.
- armyops.c, which displays players; `deal_with_unrealmaster_packet`, which no type uses; `hcache_invalidate` and `hcache_validate`, which nothing calls.
- QuakeWorld replies of no known kind under `-errors`, where the handler returns an error instead of waiting.
- hcache.c: an address of 0.0.0.0 with `-H`; a line of the file with a bare name, which makes
  the name fail without a lookup; lookups of addresses under 64 bits, where `gethostbyaddr` is given a length of 8 and always fails, appear as
  the resolver without names for addresses.
- The poll timeout (`get_next_timeout`): a poll may end at any time.
- `-srcport` ranges: no other state depends on the local port.
- A failing `bind` for a server found by broadcast; a broadcast for Quake without `-R` and `-P`
  (such a server is never closed).
- A challenge of 0 in gs3.c, which looks like none.
- A second complete reply in the same call of `combine_packets`: the handlers search after
  every fragment, so only the reply of the newest one can have become whole. (The handlers
  that raise the totals of older fragments, gs3.c and the HTTP ones, give all of a server's
  fragments the same id.)
- Option parsing, files of servers and the configuration files: one pass over strings before anything is queried, whose results are
  the constants here. Templates, display, xform.c's colours, JSON: output of one server at a time. md5, logging.

## Plan

Done: Registry and ServerList, Scheduler, the fragment store, the handlers of all types, masters,
the host cache and sorting; proofs about all of them but Scheduler's `NobodyForgotten` and the handlers listed above.

1. More proofs: `PlayersExact` for the Quake family, then the handlers with fragments of their own (Half-Life, EYE, haze.c, ventrilo.c) on the lemmas
   about `AddPacket` and `Combine`; `NobodyForgotten`.
2. The setups left out above, one by one, as runs of their own: endless player requests of HL2 servers first.
3. Teamspeak 3 with several virtual servers; xform.c's ring of result buffers; template conditions.
