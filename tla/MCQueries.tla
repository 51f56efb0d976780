----------------------------- MODULE MCQueries -----------------------------
EXTENDS Queries

Setup(type, want, parts, server, arrivals) ==
  [type |-> type, want |-> want, parts |-> parts, format |-> 2, app |-> 200, players |-> 2,
   server |-> server,
   sends |-> {TRUE}, rotations |-> 0, budget |-> arrivals]

Both == {"rules", "players"}

MCSetups ==
  { Setup("a2s", Both, 2, {"guarded"}, 6),
    [Setup("a2s", {"rules"}, 3, {}, 5) EXCEPT !.format = 1],
    Setup("a2s", Both, 1, {"broken", "short"}, 5),
    [Setup("a2s", {"rules"}, 1, {"guarded"}, 5) EXCEPT !.rotations = 1],
    [Setup("a2s", {}, 1, {"guarded", "odd"}, 4) EXCEPT !.sends = BOOLEAN],
    Setup("fls", Both, 2, {}, 6),
    [Setup("fls", {"players"}, 1, {"odd"}, 4) EXCEPT !.format = 1, !.sends = BOOLEAN],
    [Setup("gs4", Both, 3, {}, 5) EXCEPT !.rotations = 1],
    Setup("gs4", {"rules"}, 2, {"old"}, 5),
    Setup("gs4", {}, 1, {"odd"}, 4),
    Setup("gs3", {"players"}, 1, {}, 3),
    Setup("gs3", Both, 3, {}, 5),
    Setup("ksp", {"rules"}, 3, {}, 4),
    Setup("crysis", {}, 1, {}, 4) }
\* A Source engine server whose application id has a low byte under 128.
MCLowApp == {[Setup("a2s", {"rules"}, 2, {}, 4) EXCEPT !.app = 74]}

\* A 7DFPS server with the first protocol, asked for its rules.
MCOldProtocol == {[Setup("fls", {"rules"}, 1, {}, 2) EXCEPT !.format = 1]}

\* A Crysis server whose first answer comes in two chunks.
MCChunkedCrysis == {Setup("crysis", {}, 2, {}, 4)}

\* One setup or more for each handler in the table.
OneReplyTypes ==
  {"tbs", "grs", "rss", "sas", "fcs", "dm3s", "q4s", "preys", "etqws", "wolfs", "gs2", "ams",
   "tf", "cube2", "mumble", "q2s", "qws", "hws", "sns", "kps", "hrs", "sfs"}
SteppedTypes == {"qs", "h2s", "q3s", "rws", "efs", "jk3s", "hls", "t2s", "d3s", "ottds"}
ListTypes == {"qwm", "q2m", "q3m", "efm", "dm3m", "q4m", "d3m", "ottdm"}
StreamTypes == {"bfs", "farmsim", "terraria", "gsm", "wics", "ts2", "bfbc2"}

MCHandlers ==
  {[Setup(type, {"players"}, 1, {"cut"}, 2) EXCEPT !.sends = BOOLEAN] : type \in OneReplyTypes}
    \cup {Setup(type, want, 1, {}, 5) : type \in SteppedTypes \cup {"ut2s", "prs"}, want \in {{}, {"rules"}, Both}}
    \cup {Setup(type, Both, 1, {"odd"}, 3) : type \in SteppedTypes}
    \cup {Setup(type, Both, 1, {}, 2) : type \in OneReplyTypes \cup {"tees", "starmade", "ventrilo"}}
    \cup {Setup(type, {"players"}, 3, server, 5) : type \in {"gps", "uns"}, server \in {{}, {"behind"}}}
    \cup {Setup(type, Both, 2, {}, 5) : type \in {"hls", "eye", "hazes", "ventrilo"}}
    \cup {Setup(type, {"rules"}, 1, {"guarded"}, 3) : type \in {"a2s", "fls", "gs3", "gs4"}}
    \cup {Setup(type, {}, 2, {}, 3) : type \in ListTypes \cup {"teem"}}
    \cup {Setup(type, {}, 1, {}, 2) : type \in {"tbm", "t2m", "dirtybomb"}}
    \cup {Setup(type, {}, 3, {}, 6) : type \in {"hlm", "stm"}}
    \cup {Setup(type, {}, 2, {"odd"}, 3) : type \in {"hlm", "stm", "qwm", "q3m"}}
    \cup {Setup("crysis", {}, 1, {refusal}, 3) : refusal \in {"down", "unknown"}}
    \cup {[Setup("t2m", {}, 1, {}, 2) EXCEPT !.format = 1]}
    \cup {Setup(type, {"players"}, 3, {}, 4) : type \in StreamTypes}
    \cup {Setup("hl2s", {"rules"}, 1, {}, 5), Setup("wics", Both, 1, {"chunky"}, 5),
          Setup("tm", {"players"}, 3, {}, 5), Setup("ut2004m", {}, 2, {}, 6),
          Setup("ts3", {"players"}, 1, {}, 6), Setup("ts3", {}, 1, {"offline"}, 5),
          Setup("ts3", {"players"}, 1, {"unknown"}, 4), Setup("terraria", {}, 2, {"down"}, 3)}
=============================================================================
