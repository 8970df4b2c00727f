------------------------------ MODULE Sysparam ------------------------------
(***************************************************************************)
(* The non-volatile parameter store of modules/core/sysparam.c: two flash  *)
(* regions, one active, holding an append-only log of entries; a set       *)
(* appends the new value and then clears the ALIVE bit of the old one; a   *)
(* full region is compacted into the other region, which is then made the  *)
(* active one by rewriting the two region headers.                         *)
(*                                                                         *)
(* One action is one flash operation of the writer that holds              *)
(* _sysparam_info.sem (reads are folded into the action that follows       *)
(* them).  A power cut may come between any two actions, and a flash       *)
(* operation listed in Faults may fail, as may the zeroing that follows.   *)
(* A flash program of one header is taken to be atomic, except that an     *)
(* entry header may be left with its length still erased.                  *)
(*                                                                         *)
(* An address is modelled as <<region, position in the log>>, a length is  *)
(* counted in flash words, and the RAM copy end_addr is the end of the log *)
(* of the active region.                                                   *)
(***************************************************************************)
EXTENDS Integers, Sequences, FiniteSets

CONSTANTS
  Keys,        \* parameter names
  Vals,        \* values, the text/binary flag included
  Missing,     \* what a reader gets for a key with no value; setting it deletes
  Words,       \* payload length of each key and value, in words
  RegionSize,  \* size of one region, in words
  MaxKeyId,    \* MAX_KEY_ID
  Deletes,     \* whether callers delete values
  Faults,      \* the flash operations that may fail, and "power" for power cuts
  MaxMishaps   \* bound of the model: how many failures and power cuts there are

FaultSites ==
  {"power", "format", "copy", "newHdr", "oldHdr", "hdr", "payload", "valid", "delete"}

ASSUME ConstAssumption ==
  /\ Missing \notin Keys \cup Vals
  /\ Words \in [Keys \cup Vals -> Nat \ {0}]
  /\ RegionSize \in Nat \ {0, 1}
  /\ MaxKeyId \in Nat
  /\ Deletes \in BOOLEAN
  /\ Faults \subseteq FaultSites
  /\ MaxMishaps \in Nat

VARIABLES
  header,  \* header[r]: the 8-byte header of region r
  log,     \* log[r]: the entries of region r, in address order
  torn,    \* torn[r]: an entry header with an impossible length ends log[r]
  cur,     \* RAM: cur_base (alt_base is the other region)
  force,   \* RAM: force_compact
  left,    \* flash at end_addr: the header whose write and zeroing both failed, if any
  op,      \* the set in progress: its arguments and local variables
  pc,      \* what the system does next
  status,  \* the result of the last set
  mishaps, \* how many failures and power cuts there have been
  spoilt   \* history: "id" once a value was written under another key's id,
           \* "header" once a compacted region was left without a header

flash == <<header, log, torn>>
history == <<mishaps, spoilt>>
vars == <<header, log, torn, cur, force, left, op, pc, status, mishaps, spoilt>>

-----------------------------------------------------------------------------
(* Entries and regions                                                     *)

Region == {0, 1}
Alt(r) == 1 - r

\* "blank" is erased flash, "zero" a header overwritten after a failed write:
\* neither holds the magic number.
HeaderState == {"blank", "zero", "stale", "active"}
Magic(r) == header[r] \in {"stale", "active"}

Blank == [id |-> 0, value |-> FALSE, alive |-> FALSE, valid |-> TRUE, len |-> 0,
          data |-> Missing]

\* An entry header whose length is still erased: no region holds it.
Torn == [Blank EXCEPT !.valid = FALSE, !.len = RegionSize]

Payload == Keys \cup Vals \cup {Missing}

Entry == [id : Nat, value : BOOLEAN, alive : BOOLEAN, valid : BOOLEAN,
          len : Nat, data : Payload]

\* What a scan of the log takes into account.
Live(e) == e.alive /\ e.valid

\* ENTRY_SIZE, in words.
EntrySize(n) == 1 + n

\* The words that the entries at the positions S take.
SpaceOf(L, S) ==
  LET upTo[n \in 0 .. Len(L)] ==
        IF n = 0 THEN 0
        ELSE upTo[n - 1] + IF n \in S THEN EntrySize(L[n].len) ELSE 0
  IN upTo[Len(L)]

EndOf(L) == 2 + SpaceOf(L, DOMAIN L)

Compactable(L) == SpaceOf(L, {i \in DOMAIN L : ~Live(L[i])})

-----------------------------------------------------------------------------
(* Scanning (_find_entry, _find_key, _find_value).  0 is "not found".      *)

First(S) == IF S = {} THEN 0 ELSE CHOOSE i \in S : \A j \in S : i <= j

LiveKeys(L) == {i \in DOMAIN L : Live(L[i]) /\ ~L[i].value}
LiveVals(L) == {i \in DOMAIN L : Live(L[i]) /\ L[i].value}

FindKey(L, k) == First({i \in LiveKeys(L) : L[i].data = k})

ValuesOf(L, i) == {j \in LiveVals(L) : j > i /\ L[j].id = L[i].id}
FindValue(L, i) == First(ValuesOf(L, i))

UnusedKeys(L) == Cardinality(LiveKeys(L)) - Cardinality(LiveVals(L))

\* ctx.max_key_id after a scan to the end: the id of the last key seen.
LastKeyId(L) ==
  IF LiveKeys(L) = {} THEN 0
  ELSE L[CHOOSE i \in LiveKeys(L) : \A j \in LiveKeys(L) : j <= i].id

\* sysparam_get_data on the log L.
Get(L, k) ==
  LET i == FindKey(L, k) IN
  IF i = 0 \/ FindValue(L, i) = 0 THEN Missing ELSE L[FindValue(L, i)].data

-----------------------------------------------------------------------------
(* The set in progress: the locals of sysparam_set_data and, while it      *)
(* compacts, of _compact_params.                                           *)

NoAddr == [r |-> 0, i |-> 0]

NoOp == [key |-> Missing, val |-> Missing, id |-> 0, old |-> NoAddr, need |-> 0,
         site |-> "none", what |-> "none", iter |-> 0, n |-> 0]

Op == [key  : Keys \cup {Missing},
       val  : Vals \cup {Missing},
       id   : Nat,                      \* key_id, 0 for the code's -1
       old  : [r : Region, i : Nat],    \* old_value_addr
       need : Nat,                      \* needed_space
       site : {"none", "space", "ids", "force"},  \* which call compacts
       what : {"none", "key", "val"},   \* the entry being written
       iter : Nat,                      \* iter.ctx: the key last copied
       n    : Nat]                      \* current_key_id

PC == {"off", "create0", "create1", "recreate0", "recreate1", "dead", "idle",
       "format", "copy", "newHdr", "oldHdr", "hdr", "payload", "valid", "delete"}

\* The states in which sysparam_set_data runs.
Setting == {"format", "copy", "newHdr", "oldHdr", "hdr", "payload", "valid", "delete"}

Finish(result) ==
  /\ pc' = "idle"
  /\ op' = NoOp
  /\ status' = result

\* A flash operation fails, or the power does.
Mishap(site) ==
  /\ site \in Faults
  /\ mishaps < MaxMishaps
  /\ mishaps' = mishaps + 1

\* A flash operation of the set fails: give up with SYSPARAM_ERR_IO.
Fault(site) ==
  /\ Mishap(site)
  /\ Finish("io")
  /\ UNCHANGED <<cur, force>>

-----------------------------------------------------------------------------
(* Boot: sysparam_init, and sysparam_create_area when it finds nothing.    *)

\* The scan meets region 0 first.
Found == IF Magic(0) THEN 0 ELSE 1

\* The region sysparam_init makes current, given two good headers.
Recovered == IF header[Found] = "active" THEN Found ELSE Alt(Found)

AreaEmpty == \A r \in Region : header[r] = "blank" /\ log[r] = <<>> /\ ~torn[r]

\* Mutant of BootMount: takes the first region found, active or not.
BootMountFirst ==
  /\ pc = "off"
  /\ \A r \in Region : Magic(r)
  /\ cur' = Found
  /\ force' = torn[Found]
  /\ pc' = "idle"
  /\ UNCHANGED <<flash, left, op, status, history>>

\* The scan to the end of the log meets a torn header: force_compact.
BootMount ==
  /\ pc = "off"
  /\ \A r \in Region : Magic(r)
  /\ cur' = Recovered
  /\ force' = torn[Recovered]
  /\ pc' = "idle"
  /\ UNCHANGED <<flash, left, op, status, history>>

BootRecover ==
  /\ pc = "off"
  /\ Magic(Found) /\ ~Magic(Alt(Found))
  /\ pc' = IF header[Found] = "active" THEN "recreate0" ELSE "dead"
  /\ UNCHANGED <<flash, cur, force, left, op, status, history>>

BootNotFound ==
  /\ pc = "off"
  /\ \A r \in Region : ~Magic(r)
  /\ pc' = IF AreaEmpty THEN "create0" ELSE "dead"
  /\ UNCHANGED <<flash, cur, force, left, op, status, history>>

\* _format_region of the missing region, then its header.
RecreateFormat ==
  /\ pc = "recreate0"
  /\ header' = [header EXCEPT ![Alt(Found)] = "blank"]
  /\ log' = [log EXCEPT ![Alt(Found)] = <<>>]
  /\ torn' = [torn EXCEPT ![Alt(Found)] = FALSE]
  /\ pc' = "recreate1"
  /\ UNCHANGED <<cur, force, left, op, status, history>>

RecreateHeader ==
  /\ pc = "recreate1"
  /\ header' = [header EXCEPT ![Alt(Found)] = "stale"]
  /\ pc' = "off"
  /\ UNCHANGED <<log, torn, cur, force, left, op, status, history>>

CreateActive ==
  /\ pc = "create0"
  /\ header' = [header EXCEPT ![0] = "active"]
  /\ pc' = "create1"
  /\ UNCHANGED <<log, torn, cur, force, left, op, status, history>>

CreateStale ==
  /\ pc = "create1"
  /\ header' = [header EXCEPT ![1] = "stale"]
  /\ pc' = "off"
  /\ UNCHANGED <<log, torn, cur, force, left, op, status, history>>

\* The header of r could not be written as h.  It is zeroed, but if that fails too
\* it may be the old one or h.
FailedHeader(r, h) ==
  \E h0 \in {header[r], "zero", h} : header' = [header EXCEPT ![r] = h0]

\* A failed format or header write ends the boot without a store.
BootFault ==
  /\ \/ pc = "recreate0" /\ Mishap("format") /\ FailedHeader(Alt(Found), "blank")
     \/ pc = "recreate1" /\ Mishap("newHdr") /\ FailedHeader(Alt(Found), "stale")
     \/ pc = "create0" /\ Mishap("newHdr") /\ FailedHeader(0, "active")
     \/ pc = "create1" /\ Mishap("newHdr") /\ FailedHeader(1, "stale")
  /\ pc' = "dead"
  /\ UNCHANGED <<log, torn, cur, force, left, op, status, spoilt>>

-----------------------------------------------------------------------------
(* sysparam_set_data up to its first flash operation                       *)

Free(L) == RegionSize - EndOf(L)

\* Mutant of IdOf: the code's -1 leaks out as an id.
IdOfMinusOne(k) ==
  LET i == FindKey(log[cur], k) IN IF i = 0 THEN -1 ELSE log[cur][i].id

IdOf(k) == LET i == FindKey(log[cur], k) IN IF i = 0 THEN 0 ELSE log[cur][i].id

OldValue(k) ==
  LET i == FindKey(log[cur], k) IN IF i = 0 THEN 0 ELSE FindValue(log[cur], i)

\* Mutant of Needed: the key entry is not counted.
NeededForValue(k, v) == EntrySize(Words[v])

Needed(k, v) ==
  EntrySize(Words[v]) + IF IdOf(k) = 0 THEN EntrySize(Words[k]) ELSE 0

\* A scan to the end of the log meets a torn header.
MeetsTorn == left = <<Torn>>

\* Mutant of MayGain: keys without a value are not taken into account.
MayGainKnown(k, v) ==
  LET L == log[cur]
      old == IF OldValue(k) = 0 THEN 0 ELSE EntrySize(L[OldValue(k)].len)
  IN \/ torn[cur] \/ MeetsTorn
     \/ Needed(k, v) <= Free(L) + Compactable(L \o left) + old

\* What compaction is expected to gain: ctx.compactable, the value about to be
\* replaced included.  A torn header counts with its huge length.
MayGain(k, v) ==
  LET L == log[cur]
      old == IF OldValue(k) = 0 THEN 0 ELSE EntrySize(L[OldValue(k)].len)
  IN \/ torn[cur] \/ MeetsTorn
     \/ Needed(k, v) <= Free(L) + Compactable(L \o left) + old
     \/ UnusedKeys(L) > 0

\* The branch taken: write at the end, compact first (and from which of the
\* three calls), or report SYSPARAM_ERR_FULL.
Plan(k, v) ==
  LET L == log[cur] IN
  CASE Needed(k, v) > Free(L) -> IF MayGain(k, v) THEN "space" ELSE "full"
    [] ~ (Needed(k, v) > Free(L)) /\ IdOf(k) = 0 /\ LastKeyId(L) >= MaxKeyId
         -> IF UnusedKeys(L) > 0 THEN "ids" ELSE "full"
    [] OTHER -> IF force \/ (MeetsTorn /\ OldValue(k) = 0) THEN "force" ELSE "write"

\* What the scans make of force_compact.  The scan for compactable space starts from
\* the end of an exactly full region and takes it for an entry of impossible length.
Forced(k, v) ==
  \/ force
  \/ MeetsTorn /\ (OldValue(k) = 0 \/ Needed(k, v) > Free(log[cur]))
  \/ Needed(k, v) > Free(log[cur]) /\ Free(log[cur]) = 0 /\ OldValue(k) = 0

\* Mutant of Args: the old value is not remembered.
ArgsNoOld(k, v) == [NoOp EXCEPT !.key = k, !.val = v, !.id = IdOf(k)]

Args(k, v) ==
  [NoOp EXCEPT !.key = k, !.val = v, !.id = IdOf(k),
               !.old = IF OldValue(k) = 0 THEN NoAddr
                       ELSE [r |-> cur, i |-> OldValue(k)]]

\* Mutant of Writing: a new key takes the last id instead of the next.
WritingSameId(o, lastId) ==
  IF o.id = 0 THEN [o EXCEPT !.id = lastId, !.what = "key"]
  ELSE [o EXCEPT !.what = "val"]

\* The entry to write first: the key if it has no id yet.
Writing(o, lastId) ==
  IF o.id = 0 THEN [o EXCEPT !.id = lastId + 1, !.what = "key"]
  ELSE [o EXCEPT !.what = "val"]

\* Storing the value that is already there changes nothing.
NewValue(k, v) == v \in Vals /\ Get(log[cur], k) # v

SetWrite(k, v) ==
  /\ pc = "idle" /\ NewValue(k, v) /\ Plan(k, v) = "write"
  /\ op' = Writing(Args(k, v), LastKeyId(log[cur]))
  /\ pc' = "hdr"
  /\ UNCHANGED <<flash, cur, force, left, status, history>>

SetCompact(k, v) ==
  /\ pc = "idle" /\ NewValue(k, v) /\ Plan(k, v) \in {"space", "ids", "force"}
  /\ op' = [Args(k, v) EXCEPT !.site = Plan(k, v), !.need = Needed(k, v)]
  /\ pc' = "format"
  /\ force' = Forced(k, v)
  /\ UNCHANGED <<flash, cur, left, status, history>>

Refused(k, v) == pc = "idle" /\ NewValue(k, v) /\ Plan(k, v) = "full"

SetFull(k, v) ==
  /\ Refused(k, v)
  /\ Finish("full")
  /\ force' = Forced(k, v)
  /\ UNCHANGED <<flash, cur, left, history>>

\* An empty value only deletes the old one.
SetDelete(k) ==
  /\ Deletes
  /\ pc = "idle" /\ OldValue(k) # 0
  /\ op' = Args(k, Missing)
  /\ pc' = "delete"
  /\ UNCHANGED <<flash, cur, force, left, status, history>>

\* A read, or a set with nothing to do, goes to the end of the log.
ScanToEnd ==
  /\ pc = "idle" /\ MeetsTorn
  /\ force' = TRUE
  /\ UNCHANGED <<flash, cur, left, op, pc, status, history>>

-----------------------------------------------------------------------------
(* _compact_params                                                         *)

CompactFormat ==
  /\ pc = "format"
  /\ header' = [header EXCEPT ![Alt(cur)] = "blank"]
  /\ log' = [log EXCEPT ![Alt(cur)] = <<>>]
  /\ torn' = [torn EXCEPT ![Alt(cur)] = FALSE]
  /\ pc' = "copy"
  /\ UNCHANGED <<cur, force, left, op, status, history>>

\* Mutant of NextKey: the iterator starts one entry too far.
NextKeyTooFar ==
  First({i \in LiveKeys(log[cur]) : i > op.iter + 1 /\ ValuesOf(log[cur], i) # {}})

\* sysparam_iter_next: the next key that has a value, 0 at the end.
NextKey ==
  First({i \in LiveKeys(log[cur]) : i > op.iter /\ ValuesOf(log[cur], i) # {}})

KeyEntry(id, k, ok) ==
  [id |-> id, value |-> FALSE, alive |-> TRUE, valid |-> ok, len |-> Words[k],
   data |-> IF ok THEN k ELSE Missing]

ValueEntry(id, e) == [e EXCEPT !.id = id]

\* One turn of the loop: copy a key and its value to the new region, except
\* that the value of the key being set is left out.
CompactCopy ==
  LET L == log[cur]
      i == NextKey
      n == op.n + 1
      key == KeyEntry(n, L[i].data, TRUE)
      val == ValueEntry(n, L[FindValue(L, i)])
      own == op.id # 0 /\ L[i].id = op.id
  IN /\ pc = "copy"
     /\ i # 0
     /\ log' = [log EXCEPT ![Alt(cur)] =
                  IF own THEN Append(@, key) ELSE Append(Append(@, key), val)]
     /\ op' = [op EXCEPT !.iter = i, !.n = n, !.id = IF own THEN n ELSE @]
     /\ UNCHANGED <<header, torn, cur, force, left, pc, status, history>>

CompactCopied ==
  /\ pc = "copy"
  /\ NextKey = 0
  /\ pc' = "newHdr"
  /\ UNCHANGED <<flash, cur, force, left, op, status, history>>

\* Mutant of CompactNewHeader: the old region is given up first.
CompactOldHeaderFirst ==
  /\ pc = "newHdr"
  /\ header' = [header EXCEPT ![cur] = "stale"]
  /\ pc' = "oldHdr"
  /\ UNCHANGED <<log, torn, cur, force, left, op, status, history>>

CompactNewHeader ==
  /\ pc = "newHdr"
  /\ header' = [header EXCEPT ![Alt(cur)] = "active"]
  /\ pc' = "oldHdr"
  /\ UNCHANGED <<log, torn, cur, force, left, op, status, history>>

\* Once the first call has compacted, the space and the ids are looked at again.
StillFull ==
  op.site = "space" /\ \/ op.need > Free(log[Alt(cur)])
                       \/ op.id = 0 /\ op.n >= MaxKeyId

\* Only the call made because of force_compact keeps the old value's address.
CompactOldHeader ==
  /\ pc = "oldHdr"
  /\ header' = [header EXCEPT ![cur] = "stale"]
  /\ cur' = Alt(cur)
  /\ force' = FALSE
  /\ left' = <<>>
  /\ IF StillFull
     THEN Finish("full")
     ELSE /\ op' = Writing([op EXCEPT !.old = IF op.site = "force" THEN @
                                              ELSE NoAddr], op.n)
          /\ pc' = "hdr"
          /\ UNCHANGED status
  /\ UNCHANGED <<log, torn, history>>

\* Errors while compacting.  The erased, half-copied or zeroed region has no magic
\* number, so what else is in it is never read; a copy with a header, though, is one
\* that a boot may take for the region in use.
CompactFault ==
  /\ \/ /\ pc = "format" /\ Fault("format")
        /\ FailedHeader(Alt(cur), "blank")
        /\ UNCHANGED spoilt
     \/ /\ pc = "copy" /\ Fault("copy")
        /\ UNCHANGED <<header, spoilt>>
     \/ /\ pc = "newHdr" /\ Fault("newHdr")
        /\ FailedHeader(Alt(cur), "active")
        /\ spoilt' = spoilt \cup IF header'[Alt(cur)] = "active" THEN {"header"} ELSE {}
     \/ /\ pc = "oldHdr" /\ Fault("oldHdr")
        /\ FailedHeader(cur, "stale")
        /\ spoilt' = spoilt \cup {"header"}
  /\ UNCHANGED <<log, torn, left>>

-----------------------------------------------------------------------------
(* _write_entry, for the key and for the value, and _delete_entry          *)

Tip == Len(log[cur])

\* Mutant of NewEntry: written without ENTRY_FLAG_INVALID.
NewEntryValid ==
  [id |-> op.id, value |-> op.what = "val", alive |-> TRUE, valid |-> TRUE,
   len |-> Words[IF op.what = "key" THEN op.key ELSE op.val], data |-> Missing]

NewEntry ==
  [id |-> op.id, value |-> op.what = "val", alive |-> TRUE, valid |-> FALSE,
   len |-> Words[IF op.what = "key" THEN op.key ELSE op.val], data |-> Missing]

\* The id about to be written is the one under which readers look for op.key.
OwnId == IdOf(op.key) = op.id

\* A program clears bits: over the header that an earlier write left, the new one may
\* come out right if that still has its bits, which a zeroed one has not.
WriteHeader ==
  /\ pc = "hdr" /\ left # <<Blank>>
  /\ log' = [log EXCEPT ![cur] = Append(@, NewEntry)]
  /\ left' = <<>>
  /\ spoilt' = IF op.what = "val" /\ ~OwnId THEN spoilt \cup {"id"} ELSE spoilt
  /\ pc' = "payload"
  /\ UNCHANGED <<header, torn, cur, force, op, status, mishaps>>

\* Else it does not verify, and is zeroed: an empty deleted entry to later scans.
ZeroHeader ==
  /\ log' = [log EXCEPT ![cur] = Append(@, Blank)]
  /\ left' = <<>>

WriteOverLeft ==
  /\ pc = "hdr" /\ left \notin {<<>>, <<NewEntry>>}
  /\ ZeroHeader
  /\ Finish("io")
  /\ UNCHANGED <<header, torn, cur, force, history>>

WritePayload ==
  /\ pc = "payload"
  /\ log' = [log EXCEPT ![cur][Tip].data = IF op.what = "key" THEN op.key ELSE op.val]
  /\ pc' = "valid"
  /\ UNCHANGED <<header, torn, cur, force, left, op, status, history>>

\* Clearing INVALID completes the entry: go on with the value, then with the
\* deletion of the old value.
SetValid ==
  /\ pc = "valid"
  /\ log' = [log EXCEPT ![cur][Tip].valid = TRUE]
  /\ CASE op.what = "key" ->
            /\ op' = [op EXCEPT !.what = "val"]
            /\ pc' = "hdr"
            /\ UNCHANGED status
       [] op.what = "val" /\ op.old # NoAddr ->
            /\ pc' = "delete"
            /\ UNCHANGED <<op, status>>
       [] OTHER -> Finish("ok")
  /\ UNCHANGED <<header, torn, cur, force, left, history>>

\* A failed header is zeroed and, if that fails too, may be there in part or whole,
\* while end_addr stays.  The other writes may have reached the flash before failing.
WriteFault ==
  /\ \/ /\ pc = "hdr" /\ Fault("hdr")
        /\ \/ ZeroHeader
           \/ left' \in {left, <<NewEntry>>, <<Torn>>, <<Blank>>} /\ UNCHANGED log
     \/ pc = "payload" /\ Fault("payload") /\ UNCHANGED <<log, left>>
     \/ /\ pc = "valid" /\ Fault("valid")
        /\ log' \in {log, [log EXCEPT ![cur][Tip].valid = TRUE]}
        /\ UNCHANGED left
  /\ UNCHANGED <<header, torn, spoilt>>

Deleted == [log EXCEPT ![op.old.r][op.old.i].alive = FALSE]

DeleteEntry ==
  /\ pc = "delete"
  /\ log' = Deleted
  /\ Finish("ok")
  /\ UNCHANGED <<header, torn, cur, force, left, history>>

DeleteFault ==
  /\ pc = "delete" /\ Fault("delete")
  /\ log' \in {log, Deleted}
  /\ UNCHANGED <<header, torn, left, spoilt>>

-----------------------------------------------------------------------------
(* The power is cut: RAM is lost, and an entry header being written may be *)
(* left without its length.  What was at end_addr is now part of the log.  *)

Crash ==
  /\ Mishap("power")
  /\ pc # "off"
  /\ log' = IF left = <<>> \/ MeetsTorn THEN log ELSE [log EXCEPT ![cur] = @ \o left]
  /\ torn' \in IF left = <<>> THEN {torn, [torn EXCEPT ![cur] = @ \/ pc = "hdr"]}
               ELSE {[torn EXCEPT ![cur] = @ \/ MeetsTorn]}
  /\ cur' = 0
  /\ left' = <<>>
  /\ force' = FALSE
  /\ op' = NoOp
  /\ pc' = "off"
  /\ UNCHANGED <<header, status, spoilt>>

-----------------------------------------------------------------------------
Init ==
  /\ header = [r \in Region |-> "blank"]
  /\ log = [r \in Region |-> <<>>]
  /\ torn = [r \in Region |-> FALSE]
  /\ cur = 0
  /\ force = FALSE
  /\ left = <<>>
  /\ op = NoOp
  /\ pc = "off"
  /\ status = "ok"
  /\ mishaps = 0
  /\ spoilt = {}

Boot ==
  \/ BootMount \/ BootRecover \/ BootNotFound
  \/ RecreateFormat \/ RecreateHeader \/ CreateActive \/ CreateStale
  \/ BootFault

Begin ==
  \/ \E k \in Keys :
       \/ SetDelete(k)
       \/ \E v \in Vals : SetWrite(k, v) \/ SetCompact(k, v) \/ SetFull(k, v)
  \/ ScanToEnd

Compact ==
  \/ CompactFormat \/ CompactCopy \/ CompactCopied
  \/ CompactNewHeader \/ CompactOldHeader \/ CompactFault

Write ==
  \/ WriteHeader \/ WriteOverLeft \/ WritePayload \/ SetValid \/ WriteFault
  \/ DeleteEntry \/ DeleteFault

Next == Boot \/ Begin \/ Compact \/ Write \/ Crash

Spec == Init /\ [][Next]_vars

-----------------------------------------------------------------------------
(* Correctness                                                             *)

\* What may be left at end_addr: at most one header, which readers do not accept.
LeftOK(s) == s \in Seq(Entry) /\ Len(s) <= 1 /\ \A i \in DOMAIN s : ~Live(s[i])

TypeOK ==
  /\ header \in [Region -> HeaderState]
  /\ log \in [Region -> Seq(Entry)]
  /\ torn \in [Region -> BOOLEAN]
  /\ cur \in Region
  /\ force \in BOOLEAN
  /\ LeftOK(left)
  /\ op \in Op
  /\ pc \in PC
  /\ status \in {"ok", "full", "io"}
  /\ mishaps \in Nat
  /\ spoilt \in SUBSET {"id", "header"}

\* The region a boot would mount is the one the running system uses, and it says
\* it is active; only between the two header writes of a compaction may they
\* differ.  Otherwise what is written now is gone after the next power cut
\* (sysparam_init, _compact_params).
MountedIsRecovered ==
  /\ "header" \notin spoilt
  /\ pc \in (Setting \ {"oldHdr"}) \cup {"idle"}
  => cur = Recovered /\ header[cur] = "active"

\* Once something has been stored, some region says it is active, whatever is
\* interrupted: a boot never finds the area missing or only a stale region.
StoreFindable ==
  "header" \notin spoilt /\ (\E r \in Region : log[r] # <<>>)
    => \E r \in Region : header[r] = "active"

\* An entry that readers take into account was written completely, and is a name
\* or a value as its flag says, in both regions (_write_entry).
NoHalfWrittenEntry ==
  \A r \in Region : \A i \in DOMAIN log[r] :
    Live(log[r][i]) => log[r][i].data \in IF log[r][i].value THEN Vals ELSE Keys

\* No log runs past its region, although _write_entry and the copy loop of
\* _compact_params check no bound.
FitsRegion == \A r \in Region : EndOf(log[r]) <= RegionSize

\* In a region that may be mounted, no name has two live key entries, ids go up
\* from one key entry to the next, and none passes MAX_KEY_ID.
KeysUnique ==
  \A r \in Region : header[r] = "active" =>
    \A i, j \in LiveKeys(log[r]) :
      /\ log[r][i].id \in 1 .. MaxKeyId
      /\ i < j => /\ log[r][i].id < log[r][j].id
                  /\ log[r][i].data # log[r][j].data

-----------------------------------------------------------------------------
(* The values that survive                                                 *)

\* The store a boot would find if the power were cut now.
Durable(k) == Get(log[Recovered], k)

\* Values of k that are valid but hidden behind the first.
Shadow(k) ==
  LET L == log[Recovered]
      i == FindKey(L, k)
  IN IF i = 0 THEN {} ELSE {L[j].data : j \in ValuesOf(L, i) \ {FindValue(L, i)}}

Store == INSTANCE ParamStore WITH
  store <- [k \in Keys |-> Durable(k)],
  shadow <- [k \in Keys |-> Shadow(k)],
  busy <- [key |-> op.key, val |-> op.val],
  intact <- spoilt = {}

\* Every interleaving of flash writes, failures and power cuts does to the
\* surviving values only what ParamStore allows.
Refinement == Store!Spec

\* The step ends the set of k.
Ends(k) == pc \in Setting /\ op.key = k /\ pc' = "idle"

\* sysparam.h: SYSPARAM_OK means "Value successfully set": a boot finds it.
OkMeansStored ==
  [][\A k \in Keys : Ends(k) /\ status' = "ok" => Durable(k)' = op.val]_vars

\* What is needed of the region in use, without k and its value, and with v for k.
Others(k) == {i \in LiveKeys(log[cur]) : ValuesOf(log[cur], i) # {} /\ log[cur][i].data # k}

NoRoom(k, v) ==
  LET values == {FindValue(log[cur], i) : i \in Others(k)} IN
  \/ 2 + SpaceOf(log[cur], Others(k) \cup values) + EntrySize(Words[k]) + EntrySize(Words[v])
       > RegionSize
  \/ Cardinality(Others(k)) >= MaxKeyId

\* A set is refused only when "compacting won't help us store this value"
\* (sysparam.c:897) or the ids are used up by other keys that have values, unless an
\* interrupted set has left a second value of some key.
FullMeansFull ==
  spoilt = {} /\ (\A i \in LiveKeys(log[cur]) : Cardinality(ValuesOf(log[cur], i)) <= 1)
  => /\ \A k \in Keys, v \in Vals : Refused(k, v) => NoRoom(k, v)
     /\ pc = "oldHdr" /\ StillFull => NoRoom(op.key, op.val)

\* The id a value is written under is its key's id in the mounted region, also
\* when the region has just been compacted and all ids have changed.
ValueUnderOwnId == pc = "hdr" /\ op.what = "val" => OwnId

\* Between sets every key has exactly one live value and every value a key: the
\* count of unused keys and the compactable space are what the scan assumes.
OneValuePerKey ==
  pc = "idle" =>
    LET L == log[cur] IN
    /\ \A i \in LiveKeys(L) : Cardinality(ValuesOf(L, i)) = 1
    /\ \A j \in LiveVals(L) : \E i \in LiveKeys(L) : i < j /\ L[i].id = L[j].id

=============================================================================
