---------------------------- MODULE DisplayLists ----------------------------
(***************************************************************************)
(* Display lists of the guest, drawn through Aurora                        *)
(* (runtime/src/hle/gx/gx_dl.cpp).                                         *)
(*                                                                         *)
(* The guest's command processor would read a list command by command.     *)
(* GX__CallDisplayList does that only when it must: most lists go to       *)
(* Aurora whole, after a scan that says how much of which array they use,  *)
(* and the scan is kept in a cache.  Aurora holds vertex state of its own  *)
(* (live), of which this code keeps a mirror (applied) in order to publish *)
(* only what changed, and which immediate-mode and raw FIFO draws change   *)
(* behind that mirror's back.                                              *)
(*                                                                         *)
(* One vertex attribute stands for all of them, and a vertex is one        *)
(* element: a value of its own, or the index of one.  Bytes that carry no  *)
(* vertex state (BP, XF and CP matrix-index loads, NOPs) are left out.     *)
(* Lists nest one level deep.                                              *)
(***************************************************************************)
EXTENDS Integers, Sequences, FiniteSets, SequencesExt

CONSTANTS
  Lists,      \* the display lists in guest memory
  ListText,   \* for each list, the texts the guest gives it one after another
  Bases,      \* the guest arrays
  Spacing,    \* how far apart an array's elements lie: tight, padded or wide
  Rows,       \* the vertex formats (VAT rows)
  Fracs,      \* what a format may say
  Indices,    \* the indices that immediate and raw draws use
  Sparse,     \* may the title ask for sparse lists
  Deindexed,  \* may it ask for deindexed lists
  MaxScans,   \* bound: entries of the scan cache (kDlScanCacheMaxEntries)
  MaxWrites,  \* bound: rewrites and touches of each part of memory
  MaxOps,     \* bound: operations of the guest
  NoBase      \* an array register that was never written

Attrs == {"vtx", "xf"}
Types == {"direct", "index"}
Regions == Lists \cup Bases
Slots == {"0", "1"}

DisplayListAssumption ==
  /\ Lists \cap Bases = {} /\ NoBase \notin Bases
  /\ Spacing \in [Bases -> {"tight", "padded", "wide"}]
  /\ \A l \in Lists : Len(ListText[l]) > MaxWrites
  /\ {Sparse, Deindexed} \subseteq BOOLEAN
  /\ {MaxScans, MaxWrites, MaxOps} \subseteq Nat
  /\ Indices \subseteq Nat

VARIABLES
  vtx,       \* g_hleGxState: what the guest's command processor holds
  hash,      \* vtxLayoutHash and its dirty flag
  live,      \* Aurora's vertex state
  applied,   \* the mirror of it
  cursor,    \* which of its two host copies an array's packing filled last
  scans,     \* the scan cache
  version,   \* which text or contents a part of guest memory holds
  gen,       \* its write generation (gx_guest_write.h)
  option,    \* the title's choice of list paths
  drew,      \* what Aurora drew, and left, in the last operation
  meant,     \* what the guest's command processor would have drawn, and left
  ops

dlVars == <<vtx, hash, live, applied, cursor, scans, version, gen,
            option, drew, meant, ops>>

-----------------------------------------------------------------------------
(* Guest memory.                                                           *)

Text(l) == ListText[l][version[l] + 1]

Element(b, i) == IF b = NoBase THEN <<"zero", 0, 0>> ELSE <<b, i, version[b]>>

\* A list with its nested lists in place; the markers stand where a visitor
\* of a nested list begins and ends.
Inlined(text) ==
  FoldLeft(LAMBDA sofar, c :
             sofar \o IF c.op = "call"
                      THEN <<[op |-> "nest"]>> \o Text(c.list) \o <<[op |-> "nest"]>>
                      ELSE <<c>>,
           <<>>, text)

Ops(text) == {text[k].op : k \in 1..Len(text)}

Layout(v) == [desc |-> v.desc, fmt |-> v.fmt]

IsCpWrite(c) == c.op \in {"desc", "fmt", "array"}

\* One CP register write (ApplyCpRegWrite, gx_cp_decode.h).
CpWrite(v, c) ==
  CASE c.op = "desc"  -> [v EXCEPT !.desc = c.to]
    [] c.op = "fmt"   -> [v EXCEPT !.fmt[c.row] = c.to]
    [] c.op = "array" -> [v EXCEPT !.array[c.attr] = c.to]

-----------------------------------------------------------------------------
(* What a list means: its commands one after another, from the state it    *)
(* is called in.  Nothing below uses this but the property.                *)

Datum(v, i) == IF v.desc = "index" THEN Element(v.array.vtx, i) ELSE <<"value", i, 0>>

Meaning(v, text) ==
  LET Obey(s, c) ==
        CASE IsCpWrite(c)  -> [s EXCEPT !.vtx = CpWrite(@, c)]
          [] c.op = "draw" ->
               [s EXCEPT !.drawn = Append(@, [frac |-> s.vtx.fmt[c.row],
                  data |-> [k \in 1..Len(c.idx) |-> Datum(s.vtx, c.idx[k])]])]
          [] c.op = "xf"   ->
               [s EXCEPT !.drawn = Append(@, [frac |-> "xf",
                  data |-> <<Element(s.vtx.array.xf, c.idx)>>])]
          [] OTHER -> s
      end == FoldLeft(Obey, [vtx |-> v, drawn |-> <<>>], Inlined(text))
  IN  [drawn |-> end.drawn, left |-> end.vtx]

-----------------------------------------------------------------------------
(* Aurora.                                                                 *)

Published(type) == IF type = "index" THEN "direct" ELSE type

\* The elements an array binding holds at this moment; a packed one points
\* into a host copy.
Bound(a, binding) ==
  CASE binding.kind = "guest" -> [i \in 1..binding.size |-> Element(binding.at, i - 1)]
    [] binding.kind = "none"  -> <<>>
    [] OTHER -> a.copies[binding.kind][binding.at]

NoBinding == [kind |-> "none", at |-> "none", size |-> 0]
NoSnapshot == [elements |-> <<>>, gen |-> -1]

\* Guest memory has a write generation; a host copy has none.
SourceGeneration(binding) == IF binding.kind = "guest" THEN gen[binding.at] ELSE -1

\* The upload of a draw's array (refresh_indexed_array_sources): a snapshot
\* serves until its source's generation moves.
Uploaded(a) ==
  LET now == SourceGeneration(a.array.vtx)
  IN  IF a.snapshot # NoSnapshot /\ now # -1 /\ a.snapshot.gen = now
      THEN a
      ELSE [a EXCEPT !.snapshot = [elements |-> Bound(a, a.array.vtx), gen |-> now]]

Fetched(elements, i) ==
  IF i < Len(elements) THEN elements[i + 1] ELSE <<"outside", 0, 0>>

\* Aurora executes a stream of draws and indexed XF loads.
Executed(a0, text) ==
  LET Execute(s, c) ==
        CASE c.op = "draw" /\ s.a.desc = "index" ->
               LET up == Uploaded(s.a) IN
               [a |-> up, drawn |-> Append(s.drawn, [frac |-> up.fmt[c.row],
                  data |-> [k \in 1..Len(c.idx) |-> Fetched(up.snapshot.elements, c.idx[k])]])]
          [] c.op = "draw" /\ s.a.desc = "direct" ->
               [s EXCEPT !.drawn = Append(@, [frac |-> s.a.fmt[c.row],
                  data |-> [k \in 1..Len(c.idx) |-> <<"value", c.idx[k], 0>>]])]
          [] c.op = "xf" ->
               [s EXCEPT !.drawn = Append(@, [frac |-> "xf",
                  data |-> <<Fetched(Bound(s.a, s.a.array.xf), c.idx)>>])]
          [] OTHER -> s
  IN  FoldLeft(Execute, [a |-> a0, drawn |-> <<>>], text)

\* Vertices that this code has expanded: Aurora must expect them direct.
Submitted(a, row, data) ==
  [frac |-> IF a.desc = "direct" THEN a.fmt[row] ELSE "misread", data |-> data]

\* GXSetArray, as the command processor takes it (GX_LOAD_AURORA_ARRAYBASE).
BindArray(a, attr, binding) ==
  IF a.array[attr] = binding THEN a
  ELSE [a EXCEPT !.array[attr] = binding,
                 !.snapshot = IF attr = "vtx" THEN NoSnapshot ELSE @]

-----------------------------------------------------------------------------
(* Publishing.  A pair m = [a, mirror] goes through these steps.           *)

\* Mutant: trust the mirror alone.
PublishDescByMirror(m, type) ==
  [m EXCEPT !.a.desc = IF ~ m.mirror.descValid \/ m.mirror.desc # type THEN type ELSE @,
            !.mirror.desc = type,
            !.mirror.descValid = TRUE,
            !.mirror.same = @ /\ m.mirror.descValid]

\* ApplyAuroraVtxDesc, and the descriptor loop of the raw path: trust the
\* mirror only where Aurora agrees.
PublishDesc(m, type) ==
  [m EXCEPT !.a.desc =
              IF ~ m.mirror.descValid \/ m.mirror.desc # type \/ @ # type THEN type ELSE @,
            !.mirror.desc = type,
            !.mirror.descValid = TRUE,
            !.mirror.same = @ /\ m.mirror.descValid]

\* ApplyAuroraVtxAttrFmt.
PublishRow(m, v, row) ==
  [m EXCEPT !.a.fmt[row] =
              IF ~ m.mirror.fmtValid \/ m.mirror.fmt[row] # v.fmt[row] \/ @ # v.fmt[row]
              THEN v.fmt[row] ELSE @,
            !.mirror.fmt[row] = v.fmt[row],
            !.mirror.fmtValid = TRUE,
            !.mirror.same = @ /\ m.mirror.fmtValid]

\* ApplyAuroraVtxAttrFmtForDisplayList: every row of a list that mixes them.
PublishRows(m, v, found) ==
  FoldSet(LAMBDA row, n : PublishRow(n, v, row), m,
          IF Cardinality(found.rows) = 1 THEN found.rows ELSE Rows)

\* ApplyAuroraArrayIfChanged: an unchanged binding keeps its larger span.
PublishArray(m, attr, binding) ==
  LET had == m.mirror.array[attr]
  IN  IF had.valid /\ had.kind = binding.kind /\ had.at = binding.at /\ had.size >= binding.size
      THEN m
      ELSE [m EXCEPT !.a = BindArray(@, attr, binding),
                     !.mirror.array[attr] = [valid |-> TRUE] @@ binding]

\* SyncAppliedVtxStateFromHleReal.
Synced(mirror, v) ==
  IF mirror.same /\ mirror.descValid /\ mirror.fmtValid THEN mirror
  ELSE [mirror EXCEPT !.desc = v.desc, !.descValid = TRUE,
                      !.fmt = v.fmt, !.fmtValid = TRUE, !.same = TRUE]

\* InvalidateAppliedAuroraVtxState.
Invalidated(mirror) ==
  [mirror EXCEPT !.descValid = FALSE, !.fmtValid = FALSE, !.same = FALSE]

-----------------------------------------------------------------------------
(* Walking a list (WalkDisplayList and its visitors).                      *)

Longer(old, i) == IF i + 1 > old THEN i + 1 ELSE old

\* DlMayContainDrawVisitor: anything but bookkeeping means yes.
MayContainDraw(text) == Ops(Inlined(text)) \cap {"draw", "unknown", "array"} # {}

NothingFound ==
  [ok |-> TRUE, rows |-> {}, nested |-> FALSE, writes |-> <<>>,
   reach |-> [attr \in Attrs |-> 0]]

\* DlIndexScanVisitor: which rows the draws use, how far into each array they
\* and the XF loads reach, and the CP writes, applied to the state as the
\* walk meets them.  An unknown command ends the walk.
Scanned(v0, text) ==
  LET Visit(s, c) ==
        IF ~ s.found.ok THEN s ELSE
        CASE IsCpWrite(c) -> [s EXCEPT !.v = CpWrite(@, c),
                                       !.found.writes = Append(@, c)]
          [] c.op = "draw" ->
               [s EXCEPT !.found.rows = @ \cup {c.row},
                         !.found.reach["vtx"] =
                           IF s.v.desc = "index"
                           THEN FoldLeft(Longer, @, c.idx) ELSE @]
          [] c.op = "xf" -> [s EXCEPT !.found.reach["xf"] = Longer(@, c.idx)]
          [] c.op = "nest" -> [s EXCEPT !.found.nested = TRUE]
          [] OTHER -> [s EXCEPT !.found.ok = FALSE]
  IN  FoldLeft(Visit, [v |-> v0, found |-> NothingFound], Inlined(text)).found

HasCpWrites(found) == Len(found.writes) > 0
HasIndexedDraw(found) == found.reach["vtx"] > 0
HasIndexedXf(found) == found.reach["xf"] > 0

\* CaptureGxVertexState(ForCpWrites) before CP writes are applied, and
\* RestoreGxVertexState after: what the writes may have touched.
Restored(before, after, writes) ==
  LET touched == Ops(writes)
  IN  [after EXCEPT
         !.desc = IF "desc" \in touched THEN before.desc ELSE @,
         !.fmt = [row \in Rows |->
                    IF \E k \in 1..Len(writes) : writes[k].op = "fmt" /\ writes[k].row = row
                    THEN before.fmt[row] ELSE @[row]],
         !.array = IF "array" \in touched THEN before.array ELSE @]

\* ParseDisplayList: the interpreter.  Every draw publishes a direct layout,
\* which the visitor remembers until it enters or leaves a nested list, and
\* expands its vertices itself; an XF load binds its array first.
Interpreted(v0, a0, mirror0, text) ==
  LET unpublished == [desc |-> "none", rows |-> {}]
      Visit(s, c) ==
        CASE IsCpWrite(c) -> [s EXCEPT !.v = CpWrite(@, c)]
          [] c.op = "draw" ->
               LET type == Published(s.v.desc)
                   described == IF s.published.desc # type THEN [s.a EXCEPT !.desc = type] ELSE s.a
                   known == \E e \in s.published.rows : e = <<c.row, s.v.fmt[c.row]>>
                   formatted == IF known THEN described ELSE [described EXCEPT !.fmt[c.row] = s.v.fmt[c.row]]
               IN  [s EXCEPT !.a = formatted,
                      !.published = [desc |-> type,
                        rows |-> {e \in @.rows : e[1] # c.row} \cup {<<c.row, s.v.fmt[c.row]>>}],
                      !.drawn = Append(@, Submitted(formatted, c.row,
                        [k \in 1..Len(c.idx) |-> Datum(s.v, c.idx[k])]))]
          [] c.op = "xf" ->
               LET binding == [kind |-> "guest", at |-> s.v.array.xf, size |-> c.idx + 1]
                   bound == s.v.array.xf # NoBase
                   described == IF bound THEN BindArray(s.a, "xf", binding) ELSE s.a
               IN  [s EXCEPT !.a = described,
                      !.mirror.array["xf"].valid = @ /\ ~ bound,
                      !.drawn = Append(@, [frac |-> "xf",
                        data |-> <<Fetched(Bound(described, described.array.xf), c.idx)>>])]
          [] c.op = "nest" -> [s EXCEPT !.published = unpublished]
          [] OTHER -> s
  IN  FoldLeft(Visit, [v |-> v0, a |-> a0, mirror |-> mirror0,
                       published |-> unpublished, drawn |-> <<>>], Inlined(text))

-----------------------------------------------------------------------------
(* The scan cache.                                                         *)

\* HashScanLayoutState.
Hashed == IF hash.dirty THEN [of |-> Layout(vtx), dirty |-> FALSE] ELSE hash

Key(l) == <<l, Hashed.of>>

\* The record ProbeDlScanCache accepts: no write was flushed over the list
\* since, or its bytes are still those the digest was taken of.
CanReuse(l, record) == record.gen = gen[l] \/ record.digest = Text(l)

Hit(l) == Key(l) \in DOMAIN scans /\ CanReuse(l, scans[Key(l)])

Found(l) == IF Hit(l) THEN scans[Key(l)].found ELSE Scanned(vtx, Text(l))

\* A nested list stays uncached: the digest covers the outer list only.
Cacheable(found) == found.ok /\ ~ found.nested

\* StoreDlScanCache: a full cache is emptied first.
Stored(l, found) ==
  LET kept == IF Key(l) \notin DOMAIN scans /\ Cardinality(DOMAIN scans) >= MaxScans
              THEN <<>> ELSE scans
  IN  (Key(l) :> [gen |-> gen[l], digest |-> Text(l), found |-> found]) @@ kept

ScansAfter(l) ==
  CASE Hit(l) -> [scans EXCEPT ![Key(l)].gen = gen[l]]
    [] ~ Hit(l) /\ ~ MayContainDraw(Text(l)) -> scans
    [] OTHER -> IF Cacheable(Found(l)) THEN Stored(l, Found(l)) ELSE scans

-----------------------------------------------------------------------------
(* Preparing Aurora for a whole list.                                      *)

NeedsPack(b, found) ==
  Spacing[b] = "wide" \/ (Spacing[b] = "padded" /\ Cardinality(found.rows) <= 1)

\* Put elements into the attribute's other host copy of this kind and bind it.
PublishCopy(m, kind, elements) ==
  LET slot == IF cursor[kind] = "0" THEN "1" ELSE "0"
  IN  PublishArray([m EXCEPT !.a.copies[kind][slot] = elements], "vtx",
                   [kind |-> kind, at |-> slot, size |-> Len(elements)])

UsesIndices(found) == vtx.desc = "index" /\ HasIndexedDraw(found)

\* ApplyAuroraArraysForDisplayList and its XF counterpart: bind what the scan
\* found used, or say that an array is missing.
ArraysMissing(found) ==
  \/ UsesIndices(found) /\ vtx.array.vtx = NoBase
  \/ HasIndexedXf(found) /\ vtx.array.xf = NoBase

Packs(found) ==
  UsesIndices(found) /\ vtx.array.vtx # NoBase /\ NeedsPack(vtx.array.vtx, found)

PublishArrays(m, found) ==
  LET b == vtx.array.vtx
      span(attr) == [kind |-> "guest", at |-> vtx.array[attr], size |-> found.reach[attr]]
      m1 == IF ~ UsesIndices(found) \/ b = NoBase THEN m
            ELSE IF Packs(found)
            THEN PublishCopy(m, "pack", [k \in 1..found.reach["vtx"] |-> Element(b, k - 1)])
            ELSE PublishArray(m, "vtx", span("vtx"))
  IN  IF HasIndexedXf(found) /\ vtx.array.xf # NoBase
      THEN PublishArray(m1, "xf", span("xf")) ELSE m1

Prepared(found) ==
  PublishRows(PublishDesc([a |-> live, mirror |-> applied], vtx.desc), vtx, found)

\* RewriteSparseIndexedDisplayList: the indices used, in order of first use,
\* and the list with each index replaced by its place among them.
Used(text) ==
  FoldLeft(LAMBDA used, c :
             IF c.op # "draw" THEN used
             ELSE FoldLeft(LAMBDA u, i : IF Contains(u, i) THEN u ELSE Append(u, i), used, c.idx),
           <<>>, text)

Rewritten(text) ==
  LET dense(i) == (CHOOSE k \in 1..Len(Used(text)) : Used(text)[k] = i) - 1
  IN  [n \in 1..Len(text) |->
         IF text[n].op # "draw" THEN text[n]
         ELSE [text[n] EXCEPT !.idx = [k \in 1..Len(@) |-> dense(@[k])]]]

\* Only a state-stable list of one format whose elements lie four times
\* farther apart than they need to.
SparseGain == 4

DrawsSparse(l, found) ==
  /\ option.sparse /\ found.ok /\ ~ found.nested /\ ~ HasCpWrites(found)
  /\ ~ HasIndexedXf(found) /\ Cardinality(found.rows) = 1
  /\ UsesIndices(found) /\ vtx.array.vtx # NoBase
  /\ SparseGain * Len(Used(Text(l))) <= found.reach["vtx"]

-----------------------------------------------------------------------------
(* GX__CallDisplayList: one action for each of the paths it takes.         *)

Working(n) == ops < MaxOps /\ ops' = ops + n

LayoutKept(v) == Layout(v) = Layout(vtx)

Drawn(drawn, v) == drew' = [drawn |-> drawn, left |-> v]

\* A list is interpreted from state v; with the mirror given up or kept.
InterpretFrom(l, v, m) ==
  LET end == Interpreted(v, m.a, m.mirror, Text(l))
  IN  /\ vtx' = end.v
      /\ hash' = [Hashed EXCEPT !.dirty = @ \/ ~ LayoutKept(end.v)]
      /\ live' = end.a
      /\ applied' = [end.mirror EXCEPT !.same = @ /\ LayoutKept(end.v)]
      /\ Drawn(end.drawn, end.v)

Calls(l) ==
  /\ Working(1)
  /\ meant' = Meaning(vtx, Text(l))
  /\ scans' = ScansAfter(l)
  /\ UNCHANGED <<version, gen, option>>

DrawFree(l) ==
  /\ ~ Hit(l) /\ ~ MayContainDraw(Text(l))
  /\ Calls(l)
  /\ InterpretFrom(l, vtx, [a |-> live, mirror |-> applied])
  /\ UNCHANGED cursor

\* The list may draw: its scan is at hand, and the title's choice of
\* deindexed lists does not take it.
TakesDeindexed(found) ==
  /\ option.deindexed /\ found.ok /\ HasIndexedDraw(found)
  /\ ~ HasCpWrites(found) /\ ~ found.nested /\ ~ HasIndexedXf(found)

GivenUp == [a |-> live, mirror |-> Invalidated(applied)]

DeindexedList(l) ==
  /\ Hit(l) \/ MayContainDraw(Text(l))
  /\ TakesDeindexed(Found(l))
  /\ Calls(l)
  /\ InterpretFrom(l, vtx, GivenUp)
  /\ UNCHANGED cursor

\* The scan left the state behind the last CP write; go back to the entry.
EntryState(found) ==
  Restored(vtx, FoldLeft(CpWrite, vtx, found.writes), found.writes)

CpReplay(l) ==
  /\ Hit(l) \/ MayContainDraw(Text(l))
  /\ HasCpWrites(Found(l))
  /\ Calls(l)
  /\ InterpretFrom(l, EntryState(Found(l)), GivenUp)
  /\ UNCHANGED cursor

\* A list that goes to Aurora as it is, or with its nested lists in place.
Stable(l, found) ==
  /\ Hit(l) \/ MayContainDraw(Text(l))
  /\ ~ TakesDeindexed(found) /\ ~ HasCpWrites(found) /\ found.ok

WholeTo(m0, l, stream) ==
  LET end == Executed(m0.a, stream)
      \* a miss on a nested list flattens it from the restored entry state
      mirror == [m0.mirror EXCEPT !.same = @ /\ ~ Found(l).nested]
  IN  /\ live' = end.a
      /\ applied' = Synced(mirror, vtx)
      /\ hash' = Hashed
      /\ Drawn(end.drawn, vtx)
      /\ UNCHANGED vtx

CursorAfter(found) ==
  IF Packs(found) THEN [cursor EXCEPT !["pack"] = IF @ = "0" THEN "1" ELSE "0"] ELSE cursor

WholeList(l) ==
  LET found == Found(l) IN
  /\ Stable(l, found) /\ ~ DrawsSparse(l, found) /\ ~ ArraysMissing(found)
  /\ Calls(l)
  /\ WholeTo(PublishArrays(Prepared(found), found), l, Inlined(Text(l)))
  /\ cursor' = CursorAfter(found)

SparseList(l) ==
  LET found == Found(l)
      used == Used(Text(l))
      ready == Prepared(found)
      forgotten == [ready EXCEPT !.mirror.array["vtx"].valid = FALSE]
  IN
  /\ Stable(l, found) /\ DrawsSparse(l, found)
  /\ Calls(l)
  /\ WholeTo(PublishCopy(forgotten, "sparse",
                [k \in 1..Len(used) |-> Element(vtx.array.vtx, used[k])]),
             l, Rewritten(Text(l)))
  /\ cursor' = [cursor EXCEPT !["sparse"] = IF @ = "0" THEN "1" ELSE "0"]

\* The scan failed, or an array is missing: what was published so far stays.
InterpretedList(l) ==
  LET found == Found(l)
      ready == IF found.ok THEN PublishArrays(Prepared(found), found)
           ELSE [a |-> live, mirror |-> applied]
  IN
  /\ Hit(l) \/ MayContainDraw(Text(l))
  /\ ~ TakesDeindexed(found) /\ ~ HasCpWrites(found)
  /\ ~ found.ok \/ ArraysMissing(found)
  /\ Calls(l)
  /\ InterpretFrom(l, vtx, [ready EXCEPT !.mirror = Invalidated(@)])
  /\ cursor' = IF found.ok THEN CursorAfter(found) ELSE cursor

CallDisplayList(l) ==
  \/ DrawFree(l) \/ DeindexedList(l) \/ CpReplay(l)
  \/ WholeList(l) \/ SparseList(l) \/ InterpretedList(l)

-----------------------------------------------------------------------------
(* What the guest does between the lists.                                  *)

\* A new vertex layout: the hash is stale, and so is the mirror's memo.
Layouts(v) ==
  /\ vtx' = v
  /\ hash' = [hash EXCEPT !.dirty = @ \/ ~ LayoutKept(v)]

Settings == UNCHANGED <<cursor, scans, version, gen, option, drew, meant>>

\* GX__SetVtxDesc, GX__SetVtxAttrFmt, GX__SetArray (gx_vertex.cpp).
SetVtxDesc(type) ==
  /\ Working(1)
  /\ Layouts([vtx EXCEPT !.desc = type])
  /\ applied' = [applied EXCEPT !.same = @ /\ type = vtx.desc]
  /\ live' = [live EXCEPT !.desc = Published(type)]
  /\ Settings

SetVtxAttrFmt(row, frac) ==
  /\ Working(1)
  /\ Layouts([vtx EXCEPT !.fmt[row] = frac])
  /\ applied' = [applied EXCEPT !.same = @ /\ frac = vtx.fmt[row]]
  /\ live' = [live EXCEPT !.fmt[row] = frac]
  /\ Settings

SetVtxArray(attr, b) ==
  /\ Working(1)
  /\ vtx' = [vtx EXCEPT !.array[attr] = b]
  /\ UNCHANGED <<hash, live, applied>>
  /\ Settings

\* A CP write in the raw FIFO stream reaches the HLE state only.
RawCpWrite(c) ==
  /\ Working(1)
  /\ Layouts(CpWrite(vtx, c))
  /\ applied' = [applied EXCEPT !.same = @ /\ LayoutKept(CpWrite(vtx, c))]
  /\ UNCHANGED live
  /\ Settings

\* An immediate-mode draw (GX__Begin) publishes unconditionally.
ImmediateDraw(row, i) ==
  LET a == [live EXCEPT !.desc = Published(vtx.desc), !.fmt[row] = vtx.fmt[row]] IN
  /\ Working(1)
  /\ live' = a
  /\ Drawn(<<Submitted(a, row, <<Datum(vtx, i)>>)>>, vtx)
  /\ meant' = Meaning(vtx, <<[op |-> "draw", row |-> row, idx |-> <<i>>]>>)
  /\ UNCHANGED <<vtx, hash, applied, cursor, scans, version, gen, option>>

\* A draw in the raw FIFO stream (ApplyAuroraVtxStateForRawDirect).
RawDraw(row, i) ==
  LET m0 == [a |-> live, mirror |-> [applied EXCEPT !.same = FALSE]]
      ready == PublishRow(PublishDesc(m0, Published(vtx.desc)), vtx, row)
  IN
  /\ Working(1)
  /\ live' = ready.a
  /\ applied' = ready.mirror
  /\ Drawn(<<Submitted(ready.a, row, <<Datum(vtx, i)>>)>>, vtx)
  /\ meant' = Meaning(vtx, <<[op |-> "draw", row |-> row, idx |-> <<i>>]>>)
  /\ UNCHANGED <<vtx, hash, cursor, scans, version, gen, option>>

\* An indexed XF load in the raw FIFO stream binds its array behind the mirror.
RawIndexedXf(i) ==
  LET text == <<[op |-> "xf", idx |-> i]>>
      end == Interpreted(vtx, live, applied, text)
  IN
  /\ Working(1)
  /\ vtx.array.xf # NoBase
  /\ live' = end.a
  /\ applied' = end.mirror
  /\ Drawn(end.drawn, vtx)
  /\ meant' = Meaning(vtx, text)
  /\ UNCHANGED <<vtx, hash, cursor, scans, version, gen, option>>

\* The guest rewrites a list or an array and flushes it, or flushes something
\* else of the same granule (GxGuestWrite::NotifyWrite).
Rewrite(r) ==
  /\ Working(1)
  /\ version[r] < MaxWrites /\ version' = [version EXCEPT ![r] = @ + 1]
  /\ gen' = [gen EXCEPT ![r] = @ + 1]
  /\ UNCHANGED <<vtx, hash, live, applied, cursor, scans, option, drew, meant>>

FlushNearby(r) ==
  /\ Working(1)
  /\ gen[r] < version[r] + MaxWrites /\ gen' = [gen EXCEPT ![r] = @ + 1]
  /\ UNCHANGED <<vtx, hash, live, applied, cursor, scans, version, option, drew, meant>>

\* The end of a batch drops the uploads (gfx/common.cpp).
EndBatch ==
  /\ live.snapshot # NoSnapshot
  /\ live' = [live EXCEPT !.snapshot = NoSnapshot]
  /\ UNCHANGED <<vtx, hash, applied, cursor, scans, version, gen, option, drew, meant, ops>>

-----------------------------------------------------------------------------

FirstFrac == CHOOSE f \in Fracs : TRUE
FirstBase == CHOOSE b \in Bases : TRUE

\* The title has set up a layout, indexed or not, and its matrices.
Init ==
  /\ \E type \in Types :
       vtx = [desc |-> type, fmt |-> [row \in Rows |-> FirstFrac],
              array |-> [vtx |-> IF type = "index" THEN FirstBase ELSE NoBase, xf |-> FirstBase]]
  /\ hash = [of |-> Layout(vtx), dirty |-> TRUE]
  /\ live = [desc |-> "direct", fmt |-> [row \in Rows |-> FirstFrac],
             array |-> [attr \in Attrs |-> NoBinding], snapshot |-> NoSnapshot,
             copies |-> [kind \in {"pack", "sparse"} |-> [k \in Slots |-> <<>>]]]
  /\ applied = [desc |-> "none", descValid |-> FALSE,
                fmt |-> [row \in Rows |-> FirstFrac], fmtValid |-> FALSE, same |-> FALSE,
                array |-> [attr \in Attrs |-> [valid |-> FALSE] @@ NoBinding]]
  /\ cursor = [kind \in {"pack", "sparse"} |-> "0"]
  /\ scans = <<>>
  /\ version = [r \in Regions |-> 0]
  /\ gen = [r \in Regions |-> 0]
  /\ option \in [sparse : {FALSE, Sparse}, deindexed : {FALSE, Deindexed}]
  /\ ~ (option.sparse /\ option.deindexed)
  /\ drew = [drawn |-> <<>>, left |-> vtx]
  /\ meant = drew
  /\ ops = 0

CpWrites ==
  [op : {"desc"}, to : Types] \cup [op : {"fmt"}, row : Rows, to : Fracs]
    \cup [op : {"array"}, attr : Attrs, to : Bases]

Next ==
  \/ \E l \in Lists : CallDisplayList(l)
  \/ \E type \in Types : SetVtxDesc(type)
  \/ \E row \in Rows, frac \in Fracs : SetVtxAttrFmt(row, frac)
  \/ \E attr \in Attrs, b \in Bases : SetVtxArray(attr, b)
  \/ \E c \in CpWrites : RawCpWrite(c)
  \/ \E row \in Rows, i \in Indices : ImmediateDraw(row, i) \/ RawDraw(row, i)
  \/ \E i \in Indices : RawIndexedXf(i)
  \/ \E r \in Regions : Rewrite(r) \/ FlushNearby(r)
  \/ EndBatch

Spec == Init /\ [][Next]_dlVars

-----------------------------------------------------------------------------
(* Properties.                                                             *)

\* The hash in use describes the layout in force.
TypeOK ==
  /\ vtx.desc \in Types /\ vtx.fmt \in [Rows -> Fracs]
  /\ vtx.array \in [Attrs -> Bases \cup {NoBase}]
  /\ hash.dirty \in BOOLEAN /\ (~ hash.dirty => hash.of = Layout(vtx))
  /\ live.desc \in Types /\ live.fmt \in [Rows -> Fracs]
  /\ \A attr \in Attrs : live.array[attr].size \in Nat
  /\ \A flag \in {"descValid", "fmtValid", "same"} : applied[flag] \in BOOLEAN
  /\ cursor \in [{"pack", "sparse"} -> Slots]
  /\ Cardinality(DOMAIN scans) <= MaxScans
  /\ version \in [Regions -> 0..MaxWrites] /\ gen \in [Regions -> Nat]
  /\ ops \in 0..MaxOps

\* Whatever path a list takes, from a scan of this call or a cached one, and
\* whatever immediate draws, raw FIFO commands, rewrites of lists and arrays
\* and new batches came between, Aurora draws what the list's commands say
\* when they are obeyed one after another, with the formats and array elements
\* in force at each, and the vertex state is left as they leave it
\* (GX__CallDisplayList: replaying "lands g_hleGxState exactly where the
\* uncached path would have left it").
DrawsAsCommanded == drew = meant
=============================================================================
