---------------------------- MODULE StaticFiles ----------------------------
(***************************************************************************)
(* File serving: the static-file dispatcher (src/static/http_static.c),    *)
(* the open-file cache it shares between requests of one thread            *)
(* (http_static_cache.c), the sidecar selection (http_precompressed.c) and *)
(* the asynchronous engine both it and HttpResponse::sendFile() run on     *)
(* (send_file.c, http_send_file.c).                                        *)
(*                                                                         *)
(* One action is one call on the event loop: Serve is the whole of         *)
(* http_static_try_serve_mounts, SendFile the whole of                     *)
(* http_send_file_dispatch, DeferDispatch the engine's 0-ms timer, OpDone  *)
(* the protocol's completion.  Between two of them files change, the clock *)
(* moves and other requests run.                                           *)
(*                                                                         *)
(* A file is told apart by its version, which stands for its stat (inode,  *)
(* size, mtime) and its bytes: an ETag or a Last-Modified is the version   *)
(* it was rendered from.  Versions grow with time.                         *)
(***************************************************************************)
EXTENDS Integers, Sequences, FiniteSets, SequencesExt

CONSTANTS
  Slots,        \* requests that may be in flight at once
  Paths,        \* files of the mount, sidecars included
  Sidecar,      \* [path -> sequence of <<coding, path>>], most preferred first
  Mounts,       \* sequence of mounts, in registration order
  Wanted,       \* [slot -> requests made of the mounts]
  Downloads,    \* [slot -> sendFile() calls a handler makes]
  SizeOf,       \* size of each version
  Volatile,     \* the paths whose file may be replaced
  NewKinds,     \* what may take its place
  SlurpMax,     \* SEND_FILE_SLURP_THRESHOLD
  MaxFile,      \* HTTP_STATIC_MAX_FILE_SIZE
  MaxDefer,     \* ticks the clock may move before a 0-ms timer fires
  MaxFaults     \* bound on failing system calls

VARIABLES
  fs,      \* path -> [kind, ver]
  gone,    \* version -> ticks since it was last some file's content
  vers,    \* versions handed out
  cache,   \* entries, most recently used first
  count,   \* cache->count
  slot,    \* slot -> the request in flight and its engine state
  faults

vars == <<fs, gone, vers, cache, count, slot, faults>>

Versions == 1..Len(SizeOf)
NoVer == 0

\* What a path names: nothing, a regular file, a link to a file inside the
\* root, a link out of the root, or something that is not a regular file.
Kinds == {"none", "file", "link", "out", "dir"}

IsReg(p) == fs[p].kind \in {"file", "link", "out"}   \* stat() follows links

---------------------------------------------------------------------------
(* The open-file cache.  Its operations transform a record [q, n, freed]:  *)
(* the list, the count and the paths whose entry was freed on the way.     *)

Cache == [q |-> cache, n |-> count, freed |-> {}]

FindEntry(k, p) == SelectInSeq(k.q, LAMBDA e : e.path = p)

EvictEntry(k, i) == [q |-> RemoveAt(k.q, i), n |-> k.n - 1,
                     freed |-> k.freed \cup {k.q[i].path}]

EvictLru(k) == IF k.q = << >> THEN k ELSE EvictEntry(k, Len(k.q))

LruPromote(k, i) == [k EXCEPT !.q = <<k.q[i]>> \o RemoveAt(k.q, i)]

\* http_static_cache_acquire: one cache for all mounts, with the largest
\* capacity and the shortest lifetime any of them asked for.
Caching == {m \in Range(Mounts) : m.entries > 0 /\ m.ttl > 0}
MaxEntries == IF Caching = {} THEN 0 ELSE Max({m.entries : m \in Caching})
Ttl == IF Caching = {} THEN 0 ELSE Min({m.ttl : m \in Caching})

CacheDisabled == MaxEntries = 0 \/ Ttl <= 0

Expired(e) == e.age > Ttl

\* http_static_cache_lookup
Lookup(k, p) ==
  LET i == FindEntry(k, p) IN
  IF CacheDisabled \/ i = 0 \/ k.q[i].neg THEN [k |-> k, hit |-> FALSE]
  ELSE IF Expired(k.q[i]) THEN [k |-> EvictEntry(k, i), hit |-> FALSE]
  ELSE [k |-> LruPromote(k, i), hit |-> TRUE]

\* http_static_cache_insert and http_static_cache_negative_insert
AddEntry(k, e) ==
  IF CacheDisabled THEN k
  ELSE LET i  == FindEntry(k, e.path)
           k1 == IF i = 0 THEN k ELSE EvictEntry(k, i)
           k2 == IF k1.n >= MaxEntries THEN EvictLru(k1) ELSE k1
       IN  [k2 EXCEPT !.q = <<e>> \o @, !.n = @ + 1]

CacheInsert(k, p, v, tag) ==
  AddEntry(k, [path |-> p, age |-> 0, neg |-> FALSE, ver |-> v, tag |-> tag,
               body |-> NoVer])

NegativeInsert(k, p) ==
  AddEntry(k, [path |-> p, age |-> 0, neg |-> TRUE, ver |-> NoVer, tag |-> NoVer,
               body |-> NoVer])

\* http_static_cache_body_acquire and _body_store: neither looks at the age
\* nor at the version the entry was made from.
BodyAcquire(k, p) == LET i == FindEntry(k, p) IN
                     IF CacheDisabled \/ i = 0 THEN NoVer ELSE k.q[i].body

BodyStore(k, p, v) ==
  LET i == FindEntry(k, p) IN
  IF CacheDisabled \/ i = 0 \/ SizeOf[v] = 0 THEN k
  ELSE IF k.q[i].body # NoVer THEN k ELSE [k EXCEPT !.q[i].body = v]

\* http_static_cache_probe
Probe(k, p) ==
  LET i == FindEntry(k, p) IN
  IF CacheDisabled \/ i = 0 THEN [k |-> k, found |-> "unknown"]
  ELSE IF Expired(k.q[i]) THEN [k |-> EvictEntry(k, i), found |-> "unknown"]
  ELSE [k |-> k, found |-> IF k.q[i].neg THEN "absent" ELSE "exists"]

---------------------------------------------------------------------------
(* Requests against validators and ranges.                                 *)

\* http_range_parse: what a Range header selects from a body of n bytes.
\* A range is [form, first, last]; last < 0 stands for an absent last byte.
RangeParse(r, n) ==
  CASE r.form = "none"   -> [res |-> "absent"]
    [] r.form = "bad"    -> [res |-> "unsupported"]
    [] n = 0             -> [res |-> "unsatisfiable"]
    [] r.form = "suffix" -> IF r.last <= 0 THEN [res |-> "unsupported"]
                            ELSE [res |-> "ok", len |-> IF r.last >= n THEN n ELSE r.last]
    [] r.first >= n      -> [res |-> "unsatisfiable"]
    [] r.last < 0        -> [res |-> "ok", len |-> n - r.first]
    [] r.last < r.first  -> [res |-> "unsupported"]
    [] OTHER             -> [res |-> "ok",
                             len |-> (IF r.last >= n THEN n - 1 ELSE r.last) - r.first + 1]

\* http_etag_match_inm: inm is the set of tags listed, "*" among them or not.
EtagMatchInm(inm, etag) == inm.any \/ etag \in inm.tags

\* http_conditional_check: If-None-Match, when sent, decides alone.
ConditionalCheck(req, etag, mtime) ==
  IF req.inm.sent THEN EtagMatchInm(req.inm, etag)
  ELSE req.ims # NoVer /\ mtime <= req.ims

---------------------------------------------------------------------------
(* From a request target to a file.  A target says which mount's prefix it *)
(* starts with, whether its bytes decode, what its segments are, and which *)
(* path they name below the root.                                          *)

\* percent_decode refuses a bad escape, a NUL, a backslash and a path that
\* does not fit; which of them it was makes no difference.
PercentDecode(t) == IF t.bytes = "ok" THEN "ok" ELSE "bad"

SegmentVerdict(m, seg) ==
  CASE seg = "empty"               -> "bad"
    [] seg \in {"dot", "dotdot"}   -> "forbidden"
    [] seg = "dotfile"             -> CASE m.dotfiles = "deny"   -> "forbidden"
                                        [] m.dotfiles = "ignore" -> "hide"
                                        [] OTHER                 -> "ok"
    [] OTHER                       -> "ok"

\* validate_segments: the first segment that is not in order decides.
ValidateSegments(m, segs) ==
  LET i == SelectInSeq(segs, LAMBDA s : SegmentVerdict(m, s) # "ok")
  IN  IF i = 0 THEN "ok" ELSE SegmentVerdict(m, segs[i])

\* http_static_path_resolve
PathResolve(mi, t) ==
  CASE ~t.absolute                -> "bad"
    [] t.mount # mi               -> "nomatch"
    [] PercentDecode(t) = "bad"   -> "bad"
    [] OTHER                      -> ValidateSegments(Mounts[mi], t.segs)

\* The index file of a directory, or "" when none is a regular file.
IndexOf(m) ==
  LET i == SelectInSeq(m.index, LAMBDA p : IsReg(p))
  IN  IF i = 0 THEN "" ELSE m.index[i]

\* http_precompressed_select: the first enabled and acceptable sidecar that
\* the cache or a stat() says exists.  sendFile() has no cache to ask.
PrecompressedSelect(k, useCache, enabled, accept, p) ==
  LET Try(acc, side) ==
        LET pr == IF useCache THEN Probe(acc.k, side[2])
                  ELSE [k |-> acc.k, found |-> "unknown"]
        IN  IF acc.coded \/ side[1] \notin enabled \cap accept THEN acc
            ELSE IF \/ pr.found = "exists"
                    \/ pr.found = "unknown" /\ IsReg(side[2])
              THEN [k |-> pr.k, path |-> side[2], coded |-> TRUE]
            ELSE IF pr.found = "absent" \/ ~useCache THEN [acc EXCEPT !.k = pr.k]
            ELSE [acc EXCEPT !.k = NegativeInsert(pr.k, side[2])]
  IN  FoldLeft(Try, [k |-> k, path |-> p, coded |-> FALSE], Sidecar[p])

IsLink(p) == fs[p].kind \in {"link", "out"}

\* http_static_symlink_policy_admits.  A link inside the root has its target's
\* owner, a link out of it another.
SymlinkPolicyAdmits(m, p) ==
  CASE m.policy = "reject" -> fs[p].kind \notin {"none", "link", "out"}
    [] m.policy = "owner"  -> fs[p].kind \notin {"none", "out"}
    [] OTHER               -> TRUE

\* http_static_resolved_under_root
ResolvedUnderRoot(p) == fs[p].kind \in {"file", "link", "dir"}

\* open(2), with O_NOFOLLOW or without
Opens(p, nofollow) == fs[p].kind # "none" /\ (nofollow => ~IsLink(p))

\* http_static_try_open_candidate: the open file must also be the inode
\* lstat() finds under the path.
TryOpenCandidate(m, p) == Opens(p, m.policy = "reject") /\ IsReg(p) /\ ~IsLink(p)

\* fs_slurp_fd reads exactly the expected number of bytes or fails.
SlurpFd(content, expected) == SizeOf[content] >= expected

---------------------------------------------------------------------------
(* The engine.  A slot holds the request and, while armed, engine_state_t. *)

NoAnswer == [st |-> 0, etag |-> NoVer, body |-> NoVer, len |-> 0]

FreeSlot ==
  [ph |-> "free", req |-> [kind |-> "none"], age |-> 0, path |-> "", ver |-> NoVer,
   content |-> NoVer, own |-> "none", view |-> FALSE, tag |-> NoVer,
   dangle |-> FALSE, err |-> 0, reg |-> FALSE, etag |-> FALSE, cached |-> FALSE, armed |-> FALSE,
   ret |-> "none", ans |-> NoAnswer, arms |-> 0, dones |-> 0, fds |-> 0, frees |-> 0]

NoInm == [sent |-> FALSE, any |-> FALSE, tags |-> {}]

\* A slot whose request is over keeps what the properties look at.
Ended(s) ==
  [FreeSlot EXCEPT !.ph = "end", !.age = s.age, !.dangle = s.dangle, !.ret = s.ret,
     !.ans = s.ans, !.arms = s.arms, !.dones = s.dones, !.fds = s.fds, !.frees = s.frees,
     !.req = [kind  |-> s.req.kind,
              mount |-> IF s.req.kind = "static" /\ s.ans.st # 0 THEN s.req.target.mount ELSE 0,
              inm   |-> IF s.ans.st = 304 THEN s.req.inm ELSE NoInm]]

(* Mutant: the descriptor of an engine that ends early is left open. *)
FinalizeLeaksFd(s, status) ==
  Ended([s EXCEPT !.dones = @ + (IF s.armed THEN 1 ELSE 0),
                  !.frees = @ + (IF s.armed /\ s.req.kind = "download" THEN 1 ELSE 0)])

\* engine_finalize; sendFile()'s on_done frees its adapter.
Finalize(s, status) ==
  Ended([s EXCEPT !.fds   = @ - (IF s.own = "engine" THEN 1 ELSE 0),
                  !.dones = @ + (IF s.armed THEN 1 ELSE 0),
                  !.frees = @ + (IF s.armed /\ s.req.kind = "download" THEN 1 ELSE 0)])

\* Files unlinked by engine_finalize.
Unlinked(s, status) == IF s.req.kind = "download" /\ s.req.del /\ status = 0
                       THEN {s.path} ELSE {}

\* engine_delegate_to_protocol: a NULL file_io closes the engine's own file
\* first; a refusal gives the file back.
Delegate(s, withFile, ok) ==
  LET kept == IF withFile \/ s.own # "engine" THEN s
              ELSE [s EXCEPT !.fds = @ - 1, !.own = "none"]
  IN  IF ok THEN [kept EXCEPT !.ph = "op", !.own = IF withFile THEN "op" ELSE "none"]
      ELSE Finalize([kept EXCEPT !.ans = NoAnswer], -1)

\* engine_emit_error_via_op
EmitErrorViaOp(s, st, ok) ==
  Delegate([s EXCEPT !.ans = [NoAnswer EXCEPT !.st = st]], FALSE, ok)

\* engine_arm_and_defer_error
ArmAndDeferError(s, st, ok) ==
  LET a == [s EXCEPT !.arms = @ + 1, !.armed = TRUE, !.err = st,
                     !.ph = "deferred", !.ret = "async"]
  IN  IF ok THEN a ELSE Finalize(a, -1)

\* engine_handle_open_failure
HandleOpenFailure(s, onError, ok) ==
  CASE onError = "passthrough" -> Ended([s EXCEPT !.ret = "pass"])
    [] onError = "via_op"      -> ArmAndDeferError(s, 404, ok)
    [] onError = "inline_500"  -> ArmAndDeferError(s, 500, ok)

\* send_file.  s already carries the configuration; f is the call that fails.
SendFile(s, onError, nofollow, f) ==
  LET p == s.path
      o == [s EXCEPT !.content = fs[p].ver, !.fds = @ + 1]
      closed == [o EXCEPT !.fds = @ - 1, !.content = NoVer]
      io == [o EXCEPT !.own = "engine",
                      !.reg = s.view \/ IsReg(p),
                      !.ver = IF s.view THEN @ ELSE fs[p].ver]
      armed == [io EXCEPT !.arms = @ + 1, !.armed = TRUE, !.ph = "deferred",
                          !.ret = "async"]
  IN  IF ~s.req.op THEN [s EXCEPT !.ret = "handled"]
      ELSE IF ~Opens(p, nofollow) THEN HandleOpenFailure(s, onError, f # "timer")
      ELSE IF (f = "fstat" /\ ~s.view) \/ f = "io" THEN ArmAndDeferError(closed, 500, TRUE)
      ELSE IF f = "timer" THEN Finalize(armed, -1)
      ELSE armed

\* Rendered from a cache entry that was freed meanwhile: whatever is there now.
Junk == -1

\* The ETag engine_handle_stat emits: the view's, or one of the file's stat.
EngineTag(s, junk) ==
  IF s.view THEN (IF s.dangle /\ junk THEN Junk ELSE s.tag)
  ELSE IF s.etag THEN s.ver ELSE NoVer

IsDownload(s) == s.req.kind = "download"

\* If-Range lets the range through only on an exact tag.
RangeAllowed(req, tag) == req.ifr = NoVer \/ (tag # NoVer /\ req.ifr = tag)

\* What engine_handle_stat selects from the body.
EngineRange(s, tag, notModified) ==
  IF notModified \/ (IsDownload(s) /\ ~s.req.ranges) \/ ~RangeAllowed(s.req, tag)
  THEN [res |-> "absent"] ELSE RangeParse(s.req.range, SizeOf[s.ver])

\* The status of a body or head that is no error.
EngineStatus(s, notModified, range) ==
  CASE notModified                              -> 304
    [] IsDownload(s) /\ s.req.status # 0        -> s.req.status
    [] range.res = "ok"                         -> 206
    [] OTHER                                    -> 200

\* The hand-off at the end of engine_handle_stat: head only, a slurped body
\* written with the head, or the file itself.
EngineHandOff(s, tag, notModified, range, f, ok) ==
  LET size == SizeOf[s.ver]
      len  == IF range.res = "ok" THEN range.len ELSE size
      head == [st |-> EngineStatus(s, notModified, range), etag |-> tag,
               body |-> NoVer, len |-> IF notModified THEN 0 ELSE len]
  IN  IF notModified \/ s.req.method = "HEAD" \/ size = 0
        THEN Delegate([s EXCEPT !.ans = head], TRUE, ok)
      ELSE IF range.res # "ok" /\ size <= SlurpMax /\ f # "slurp" /\ SlurpFd(s.content, size)
        THEN Delegate([s EXCEPT !.ans = [head EXCEPT !.body = s.content]], FALSE, ok)
      ELSE Delegate([s EXCEPT !.ans = [head EXCEPT !.body = s.content]], TRUE, ok)

\* engine_handle_stat: the cache as it leaves it, and the slot.
StatRanged(s, tag, notModified, range, f, ok) ==
  IF range.res = "unsatisfiable" THEN EmitErrorViaOp(s, 416, ok)
  ELSE EngineHandOff(s, tag, notModified, range, f, ok)

StatTagged(s, tag, f, ok) ==
  LET notModified == (IsDownload(s) => s.req.cond) /\ ConditionalCheck(s.req, tag, s.ver)
  IN  [k |-> IF s.view \/ ~s.cached THEN Cache ELSE CacheInsert(Cache, s.path, s.ver, tag),
       s |-> StatRanged(s, tag, notModified, EngineRange(s, tag, notModified), f, ok)]

HandleStat(s, junk, f, ok) ==
  IF ~s.reg THEN [k |-> Cache, s |-> EmitErrorViaOp(s, IF IsDownload(s) THEN 500 ELSE 404, ok)]
  ELSE StatTagged(s, EngineTag(s, junk), f, ok)

---------------------------------------------------------------------------
(* The static dispatcher.                                                  *)

Answered(s, st) == Ended([s EXCEPT !.ret = "handled", !.ans = [NoAnswer EXCEPT !.st = st]])
Passed(s) == Ended([s EXCEPT !.ret = "pass"])
Missing(m, s) == IF m.next THEN Passed(s) ELSE Answered(s, 404)

\* static_emit_not_modified and static_emit_ok_headers with their body.
NotModified(s, tag) ==
  Ended([s EXCEPT !.ret = "handled", !.ans = [NoAnswer EXCEPT !.st = 304, !.etag = tag]])
OkBody(s, tag, body, len) ==
  Ended([s EXCEPT !.ret = "handled",
                  !.ans = [st |-> 200, etag |-> tag, body |-> body, len |-> len]])

\* Entry and body both cached: answered without touching the file.
HotHit(m, s, e, body) ==
  LET tag == IF m.etag THEN e.tag ELSE NoVer
      v == [s EXCEPT !.ver = e.ver]
  IN  IF ConditionalCheck(s.req, tag, e.ver) THEN NotModified(v, tag)
      ELSE OkBody(v, tag, body, SizeOf[body])

\* The synchronous path: open, check, read, answer.
SyncServe(m, s, k, inline, f) ==
  LET p   == s.path
      v   == fs[p].ver
      tag == IF m.etag THEN v ELSE NoVer
      o   == [s EXCEPT !.ver = v]
  IN  IF ~TryOpenCandidate(m, p) \/ f = "fstat" THEN [k |-> k, s |-> Missing(m, s)]
      ELSE IF ~ResolvedUnderRoot(p) \/ ~SymlinkPolicyAdmits(m, p)
        THEN [k |-> k, s |-> Answered(s, 404)]
      ELSE IF SizeOf[v] > MaxFile THEN [k |-> k, s |-> Answered(s, 413)]
      ELSE IF ConditionalCheck(s.req, tag, v) THEN [k |-> k, s |-> NotModified(o, tag)]
      ELSE IF s.req.method = "HEAD" THEN [k |-> k, s |-> OkBody(o, tag, NoVer, SizeOf[v])]
      ELSE IF f = "slurp" THEN [k |-> k, s |-> Answered(o, 500)]
      ELSE [k |-> IF inline THEN BodyStore(k, p, v) ELSE k,
            s |-> OkBody(o, tag, v, SizeOf[v])]

\* After the lookup lk: the cached body, the engine, or the synchronous path.
ServeEntry(m, s, lk, f) ==
  LET req == s.req
      p   == s.path
      e   == lk.k.q[1]
      gate == lk.hit \/ (SymlinkPolicyAdmits(m, p) /\ ResolvedUnderRoot(p))
      inline == /\ lk.hit
                /\ req.method = "GET"
                /\ SizeOf[e.ver] <= SlurpMax
                /\ req.range.form = "none"
      cfg == [s EXCEPT !.view = lk.hit, !.etag = m.etag, !.cached = TRUE,
                       !.ver = IF lk.hit THEN e.ver ELSE NoVer,
                       !.tag = IF lk.hit THEN e.tag ELSE NoVer]
  IN  IF inline /\ BodyAcquire(lk.k, p) # NoVer
        THEN [k |-> lk.k, s |-> HotHit(m, s, e, BodyAcquire(lk.k, p))]
      ELSE IF ~inline /\ gate /\ req.op
        THEN [k |-> lk.k, s |-> SendFile(cfg, IF m.next THEN "passthrough" ELSE "via_op",
                                         m.policy = "reject", f)]
      ELSE SyncServe(m, s, lk.k, inline, f)

ServeSelected(m, s, sel, f) ==
  ServeEntry(m, [s EXCEPT !.path = sel.path], Lookup(sel.k, sel.path), f)

\* The part of http_static_try_serve_mounts that follows path resolution.
ServeFile(m, s, p, f) ==
  ServeSelected(m, s, IF m.precomp = {} THEN [k |-> Cache, path |-> p]
                      ELSE PrecompressedSelect(Cache, TRUE, m.precomp, s.req.accept, p), f)

\* http_static_try_serve_mounts: the first mount whose prefix matches decides.
TryServeMounts(s, f) ==
  LET t == s.req.target
      matching == {mi \in DOMAIN Mounts : PathResolve(mi, t) # "nomatch"}
      mi == Min(matching)
      m  == Mounts[mi]
      r  == PathResolve(mi, t)
  IN  IF s.req.method \notin {"GET", "HEAD"} \/ matching = {}
        THEN [k |-> Cache, s |-> Passed(s)]
      ELSE IF r = "bad" THEN [k |-> Cache, s |-> Answered(s, 400)]
      ELSE IF r = "forbidden" THEN [k |-> Cache, s |-> Answered(s, 404)]
      ELSE IF r = "hide" \/ t.hidden \/ (t.dir /\ IndexOf(m) = "")
        THEN [k |-> Cache, s |-> Missing(m, s)]
      ELSE ServeFile(m, s, IF t.dir THEN IndexOf(m) ELSE t.path, f)

\* http_send_file_dispatch
SendFileDispatch(s, f) ==
  LET req == s.req
      sel == IF req.precomp
             THEN PrecompressedSelect(Cache, FALSE, {c[1] : c \in Range(Sidecar[req.path])},
                                      req.accept, req.path).path
             ELSE req.path
      refused == [Answered(s, 500) EXCEPT !.frees = @ + 1]
  IN  IF ~req.valid \/ ~req.op THEN refused
      ELSE SendFile([s EXCEPT !.path = sel, !.etag = req.etag], "inline_500", FALSE, f)

---------------------------------------------------------------------------
Init ==
  /\ fs = [p \in Paths |-> [kind |-> "file", ver |-> 1]]
  /\ gone = [v \in Versions |-> 0]
  /\ vers = 1
  /\ cache = << >> /\ count = 0
  /\ slot = [i \in Slots |-> FreeSlot]
  /\ faults = 0

Idle(i) == slot[i].ph \in {"free", "end"}
Begin(req) == [FreeSlot EXCEPT !.req = req]

Faults(kinds) == {"none"} \cup (IF faults < MaxFaults THEN kinds ELSE {})
Faulty(f) == faults' = faults + (IF f = "none" THEN 0 ELSE 1)

\* What an answered request leaves to be looked at is dropped by the next
\* step, but for what the protocol's completion needs.
Scrubbed(s) ==
  CASE s.ph = "end" -> FreeSlot
    [] s.ph = "op"  -> [FreeSlot EXCEPT !.ph = "op", !.own = s.own, !.armed = s.armed,
                          !.arms = s.arms, !.fds = s.fds, !.ret = s.ret,
                          !.path = IF IsDownload(s) /\ s.req.del THEN s.path ELSE "",
                          !.req = [kind |-> s.req.kind,
                                   del  |-> IsDownload(s) /\ s.req.del]]
    [] OTHER        -> s
Scrub == slot' = [j \in Slots |-> Scrubbed(slot[j])]

\* Store the cache; a deferred engine whose view's entry was freed dangles.
Settle(i, r) ==
  /\ cache' = r.k.q /\ count' = r.k.n
  /\ slot' = [j \in Slots |->
       IF j = i THEN r.s
       ELSE IF slot[j].ph = "deferred" /\ slot[j].view /\ slot[j].path \in r.k.freed
         THEN [slot[j] EXCEPT !.dangle = TRUE]
       ELSE Scrubbed(slot[j])]

Current(v) == \E p \in Paths : fs[p].ver = v

Unlink(ps) ==
  /\ fs' = [p \in Paths |-> IF p \in ps THEN [kind |-> "none", ver |-> NoVer] ELSE fs[p]]

Serve(i) ==
  \E req \in Wanted[i], f \in Faults({"fstat", "io", "timer", "slurp"}) :
    /\ Idle(i)
    /\ Settle(i, TryServeMounts(Begin(req), f))
    /\ Faulty(f)
    /\ UNCHANGED <<fs, gone, vers>>

Download(i) ==
  \E req \in Downloads[i], f \in Faults({"fstat", "io", "timer"}) :
    /\ Idle(i)
    /\ Settle(i, [k |-> Cache, s |-> SendFileDispatch(Begin(req), f)])
    /\ Faulty(f)
    /\ UNCHANGED <<fs, gone, vers>>

\* engine_defer_dispatch
DeferDispatch(i) ==
  \E junk \in BOOLEAN, f \in Faults({"slurp", "op"}) :
    /\ slot[i].ph = "deferred"
    /\ junk => slot[i].dangle
    /\ LET s == slot[i]
       IN  Settle(i, IF s.err # 0
                     THEN [k |-> Cache, s |-> EmitErrorViaOp(s, s.err, f # "op")]
                     ELSE HandleStat(s, junk, f, f # "op"))
    /\ Faulty(f)
    /\ UNCHANGED <<fs, gone, vers>>

\* engine_on_protocol_done: the protocol closes the file it was given.
OpDone(i) ==
  \E f \in Faults({"write"}) :
    /\ slot[i].ph = "op"
    /\ LET s == slot[i]
           status == IF f = "none" THEN 0 ELSE -1
       IN  /\ Settle(i, [k |-> Cache,
                         s |-> Finalize([Scrubbed(s) EXCEPT
                                           !.fds = @ - (IF s.own = "op" THEN 1 ELSE 0),
                                           !.own = "none"], status)])
           /\ Unlink(Unlinked(s, status))
    /\ Faulty(f)
    /\ UNCHANGED <<gone, vers>>

\* Someone puts a new file, or a link to one, in place of what was there.
Replace(p) ==
  \E kind \in NewKinds :
    /\ vers < Len(SizeOf)
    /\ vers' = vers + 1
    /\ fs' = [fs EXCEPT ![p] = [kind |-> kind, ver |-> IF kind = "dir" THEN NoVer ELSE vers + 1]]
    /\ Scrub
    /\ UNCHANGED <<gone, cache, count, faults>>

Delete(p) ==
  /\ fs[p].kind # "none"
  /\ Unlink({p})
  /\ Scrub
  /\ UNCHANGED <<gone, vers, cache, count, faults>>

\* A second passes.  Ages are counted no further than they matter.
Horizon == Ttl + MaxDefer
Older(n) == IF n > Horizon + MaxDefer THEN n ELSE n + 1

Tick ==
  /\ \A i \in Slots : slot[i].ph = "deferred" => slot[i].age < MaxDefer
  /\ gone' = [v \in Versions |-> IF v > vers \/ Current(v) THEN 0 ELSE Older(gone[v])]
  /\ cache' = [i \in DOMAIN cache |-> [cache[i] EXCEPT !.age = Older(@)]]
  /\ slot' = [i \in Slots |-> IF slot[i].ph = "deferred" THEN [slot[i] EXCEPT !.age = @ + 1]
                              ELSE Scrubbed(slot[i])]
  /\ UNCHANGED <<fs, vers, count, faults>>

Next ==
  \/ \E i \in Slots : Serve(i) \/ Download(i) \/ DeferDispatch(i) \/ OpDone(i)
  \/ \E p \in Volatile : Replace(p)
  \/ \E p \in Paths : Delete(p)
  \/ Tick

Spec == Init /\ [][Next]_vars

---------------------------------------------------------------------------
\* Every descriptor is closed once, every armed engine reports once and an
\* engine that was not armed never does, and sendFile()'s request is freed
\* once: whichever of open, fstat, handle creation, timer, read, hand-off and
\* write fails, and in whichever state the file is then.
HandedBackOnce ==
  \A i \in Slots : LET s == slot[i] IN
    /\ s.ph = "end" =>
         /\ s.fds = 0
         /\ s.dones = s.arms
         /\ s.arms = IF s.ret = "async" THEN 1 ELSE 0
         /\ s.frees = IF IsDownload(s) THEN 1 ELSE 0
    /\ s.ph \in {"deferred", "op"} =>
         /\ s.arms = 1 /\ s.dones = 0 /\ s.frees = 0
         /\ s.fds = IF s.own = "none" THEN 0 ELSE 1

Served(s) == s.ph \in {"op", "end"} /\ s.ans.st # 0 /\ ~s.dangle

\* v was the content of some file n ticks before the request came, or later.
CurrentWithin(v, n, s) == Current(v) \/ gone[v] - s.age <= n

\* The lifetime bounds how stale an answer is, whichever path made it and
\* although the entry, its body and the open file may be of three versions:
\* the ETag and the body sent were each current within the lifetime before
\* the request (plus the delay of one deferral, between a stat and its entry).
StaleBounded ==
  \A i \in Slots : Served(slot[i]) =>
    \A v \in {slot[i].ans.etag, slot[i].ans.body} \ {NoVer} : CurrentWithin(v, Horizon, slot[i])

\* A client that listed its tags is told 304 only if one of them was current
\* within that same time, whatever date it sent along.
NotModifiedTruthful ==
  \A i \in Slots : LET s == slot[i] IN
    (Served(s) /\ s.ans.st = 304 /\ s.req.inm.sent /\ ~s.req.inm.any) =>
      \E v \in s.req.inm.tags : v \in Versions /\ CurrentWithin(v, Horizon, s)

\* An answer whose ETag and body are of one version promises no more bytes
\* than that version has, and all of them unless a range was asked for.
LengthKept ==
  \A i \in Slots : LET a == slot[i].ans IN
    (Served(slot[i]) /\ a.body # NoVer /\ a.etag = a.body) =>
      /\ a.len <= SizeOf[a.body]
      /\ a.st = 200 => a.len = SizeOf[a.body]

\* Together: an answer made from a file returns what it took and tells no lie.
FilesSound == HandedBackOnce /\ StaleBounded /\ NotModifiedTruthful /\ LengthKept

---------------------------------------------------------------------------
============================================================================
