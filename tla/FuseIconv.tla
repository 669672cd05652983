------------------------------ MODULE FuseIconv ------------------------------
(***************************************************************************)
(* The stacked module iconv (src/resources/fuse-2.9.6/lib/modules/iconv.c):*)
(* it converts every path to the encoding of the file system below, and    *)
(* link texts and directory entries back.  Threads share two conversion    *)
(* descriptors, which keep a state between calls, under one lock.          *)
(*                                                                         *)
(* A descriptor is set back after an error, and only then: a name that ends in *)
(* the shifted state changes how the next one is read.                      *)
(*                                                                         *)
(* A name is a sequence of characters: "<" and ">" shift the encoding,     *)
(* "!" is no character of it, "g" becomes Grown bytes, any other one byte. *)
(***************************************************************************)
EXTENDS Integers, Sequences, SequencesExt, FiniteSets, FiniteSetsExt

CONSTANTS
    Caller,         \* threads, each of which makes one call
    OpsOf,          \* Caller -> the operations it may ask for
    IconvNames,     \* paths
    IconvDir,       \* the entries a directory below holds, a sequence of names
    Grown,          \* bytes "g" becomes: more than the four per character allowed for
    IconvLinkSize   \* the size of the buffer for a link's text

ASSUME IconvAssumption == Grown \in Nat /\ IconvLinkSize \in Nat \ {0}

VARIABLES
    ic,         \* struct iconv: lock, the descriptors' states, what is allocated; ended (history):
                \* the shift state the names converted since the last error left each descriptor in
    icall       \* the threads' calls; starts (history): what ended was before each conversion

icvars == <<ic, icall>>

NoOne == "no one"
NoPath == <<"no path">>
Asleep == [pc |-> "idle", op |-> "none", paths |-> <<>>, todo |-> <<>>, new |-> <<>>, use |-> "path",
           in |-> <<>>, out |-> <<>>, room |-> 0, below |-> <<>>, res |-> "none", answer |-> <<>>,
           starts |-> <<>>, short |-> FALSE]

\* locale: to_code is not given, the locale's encoding is looked up (of interest until
\* the module is up).
IconvInit ==
    /\ ic \in [pc : {"new"}, locale : BOOLEAN, lock : {NoOne}, heap : {0}, held : {{}}, misused : {FALSE},
               shift : {[tofs |-> "closed", fromfs |-> "closed"]},
               ended : {[tofs |-> "plain", fromfs |-> "plain"]}]
    /\ icall = [t \in Caller |-> Asleep]

-----------------------------------------------------------------------------
(* Starting and stopping: what is held is set up and given back by name.     *)

Get(s, r) == [s EXCEPT !.held = @ \cup {r}]
Put(s, r) == [s EXCEPT !.held = @ \ {r}, !.misused = @ \/ r \notin s.held]

\* The labels of iconv_new.  old is freed if it was ever set, freed already or not.
iconv_out_free(s, old) ==
    [IF old THEN Put(Put(s, "ic"), "old") ELSE Put(s, "ic") EXCEPT !.pc = "failed"]
out_iconv_close_to(s, old) == iconv_out_free(Put(s, "tofs"), old)


\* Closing what was not opened is refused, and goes unnoticed.
CloseFromfs(s) == [s EXCEPT !.held = @ \ {"fromfs"}]

out_iconv_close_from(s, old) == out_iconv_close_to(CloseFromfs(s), old)

\* Open descriptors are in the initial state; one that could not be opened is kept as it is.
Opened(s, fromfs) ==
    [s EXCEPT !.shift = [tofs |-> "plain", fromfs |-> IF fromfs THEN "plain" ELSE "closed"],
              !.held = @ \cup (IF fromfs THEN {"tofs", "fromfs"} ELSE {"tofs"})]

\* iconv_new: calloc, the options and the file system below, the locale, the two
\* descriptors and fuse_fs_new.  Whether the second one was opened is not found out:
\* the test looks at the first.
iconv_new ==
    /\ ic.pc = "new" /\ UNCHANGED icall
    /\ \E s \in {Get(ic, "ic")}, fromfs \in BOOLEAN :
       \E looked \in {IF ic.locale THEN Get(s, "old") ELSE s} :
       \E back \in {IF ic.locale THEN Put(Opened(looked, fromfs), "old") ELSE Opened(s, fromfs)} :
        \/ ic' = [ic EXCEPT !.pc = "failed"]
        \/ ic' = iconv_out_free(s, FALSE)
        \/ ic' = iconv_out_free(looked, ic.locale)
        \/ ic' = out_iconv_close_from(back, ic.locale)
        \/ ic' = [back EXCEPT !.pc = "up", !.locale = FALSE]

\* iconv_destroy: when no call is in progress.
iconv_destroy ==
    /\ ic.pc = "up" /\ \A t \in Caller : icall[t].pc \in {"idle", "done"}
    /\ ic' = [Put(CloseFromfs(Put(ic, "tofs")), "ic") EXCEPT !.pc = "destroyed"]
    /\ UNCHANGED icall

-----------------------------------------------------------------------------
(* The operations: each converts its paths and passes the call on.           *)

iconv_attr_ops == {"getattr", "fgetattr", "access"}
iconv_dir_ops == {"opendir", "releasedir", "mknod", "mkdir", "unlink", "rmdir"}
iconv_two_paths == {"symlink", "rename", "link"}
iconv_file_ops == {"chmod", "chown", "truncate", "ftruncate", "utimens", "create", "open",
                   "read_buf", "write_buf", "statfs"}
iconv_other_ops == {"flush", "release", "fsync", "fsyncdir", "setxattr", "getxattr", "listxattr",
                    "removexattr", "lock", "flock", "bmap"}
iconv_oper == iconv_attr_ops \cup iconv_dir_ops \cup iconv_two_paths \cup iconv_file_ops
              \cup iconv_other_ops \cup {"readlink", "readdir"}

\* The operations on an open file may come without a path (flag_nullpath_ok, flag_nopath).
MayLackPath == {"fgetattr", "readdir", "releasedir", "ftruncate", "read_buf", "write_buf", "flush",
                "release", "fsync", "fsyncdir", "lock", "flock"}

IconvArguments(op) ==
    IF op \in iconv_two_paths THEN IconvNames \X IconvNames
    ELSE {<<p>> : p \in IconvNames \cup (IF op \in MayLackPath THEN {NoPath} ELSE {})}

IconvCall(t, op) ==
    /\ ic.pc = "up" /\ icall[t].pc = "idle" /\ UNCHANGED ic
    /\ \E paths \in IconvArguments(op) :
        icall' = [icall EXCEPT ![t] = [@ EXCEPT !.pc = "convert", !.op = op, !.paths = paths, !.todo = paths]]

-----------------------------------------------------------------------------
(* Conversion.                                                               *)

Coded(shift, c) == [i \in 1..(IF c = "g" THEN Grown ELSE 1) |-> <<shift, c>>]

\* External: iconv(3), from the descriptor's state as far as it gets.
RECURSIVE iconv(_, _, _, _)
iconv(shift, in, out, room) ==
    CASE shift = "closed" -> [errno |-> "EBADF", shift |-> shift, in |-> in, out |-> out, room |-> room]
      [] in = <<>> -> [errno |-> "none", shift |-> shift, in |-> in, out |-> out, room |-> room]
      [] in # <<>> /\ Head(in) = "!" ->
            [errno |-> "EILSEQ", shift |-> shift, in |-> in, out |-> out, room |-> room]
      [] in # <<>> /\ Head(in) = "<" -> iconv("shifted", Tail(in), out, room)
      [] in # <<>> /\ Head(in) = ">" -> iconv("plain", Tail(in), out, room)
      [] OTHER ->
            IF Len(Coded(shift, Head(in))) > room
            THEN [errno |-> "E2BIG", shift |-> shift, in |-> in, out |-> out, room |-> room]
            ELSE iconv(shift, Tail(in), out \o Coded(shift, Head(in)), room - Len(Coded(shift, Head(in))))

Descriptor(t) == IF icall[t].use = "path" THEN "tofs" ELSE "fromfs"
Reset(shift) == IF shift = "closed" THEN shift ELSE "plain"

Allocated(c) == IF c.pc = "done" THEN 0 ELSE Len(SelectSeq(c.new, LAMBDA p : p # NoPath))

\* The call c returns, and its paths are freed.
IconvReturn(t, s, c, res) ==
    /\ ic' = [s EXCEPT !.heap = @ - Allocated(c)]
    /\ icall' = [icall EXCEPT ![t] = [c EXCEPT !.pc = "done", !.res = res]]
GoOn(t, s, c) == ic' = s /\ icall' = [icall EXCEPT ![t] = c]

\* After a failed iconv_convpath: an entry is left out of the listing, any other call fails.
NotConverted(t, s, c, err) ==
    IF c.use = "name"
    THEN GoOn(t, s, [c EXCEPT !.pc = "convert", !.todo = Tail(@), !.short = @ \/ err = "ENOMEM"])
    ELSE IconvReturn(t, s, c, err)

CutToBuffer(out) == IF Len(out) < IconvLinkSize THEN out ELSE SubSeq(out, 1, IconvLinkSize - 1)

\* After a successful one: a path joins the others; a link's text is cut to the buffer
\* (iconv_readlink); an entry goes to the filler, which may be full (iconv_dir_fill).
\* The new link and the new entry are freed at once.
IsConverted(t, s, c, out) ==
    \/ /\ c.use = "path"
       /\ GoOn(t, s, [c EXCEPT !.pc = "convert", !.todo = Tail(@), !.new = Append(@, out)])
    \/ /\ c.use = "link"
       /\ IconvReturn(t, [s EXCEPT !.heap = @ - 1],
                      [c EXCEPT !.answer = CutToBuffer(out)], "OK")
    \/ /\ c.use = "name"
       /\ \E full \in BOOLEAN :
            GoOn(t, [s EXCEPT !.heap = @ - 1],
                 [c EXCEPT !.pc = "convert", !.answer = IF full THEN @ ELSE Append(@, out),
                           !.short = @ \/ full, !.todo = IF full THEN <<>> ELSE Tail(@)])

\* iconv_convpath up to the lock: no path stays none; room for four bytes a character.
ConvertBegin(t) ==
    /\ icall[t].pc = "convert" /\ icall[t].todo # <<>>
    /\ \E c \in {icall[t]} : \E path \in {Head(c.todo)} :
        \/ path = NoPath /\ GoOn(t, ic, [c EXCEPT !.todo = Tail(@), !.new = Append(@, NoPath),
                                                       !.starts = Append(@, "plain")])
        \/ /\ path # NoPath
           /\ \/ GoOn(t, [ic EXCEPT !.heap = @ + 1],
                      [c EXCEPT !.pc = "lock", !.in = path, !.out = <<>>, !.room = 4 * Len(path)])
              \/ NotConverted(t, ic, c, "ENOMEM")

ConvertLock(t) ==
    /\ icall[t].pc = "lock" /\ ic.lock = NoOne
    /\ GoOn(t, [ic EXCEPT !.lock = t], [icall[t] EXCEPT !.pc = "loop"])

\* Mutant: the descriptor is not set back.
M_ConvertErr(t, c, err) ==
    NotConverted(t, [ic EXCEPT !.lock = NoOne, !.heap = @ - 1,
                               !.shift[Descriptor(t)] = iconv(@, c.in, c.out, c.room).shift,
                               !.ended[Descriptor(t)] = "plain"], c, err)

\* The label err: the descriptor is set back, the lock and the new path are given up.
ConvertErr(t, c, err) ==
    NotConverted(t, [ic EXCEPT !.lock = NoOne, !.heap = @ - 1, !.shift[Descriptor(t)] = Reset(@),
                               !.ended[Descriptor(t)] = "plain"], c, err)

\* The shift state after a name that was begun in the state start.
EndOf(start, name) ==
    LET shifts == {j \in DOMAIN name : name[j] \in {"<", ">"}}
    IN  IF shifts = {} THEN start ELSE IF name[Max(shifts)] = "<" THEN "shifted" ELSE "plain"

\* The loop of iconv_convpath, once: done (the descriptor stays as it is), or more room is needed and there is memory
\* for it or not, or the name cannot be converted.
iconv_convpath(t) ==
    /\ icall[t].pc = "loop"
    /\ \E c \in {icall[t]} : \E r \in {iconv(ic.shift[Descriptor(t)], c.in, c.out, c.room)} :
        \/ /\ r.errno = "none"
           /\ IsConverted(t, [ic EXCEPT !.lock = NoOne, !.shift[Descriptor(t)] = r.shift,
                                        !.ended[Descriptor(t)] = EndOf(@, Head(c.todo))],
                          [c EXCEPT !.starts = Append(@, ic.ended[Descriptor(t)])], r.out)
        \/ /\ r.errno = "E2BIG"
           /\ \/ GoOn(t, [ic EXCEPT !.shift[Descriptor(t)] = r.shift],
                      [c EXCEPT !.in = r.in, !.out = r.out, !.room = r.room + (Len(r.in) + 1) * 4])
              \/ ConvertErr(t, c, "ENOMEM")
        \/ r.errno \notin {"none", "E2BIG"} /\ ConvertErr(t, c, "EILSEQ")

-----------------------------------------------------------------------------
(* The call below.                                                           *)

\* fuse_fs_<op> with the new paths may fail; readlink and readdir go on with what it gives.
IconvForward(t) ==
    /\ icall[t].pc = "convert" /\ icall[t].todo = <<>> /\ icall[t].use = "path"
    /\ \E c \in {[icall[t] EXCEPT !.below = @ \o icall[t].new]} :
        \/ IconvReturn(t, ic, c, "EIO")
        \/ c.op \notin {"readlink", "readdir"} /\ IconvReturn(t, ic, c, "OK")

iconv_readlink(t) ==
    /\ icall[t].pc = "convert" /\ icall[t].todo = <<>> /\ icall[t].use = "path" /\ icall[t].op = "readlink"
    /\ \E link \in IconvNames :
        GoOn(t, ic, [icall[t] EXCEPT !.below = icall[t].new, !.use = "link", !.todo = <<link>>])

iconv_readdir(t) ==
    /\ icall[t].pc = "convert" /\ icall[t].todo = <<>> /\ icall[t].op = "readdir"
    /\ \/ /\ icall[t].use = "path"
          /\ GoOn(t, ic, [icall[t] EXCEPT !.below = icall[t].new, !.use = "name", !.todo = IconvDir])
       \/ icall[t].use = "name" /\ IconvReturn(t, ic, icall[t], "OK")

IconvNext ==
    \/ iconv_new \/ iconv_destroy
    \/ \E t \in Caller :
        \/ \E op \in OpsOf[t] : IconvCall(t, op)
        \/ ConvertBegin(t) \/ ConvertLock(t) \/ iconv_convpath(t)
        \/ IconvForward(t) \/ iconv_readlink(t) \/ iconv_readdir(t)

-----------------------------------------------------------------------------
(* Properties.                                                               *)

\* A name begun in the state start: each character under the last shift before it.
Alone(start, name) ==
    FlattenSeq([i \in DOMAIN name |-> IF name[i] \in {"<", ">"} THEN <<>>
                                      ELSE Coded(EndOf(start, SubSeq(name, 1, i - 1)), name[i])])
IsName(name) == \A i \in DOMAIN name : name[i] # "!"

\* Whatever threads converted before, however often room was lacking and whichever
\* conversions failed half way, the call below gets each path as converted on its own, or
\* no call is made; but after a name that ends shifted, from the shifted state on.
PathsConvertedAlone ==
    \A t \in Caller : icall[t].below # <<>> =>
        \A i \in DOMAIN icall[t].paths : \E p \in {icall[t].paths[i]} :
            icall[t].below[i] = IF p = NoPath THEN p ELSE Alone(icall[t].starts[i], p)

\* While no thread converts, both descriptors are in the state in which the last name
\* ended, the initial one if its conversion failed (it leaves no trace), and the lock is
\* held by a thread that converts.
DescriptorsClean ==
    /\ ic.lock = NoOne /\ ic.pc = "up" => \A d \in DOMAIN ic.shift : ic.shift[d] \in {"closed", ic.ended[d]}
    /\ \A t \in Caller : ic.lock = t <=> icall[t].pc = "loop"

\* A listing that was not cut short holds the converted names of all entries that have
\* one, in order (each begun as the one before it ended).  If the second descriptor could
\* not be opened it is empty: that goes unnoticed in iconv_new.
ListingConverted ==
    \A t \in Caller : icall[t].op = "readdir" /\ icall[t].res = "OK" /\ ~icall[t].short =>
        \E valid \in {SelectSeq(IconvDir, IsName)}, starts \in {icall[t].starts} :
            icall[t].answer = IF ic.shift.fromfs = "closed" THEN <<>>
                              ELSE [i \in DOMAIN valid |-> Alone(starts[i + 1], valid[i])]

\* Every path, link and entry allocated by a conversion is freed, on every way out.
ConversionsFreed ==
    ic.heap = MapThenSumSet(LAMBDA t : Allocated(icall[t]) + (IF icall[t].pc \in {"lock", "loop"} THEN 1 ELSE 0),
                            Caller)

\* A start that fails, and the end, give back all that was held, and each thing once;
\* except that old is freed twice if fuse_fs_new fails.
IconvGivenBack ==
    /\ ic.pc \in {"failed", "destroyed"} => ic.held = {}
    /\ ic.misused => ic.locale /\ ic.pc = "failed"

\* Names are converted as if each were the first, but for the state in which the one
\* before ended, in either direction, and nothing is leaked by a conversion or by a start
\* that fails.
IconvRight ==
    PathsConvertedAlone /\ DescriptorsClean /\ ListingConverted /\ ConversionsFreed /\ IconvGivenBack
=============================================================================
