----------------------------- MODULE FuseSubdir -----------------------------
(***************************************************************************)
(* The stacked module subdir (src/resources/fuse-2.9.6/lib/modules/        *)
(* subdir.c): it puts a directory in front of every path and hands the     *)
(* call to the file system below; on request it makes absolute symbolic    *)
(* links relative.                                                         *)
(*                                                                         *)
(* A path is a sequence of characters, NULL where the library passes none. *)
(* The module keeps nothing between calls, so one call at a time is enough.*)
(***************************************************************************)
EXTENDS Integers, Sequences, SequencesExt

CONSTANTS
    Bases,          \* values of the subdir option
    SubdirPaths,    \* paths the library passes
    SubdirLinks,    \* what a symbolic link may hold below
    LinkSizes       \* sizes of the caller's buffer

VARIABLE sd         \* the module and the call in progress

Slash == "/"
NULL == <<"NULL">>  \* no path; not a path, for a path is made of characters
NoCall == [op |-> "none", paths |-> <<>>, todo |-> <<>>, new |-> <<>>, below |-> <<>>,
           res |-> "none", link |-> <<>>, buf |-> <<>>, size |-> 0]

\* calloc; the options are parsed: rellinks, and the base if there is one.
SubdirStarts ==
    [pc : {"new"}, base : Bases, rellinks : BOOLEAN, heap : {<<>>}, call : {NoCall}]
SubdirInit == sd \in SubdirStarts

-----------------------------------------------------------------------------
(* Starting and stopping.                                                    *)

\* subdir_new: d and its base.  calloc may fail; parsing may, with or without the base
\* allocated; there must be one file system below and a base; realloc (for the slash)
\* and fuse_fs_new may fail: out_free frees what there is.
subdir_out_free(held) == SelectSeq(held, LAMBDA b : b \notin {"d", "base"})
subdir_new ==
    /\ sd.pc = "new"
    /\ \/ \E held \in {<<>>, <<"d">>, <<"d", "base">>} :
            sd' = [sd EXCEPT !.pc = "failed", !.heap = subdir_out_free(held)]
       \/ \E slash \in {sd.base # <<>> /\ Last(sd.base) # Slash} :
            sd' = [sd EXCEPT !.pc = "up", !.base = IF slash THEN Append(@, Slash) ELSE @,
                             !.heap = <<"d", "base">>]

\* subdir_destroy: when the file system below is gone.
subdir_destroy ==
    /\ sd.pc = "up" /\ sd.call = NoCall
    /\ sd' = [sd EXCEPT !.pc = "destroyed", !.heap = SelectSeq(@, LAMBDA b : b \notin {"d", "base"})]

-----------------------------------------------------------------------------
(* The operations: each translates its path and passes the call on.          *)

subdir_attr_ops == {"getattr", "fgetattr", "access"}
subdir_dir_ops == {"opendir", "readdir", "releasedir", "mknod", "mkdir", "unlink", "rmdir"}
subdir_two_paths == {"rename", "link"}
subdir_file_ops == {"chmod", "chown", "truncate", "ftruncate", "utimens", "create", "open",
                    "read_buf", "write_buf", "statfs"}
subdir_other_ops == {"flush", "release", "fsync", "fsyncdir", "setxattr", "getxattr", "listxattr",
                     "removexattr", "lock", "flock", "bmap"}
subdir_oper == subdir_attr_ops \cup {"readlink", "symlink"} \cup subdir_dir_ops \cup subdir_two_paths
               \cup subdir_file_ops \cup subdir_other_ops

\* The operations on an open file may come without a path (flag_nullpath_ok, flag_nopath).
WithoutPath == {"fgetattr", "readdir", "releasedir", "ftruncate", "read_buf", "write_buf", "flush",
                "release", "fsync", "fsyncdir", "lock", "flock"}

\* What the library passes to op; the first argument of symlink is the link's text.
Arguments(op) ==
    CASE op \in subdir_two_paths -> SubdirPaths \X SubdirPaths
      [] op = "symlink" -> SubdirLinks \X SubdirPaths
      [] op \in WithoutPath -> {<<p>> : p \in SubdirPaths \cup {NULL}}
      [] OTHER -> {<<p>> : p \in SubdirPaths}

SubdirCall(op) ==
    /\ sd.pc = "up" /\ sd.call = NoCall
    /\ \E paths \in Arguments(op), size \in IF op = "readlink" THEN LinkSizes ELSE {0} :
        sd' = [sd EXCEPT !.call = [NoCall EXCEPT !.op = op, !.paths = paths, !.size = size,
                                   !.todo = IF op = "symlink" THEN <<paths[2]>> ELSE paths]]

\* The new path of subdir_addpath.
AddPath(base, path) ==
    LET whole == base \o (IF path # <<>> /\ path[1] = Slash THEN Tail(path) ELSE path)
    IN  IF whole = <<>> THEN <<".">> ELSE whole

\* The paths allocated so far are freed, the call returns.
Freed(s, res) ==
    [s EXCEPT !.heap = SelectSeq(@, LAMBDA b : b # "path"), !.call = [@ EXCEPT !.res = res]]

subdir_addpath ==
    /\ sd.call.todo # <<>> /\ sd.call.res = "none"
    /\ \/ /\ Head(sd.call.todo) = NULL
          /\ sd' = [sd EXCEPT !.call.todo = Tail(@), !.call.new = Append(@, NULL)]
       \/ /\ Head(sd.call.todo) # NULL
          /\ \/ sd' = [sd EXCEPT !.call.todo = Tail(@), !.heap = Append(@, "path"),
                                 !.call.new = Append(@, AddPath(sd.base, Head(sd.call.todo)))]
             \/ sd' = Freed(sd, "ENOMEM")

\* The call below: fuse_fs_<op> with the new paths, which may fail.
Ready == sd.call.op # "none" /\ sd.call.todo = <<>> /\ sd.call.res = "none"
Passed == IF sd.call.op = "symlink" THEN <<sd.call.paths[1]>> \o sd.call.new ELSE sd.call.new
Forward ==
    /\ Ready /\ sd.call.op # "readlink"
    /\ \E res \in {"OK", "EIO"} : sd' = Freed([sd EXCEPT !.call.below = Passed], res)

-----------------------------------------------------------------------------
(* Symbolic links.                                                           *)

RECURSIVE SkipSlashes(_), SkipCommon(_, _), strip_common(_, _), count_components(_)
SkipSlashes(s) == IF s # <<>> /\ Head(s) = Slash THEN SkipSlashes(Tail(s)) ELSE s

\* Past the characters that s and t share, up to a slash.
SkipCommon(s, t) ==
    IF s # <<>> /\ t # <<>> /\ Head(s) = Head(t) /\ Head(s) # Slash
    THEN SkipCommon(Tail(s), Tail(t)) ELSE <<s, t>>

\* strip_common: what is left of s and t at the first component that differs (or at
\* the last one, if they are the same).
strip_common(s0, t0) ==
    LET from == <<SkipSlashes(s0), SkipSlashes(t0)>>
        at == SkipCommon(from[1], from[2])
        s == at[1]
        t == at[2]
        more == \/ s # <<>> /\ t # <<>> /\ Head(s) = Head(t)
                \/ s = <<>> /\ t # <<>> /\ Head(t) = Slash
                \/ s # <<>> /\ t = <<>> /\ Head(s) = Slash
    IN  IF more THEN strip_common(s, t) ELSE from

\* count_components
count_components(p) ==
    LET q == SkipSlashes(p)
    IN  IF q = <<>> THEN 0
        ELSE 1 + count_components(SubSeq(q, 1 + SelectInSeq(Append(q, Slash), LAMBDA c : c = Slash), Len(q)))

DotDots(n) == FlattenSeq([i \in 1..n |-> <<".", ".", Slash>>])

\* Mutant: the path's last component is counted as a directory to leave.
M_transform_symlink(base, path, buf, size) ==
    IF buf = <<>> \/ buf[1] # Slash \/ base = <<>> \/ base[1] # Slash THEN buf
    ELSE LET left == strip_common(buf, path)
             dotdots == count_components(left[2])
         IN  IF Len(buf) - Len(left[1]) < Len(base) \/ dotdots = 0
                \/ dotdots * 3 + Len(left[1]) + 2 > size THEN buf
             ELSE IF left[1] = <<>> /\ dotdots = 0 THEN <<".">>
             ELSE DotDots(dotdots) \o left[1]

\* transform_symlink: a link into the base is made relative to the directory the
\* link itself is in, when it fits.
transform_symlink(base, path, buf, size) ==
    IF buf = <<>> \/ buf[1] # Slash \/ base = <<>> \/ base[1] # Slash THEN buf
    ELSE LET left == strip_common(buf, path)
             dotdots == count_components(left[2]) - 1
         IN  IF Len(buf) - Len(left[1]) < Len(base) \/ dotdots < 0
                \/ dotdots * 3 + Len(left[1]) + 2 > size THEN buf
             ELSE IF left[1] = <<>> /\ dotdots = 0 THEN <<".">>
             ELSE DotDots(dotdots) \o left[1]

CutTo(s, n) == IF Len(s) > n THEN SubSeq(s, 1, n) ELSE s

\* subdir_readlink: the link below comes cut to the buffer (with its end).
subdir_readlink ==
    /\ Ready /\ sd.call.op = "readlink"
    /\ \/ sd' = Freed([sd EXCEPT !.call.below = Passed], "EIO")
       \/ \E l \in SubdirLinks : \E link \in {CutTo(l, sd.call.size - 1)} :
            sd' = Freed([sd EXCEPT
                    !.call.below = Passed, !.call.link = link,
                    !.call.buf = IF sd.rellinks
                                 THEN transform_symlink(sd.base, sd.call.new[1], link, sd.call.size)
                                 ELSE link], "OK")

SubdirReturns == sd.call.res # "none" /\ sd' = [sd EXCEPT !.call = NoCall]

SubdirNext ==
    \/ subdir_new \/ subdir_destroy
    \/ \E op \in subdir_oper : SubdirCall(op)
    \/ subdir_addpath \/ Forward \/ subdir_readlink \/ SubdirReturns

-----------------------------------------------------------------------------
(* Properties.                                                               *)

\* Between calls nothing a call has allocated is left, and nothing at all when the
\* module is not there: in particular when one of rename's two paths cannot be had.
SubdirHeap ==
    /\ sd.call.op = "none" \/ sd.call.res # "none" => \A i \in DOMAIN sd.heap : sd.heap[i] # "path"
    /\ sd.pc # "up" => sd.heap = <<>>

\* The parts of a path, and the file it names when it starts in directory cwd.
RECURSIVE PartsOf(_)
PartsOf(p) ==
    LET q == SkipSlashes(p)
        end == SelectInSeq(Append(q, Slash), LAMBDA c : c = Slash)
    IN  IF q = <<>> THEN <<>> ELSE <<SubSeq(q, 1, end - 1)>> \o PartsOf(SubSeq(q, end, Len(q)))
Walk(cwd, parts) ==
    FoldLeft(LAMBDA at, part : IF part = <<".">> THEN at
                               ELSE IF part = <<".", ".">> THEN (IF at = <<>> THEN at ELSE Front(at))
                               ELSE Append(at, part), cwd, parts)
Target(path, link) ==
    IF link # <<>> /\ link[1] = Slash THEN Walk(<<>>, PartsOf(link))
    ELSE Walk(Front(PartsOf(path)), PartsOf(link))

\* A rewritten link names the file it named below, and fits in the buffer.
LinkKeepsTarget ==
    \E c \in {sd.call} :
        c.op = "readlink" /\ c.res = "OK" /\ c.buf # c.link =>
            /\ Target(c.below[1], c.buf) = Target(c.below[1], c.link)
            /\ Len(c.buf) < c.size

\* A rewritten link does not lead out of the mounted directory: it goes up at most as
\* far as the link is deep.  Repeated slashes at the start of a link are the exception:
\* they count towards the length of the base, so a link elsewhere is rewritten too.
LinkStaysInside ==
    \E c \in {sd.call} :
        c.op = "readlink" /\ c.res = "OK" /\ c.buf # c.link
        /\ ~(Len(c.link) > 1 /\ c.link[2] = Slash) =>
            Len(SelectSeq(PartsOf(c.buf), LAMBDA part : part = <<".", ".">>)) < Len(PartsOf(c.paths[1]))

\* The call below gets, for each path, the one in the base with the same parts, never
\* an empty one, no path for no path, and a new link's text as it is.
SubdirPathsRight ==
    sd.call.below # <<>> =>
        \A i \in DOMAIN sd.call.paths : \E p \in {sd.call.paths[i]}, q \in {sd.call.below[i]} :
            IF p = NULL \/ (sd.call.op = "symlink" /\ i = 1) THEN q = p
            ELSE /\ q # <<>> /\ (q[1] = Slash <=> sd.base # <<>> /\ sd.base[1] = Slash)
                 /\ Walk(<<>>, PartsOf(q)) = PartsOf(sd.base) \o PartsOf(p)

\* Every call reaches the file system below with the path in the base, a rewritten link
\* leads to the same file and not out of the mount, and no path is leaked.
SubdirRight == SubdirHeap /\ LinkKeepsTarget /\ LinkStaysInside /\ SubdirPathsRight
=============================================================================
