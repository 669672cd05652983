------------------------------- MODULE FuseOpt -------------------------------
(***************************************************************************)
(* The command line of a FUSE file system goes through fuse_opt_parse      *)
(* (src/resources/fuse-2.9.6/lib/fuse_opt.c) four times: in                *)
(* fuse_parse_cmdline, fuse_kern_mount, fuse_new and fuse_lowlevel_new.    *)
(* Each pass takes the options of its own table and puts the rest together *)
(* again, the -o options in one escaped list in front, for the next one;   *)
(* the last one refuses what is left.                                      *)
(*                                                                         *)
(* An argument is [k, v]: k is "opt" (-v), "o" (-o alone), "oj" (-ov),     *)
(* "sep" (--) or "word", and v a sequence of character codes.              *)
(***************************************************************************)
EXTENDS Integers, Sequences, FiniteSets, SequencesExt

CONSTANTS
    Options,        \* the options of the tables, as sequences of characters
    Owners,         \* Options -> the passes whose table has them
    Subtype,        \* the option fuse_parse_cmdline adds unless it was given
    CommandLines    \* the arguments after the program's name

ASSUME OptAssumption ==
    Subtype \in Options /\ Owners \in [Options -> SUBSET (1..4)] /\ Owners[Subtype] = {1, 2}

VARIABLE ol     \* the command line on its way

Comma == 44
Backslash == 92
Sep == [k |-> "sep", v |-> <<>>]
DashO == [k |-> "o", v |-> <<>>]
Failed == 0
Done == 5        \* behind the last pass

OptStarts ==
    {[line |-> line, args |-> line, pass |-> 1, mountpoint |-> <<>>,
      took |-> [p \in 1..4 |-> [dash |-> <<>>, o |-> <<>>]]] : line \in CommandLines}
OptInit == ol \in OptStarts

Owned(opt, p) == opt \in Options /\ p \in Owners[opt]
Later(opt, p) == opt \in Options /\ \E q \in Owners[opt] : q > p

-----------------------------------------------------------------------------
(* One pass.                                                                 *)

\* Mutant: a backslash is not escaped.
M_Escaped(opt) == FlattenSeq([i \in DOMAIN opt |-> IF opt[i] = Comma THEN <<Backslash, opt[i]>> ELSE <<opt[i]>>])

\* The loop of add_opt_common.
Escaped(opt) ==
    FlattenSeq([i \in DOMAIN opt |-> IF opt[i] \in {Comma, Backslash} THEN <<Backslash, opt[i]>> ELSE <<opt[i]>>])

\* add_opt: the list is NULL (no element) or a text; a comma goes between two.
add_opt(opts, opt) ==
    IF opts = <<>> \/ opts = << <<>> >> THEN <<Escaped(opt)>>
    ELSE <<opts[1] \o <<Comma>> \o Escaped(opt)>>

\* process_real_option_group: the options in a text.  at[i] reads it from i on.
IsOctal(t, i) ==
    /\ i + 2 <= Len(t) /\ t[i] \in 48..51 /\ t[i + 1] \in 48..55 /\ t[i + 2] \in 48..55
process_option_group(t) ==
    LET Before(c, r) == [r EXCEPT !.first = <<c>> \o @]
        at[i \in 1..(Len(t) + 1)] ==
           CASE i > Len(t) -> [first |-> <<>>, more |-> <<>>]
             [] i <= Len(t) /\ t[i] = Comma ->
                  [first |-> <<>>, more |-> <<at[i + 1].first>> \o at[i + 1].more]
             [] i < Len(t) /\ t[i] = Backslash /\ IsOctal(t, i + 1) ->
                  Before((t[i + 1] - 48) * 64 + (t[i + 2] - 48) * 8 + (t[i + 3] - 48), at[i + 4])
             [] i < Len(t) /\ t[i] = Backslash /\ ~IsOctal(t, i + 1) -> Before(t[i + 1], at[i + 2])
             [] OTHER -> Before(t[i], at[i + 1])
    IN  <<at[1].first>> \o at[1].more

\* process_gopt with the tables and the procs: an option of the pass's table is
\* taken, and kept if its entry says so (those a later pass has, too); another one
\* is kept, but the last pass's proc refuses it.
process_gopt(c, opt, iso) ==
    LET c1 == IF ~Owned(opt, c.pass) THEN c
              ELSE IF iso THEN [c EXCEPT !.took.o = Append(@, opt)] ELSE [c EXCEPT !.took.dash = Append(@, opt)]
    IN  CASE c.pass = 4 /\ ~Owned(opt, 4) -> [c EXCEPT !.err = TRUE]
          [] Owned(opt, c.pass) /\ ~Later(opt, c.pass) -> c1
          [] ~(c.pass = 4 /\ ~Owned(opt, 4)) /\ ~(Owned(opt, c.pass) /\ ~Later(opt, c.pass)) ->
               IF iso THEN [c1 EXCEPT !.opts = add_opt(@, opt)]
               ELSE [c1 EXCEPT !.out = Append(@, [k |-> "opt", v |-> opt])]

\* A word (FUSE_OPT_KEY_NONOPT): the first pass takes one as the mount point and
\* refuses another, the last one refuses any, the others keep it.
NonOpt(c, arg) ==
    CASE c.pass = 1 /\ c.mountpoint = <<>> -> [c EXCEPT !.mountpoint = <<arg>>]
      [] (c.pass = 1 /\ c.mountpoint # <<>>) \/ c.pass = 4 -> [c EXCEPT !.err = TRUE]
      [] c.pass \in {2, 3} -> [c EXCEPT !.out = Append(@, arg)]

Group(c, t) == FoldLeft(LAMBDA d, opt : IF d.err THEN d ELSE process_gopt(d, opt, TRUE), c, process_option_group(t))

\* process_one; next says that the argument belongs to the -o before it.
process_one(c, arg) ==
    CASE c.err -> c
      [] ~c.err /\ c.next -> Group([c EXCEPT !.next = FALSE], arg.v)
      [] ~c.err /\ ~c.next /\ (c.nonopt # 0 \/ arg.k = "word") -> NonOpt(c, arg)
      [] ~c.err /\ ~c.next /\ c.nonopt = 0 /\ arg.k = "oj" -> Group(c, arg.v)
      [] ~c.err /\ ~c.next /\ c.nonopt = 0 /\ arg.k = "o" -> [c EXCEPT !.next = TRUE]
      [] ~c.err /\ ~c.next /\ c.nonopt = 0 /\ arg.k = "sep" ->
            [c EXCEPT !.out = Append(@, Sep), !.nonopt = Len(c.out) + 1]
      [] ~c.err /\ ~c.next /\ c.nonopt = 0 /\ arg.k = "opt" -> process_gopt(c, arg.v, FALSE)

\* The end of opt_parse: -o and the list are inserted in front, and a separator
\* that is last is removed; nonopt is where it was before the insertion.
Rebuilt(c) ==
    LET out == IF c.opts = <<>> THEN c.out ELSE <<DashO, [k |-> "word", v |-> c.opts[1]]>> \o c.out
    IN  IF c.nonopt # 0 /\ c.nonopt = Len(out) /\ Last(out) = Sep THEN Front(out) ELSE out

\* fuse_opt_parse.  An -o without a text is refused.
opt_parse ==
    LET start == [pass |-> ol.pass, mountpoint |-> ol.mountpoint, took |-> ol.took[ol.pass],
                  out |-> <<>>, opts |-> <<>>, nonopt |-> 0, next |-> FALSE, err |-> FALSE]
        c == FoldLeft(process_one, start, ol.args)
    IN  IF c.next THEN [c EXCEPT !.err = TRUE] ELSE c

\* add_default_subtype: at the end of the arguments, after the first pass.
WithSubtype(c, args) ==
    IF c.pass = 1 /\ Subtype \notin ToSet(c.took.o) THEN Append(args, [k |-> "oj", v |-> Subtype]) ELSE args

Pass ==
    LET c == opt_parse
    IN  /\ ol.pass \in 1..4
        /\ ol' = IF c.err THEN [ol EXCEPT !.pass = Failed]
                 ELSE [ol EXCEPT !.pass = @ + 1,
                                 !.args = WithSubtype(c, Rebuilt(c)),
                                 !.mountpoint = c.mountpoint, !.took[ol.pass] = c.took]

OptNext == Pass

-----------------------------------------------------------------------------
(* What the command line says, read without the passes.                      *)

SepAt == IF Sep \in ToSet(ol.line) THEN SelectInSeq(ol.line, LAMBDA a : a = Sep) ELSE Len(ol.line) + 1
IsText(i) == i > 1 /\ ol.line[i - 1].k = "o"
DashOptions ==
    LET on == SelectSeq([i \in 1..(SepAt - 1) |-> i], LAMBDA i : ol.line[i].k = "opt")
    IN  [j \in DOMAIN on |-> ol.line[on[j]].v]
OOptions ==
    LET on == SelectSeq([i \in 1..(SepAt - 1) |-> i], LAMBDA i : ol.line[i].k = "oj" \/ IsText(i))
    IN  FlattenSeq([j \in DOMAIN on |-> process_option_group(ol.line[on[j]].v)])
Words == {i \in DOMAIN ol.line : i > SepAt \/ (ol.line[i].k = "word" /\ ~IsText(i))}
Given == ToSet(DashOptions) \cup ToSet(OOptions)

\* The comment in opt_parse: "If option separator ("--") is the last argument, remove
\* it", so no pass hands on a list that ends in one.
SeparatorRemoved == ol.pass \in 2..Done /\ ol.args # <<>> => Last(ol.args) # Sep

\* SeparatorRemoved does not hold: with an -o option that outlives the first pass the
\* separator stays, and the default subtype that is added behind it is a word.
SeparatorLeft ==
    /\ SepAt <= Len(ol.line) /\ Subtype \notin ToSet(OOptions)
    /\ \E opt \in ToSet(OOptions) : ~Owned(opt, 1) \/ Later(opt, 1)

\* Every option of the command line reaches each pass whose table has it, once, as
\* it was written and in its order among the -o options or the others; commas and
\* backslashes in it survive being put together and taken apart in between.
OptionsReachOwners ==
    ol.pass = Done => \A p \in 1..4 :
       LET own(opts) == SelectSeq(opts, LAMBDA opt : Owned(opt, p))
           added == IF p = 2 /\ Subtype \notin ToSet(OOptions) THEN <<Subtype>> ELSE <<>>
       IN  ol.took[p].dash = own(DashOptions) /\ ol.took[p].o = own(OOptions) \o added

\* A command line is refused exactly if an option belongs to nobody, there is more
\* than one word, an -o stands alone, or the separator has wrongly been left.
RefusedOnlyIfWrong ==
    ol.pass \in {Done, Failed} =>
       (ol.pass = Failed <=>
          \/ \E opt \in Given : opt \notin Options
          \/ Cardinality(Words) > 1
          \/ SepAt > 1 /\ ol.line[SepAt - 1].k = "o"
          \/ SeparatorLeft)

\* Every option reaches the parsers that own it, and only a wrong line is refused.
OptionsRight == OptionsReachOwners /\ RefusedOnlyIfWrong
=============================================================================
