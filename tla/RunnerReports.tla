----------------------------- MODULE RunnerReports -----------------------------
(***************************************************************************)
(* What the runner finds out for its reports: the state of the work tree,  *)
(* for the prompt of analyse-work and for the warning behind its commit    *)
(* (git.rs, phase_loop.rs), and the time, which it makes a date of itself  *)
(* (the same function in debug_log.rs and wherever a record is stamped);   *)
(* and the survey as it prints it (survey/render.rs).                      *)
(***************************************************************************)
EXTENDS Prompts, LuaConfig

(* git: of each path what the baseline, HEAD, the index and the working     *)
(* tree hold, a version or 0 for nothing, and whether its name has a blank. *)
\* What "git diff" compares with a commit: a file the index lacks is not there.
Compared(w, p) == IF w.tree[p].index = 0 THEN 0 ELSE w.tree[p].work

\* One path gone and another new with what it held; the pair is one line then.
StagedRenames(w) ==
  {r \in (DOMAIN w.tree) \X (DOMAIN w.tree) :
     /\ w.tree[r[1]].head # 0 /\ w.tree[r[1]].index = 0
     /\ w.tree[r[2]].head = 0 /\ w.tree[r[2]].index = w.tree[r[1]].head}
RenamesSinceBaseline(w) ==
  {r \in (DOMAIN w.tree) \X (DOMAIN w.tree) :
     /\ w.tree[r[1]].base # 0 /\ Compared(w, r[1]) = 0
     /\ w.tree[r[2]].base = 0 /\ Compared(w, r[2]) = w.tree[r[1]].base}
EndsOf(renames) == {r[1] : r \in renames} \cup {r[2] : r \in renames}

\* git status --porcelain quotes a name with a blank; git diff does not.
NameOf(w, p) == [path |-> p, quoted |-> w.tree[p].blank]
StatusLine(xy, old, name) == [xy |-> xy, old |-> old, name |-> name]
IsModified(w, p) ==
  LET f == w.tree[p] IN f.head # f.index \/ (f.index # 0 /\ f.index # f.work)
IsUntracked(w, p) == w.tree[p].index = 0 /\ w.tree[p].work # 0
PorcelainLines(w) ==
  {StatusLine("R", r[1], NameOf(w, r[2])) : r \in StagedRenames(w)}
  \cup {StatusLine("M", p, NameOf(w, p)) :
          p \in {q \in (DOMAIN w.tree) \ EndsOf(StagedRenames(w)) : IsModified(w, q)}}
  \cup {StatusLine("??", p, NameOf(w, p)) : p \in {q \in DOMAIN w.tree : IsUntracked(w, q)}}

WorkingTreeStatus(w) == IF w.git = "ok" THEN Ok(PorcelainLines(w)) ELSE Error("IoError")

\* A name per difference, of a rename the new one.
ChangedPaths(w) == {p \in DOMAIN w.tree : Compared(w, p) # w.tree[p].base}
PathsChangedSinceBaseline(w) ==
  IF w.git # "ok" \/ w.baseline # "ok" THEN Error("IoError")
  ELSE Ok({[path |-> p, quoted |-> FALSE] :
             p \in ChangedPaths(w) \ {r[1] : r \in RenamesSinceBaseline(w)}})

\* Two blocks, each of which may say that git failed; --stat names both ends of
\* a rename.  Without a baseline there is neither.
WorkTreeSnapshot(w) ==
  Ok([diff |-> IF w.baseline = "none" \/ PathsChangedSinceBaseline(w).code # "ok" THEN {} ELSE ChangedPaths(w),
      status |-> IF w.baseline = "none" \/ WorkingTreeStatus(w).code # "ok" THEN {}
                 ELSE {l.name.path : l \in PorcelainLines(w)} \cup {l.old : l \in PorcelainLines(w)}])

ParsePorcelainPath(line) == line.name

\* Narrowed to what the work agent may have touched, when that can be told; the
\* first lines are shown and the others counted.
WarnIfProjectTreeDirty(w) ==
  LET touched == PathsChangedSinceBaseline(w)
  IN  IF WorkingTreeStatus(w).code # "ok" THEN Ok({})
      ELSE Ok({l \in PorcelainLines(w) :
                 touched.code = "ok" => l.xy = "??" \/ ParsePorcelainPath(l) \in touched.value})
-----------------------------------------------------------------------------
(* format_unix_utc, of days since 1970 and the seconds of the day.          *)

IsLeap(year) == (year % 4 = 0 /\ year % 100 # 0) \/ year % 400 = 0
YearDays(year) == IF IsLeap(year) THEN 366 ELSE 365
Passes(n) == [i \in 1..n |-> i]

\* The loop over the years: no more passes than there are years of 365 days,
\* and a pass that finds no whole year left changes nothing.
NextYear(at) ==
  IF at.days < YearDays(at.year) THEN at
  ELSE [year |-> at.year + 1, days |-> at.days - YearDays(at.year)]
YearLoop(days) ==
  FoldLeft(LAMBDA at, i : NextYear(at), [year |-> 1970, days |-> days], Passes(days \div 365))

MonthLens(year) == <<31, IF IsLeap(year) THEN 29 ELSE 28, 31, 30, 31, 30, 31, 31, 30, 31, 30, 31>>

\* The loop over the months, likewise: month counts the whole ones.
NextMonth(lens, at, m) ==
  IF at.month = m - 1 /\ at.days >= lens[m] THEN [month |-> m, days |-> at.days - lens[m]] ELSE at
MonthLoop(lens, days) ==
  FoldLeft(LAMBDA at, m : NextMonth(lens, at, m), [month |-> 0, days |-> days], Passes(12))

FormatUnixUtc(days, secs) ==
  LET y == YearLoop(days)
      m == MonthLoop(MonthLens(y.year), y.days)
  IN  [year |-> y.year, month |-> m.month + 1, day |-> m.days + 1,
       hours |-> (secs \div 3600) % 24, minutes |-> (secs \div 60) % 60, seconds |-> secs % 60]
-----------------------------------------------------------------------------
(* The survey.  A text is the sequence of the lengths of its words, a       *)
(* prefix its length; a plan's row is its line and the notes under it.      *)

\* wrap_at: a word that no longer fits starts a line; one that never fits has
\* a line of its own.
WrapAt(words, width) ==
  LET Width(line) == FoldLeft(LAMBDA a, b : a + b, 0, line) + Len(line) - 1
      Place(done, w) ==
        IF done.current # <<>> /\ Width(done.current) + 1 + w > width
        THEN [lines |-> Append(done.lines, done.current), current |-> <<w>>]
        ELSE [done EXCEPT !.current = Append(@, w)]
      end == FoldLeft(Place, [lines |-> <<>>, current |-> <<>>], words)
  IN  IF end.current = <<>> THEN end.lines ELSE Append(end.lines, end.current)

\* render_wrapped_bullet; world.width is WRAP_WIDTH.
RenderWrappedBullet(prefix, words) ==
  WrapAt(words, Max({1, world.width - prefix}))

Line(kind, what) == [kind |-> kind, what |-> what]
Note(prefix, words) == IF words = <<>> THEN <<>> ELSE <<Line("text", RenderWrappedBullet(prefix, words))>>

\* Mutant: a heading when the project is new, not when it changes.
PlanSummaryOnce(plans) ==
  FlattenSeq([i \in DOMAIN plans |->
    (IF \E j \in 1..(i - 1) : plans[j].project = plans[i].project THEN <<>> ELSE <<Line("project", plans[i].project)>>)
    \o <<Line("plan", plans[i].plan)>> \o Note(2, plans[i].notes)])

\* render_plan_summary: a heading whenever the project changes.
PlanSummary(plans) ==
  FlattenSeq([i \in DOMAIN plans |->
    (IF i > 1 /\ plans[i - 1].project = plans[i].project THEN <<>> ELSE <<Line("project", plans[i].project)>>)
    \o <<Line("plan", plans[i].plan)>> \o Note(2, plans[i].notes)])

Bullets(kind, entries) ==
  FlattenSeq([i \in DOMAIN entries |-> <<Line(kind, entries[i].of)>> \o Note(1, entries[i].rationale)])

OrNone(lines) == IF lines = <<>> THEN <<Line("none", "none")>> ELSE lines

\* render_survey_output: the inbox only when there is something in it.
RenderSurveyOutput(s) ==
  <<Line("section", "plans")>> \o OrNone(PlanSummary(s.plans))
  \o <<Line("section", "blockers")>> \o OrNone(Bullets("blocker", s.cross_plan_blockers))
  \o <<Line("section", "streams")>> \o OrNone(Bullets("stream", s.parallel_streams))
  \o <<Line("section", "order")>> \o OrNone(Bullets("recommendation", s.recommended_invocation_order))
  \o IF s.findings = <<>> THEN <<>> ELSE <<Line("section", "findings")>> \o Bullets("finding", s.findings)

AskSurveyReport ==
  Ask("survey-report", [verb |-> "survey-format"], Ok(RenderSurveyOutput(world.survey)))
-----------------------------------------------------------------------------
RunnerNext ==
  \/ Ask("work-tree", [verb |-> "snapshot"], WorkTreeSnapshot(world))
  \/ Ask("work-tree", [verb |-> "warning"], WarnIfProjectTreeDirty(world))
  \/ Ask("clock", [verb |-> "stamp"], Ok(FormatUnixUtc(world.days, world.secs)))
-----------------------------------------------------------------------------
\* A name has a blank or not; the time is a number of days and the seconds of one.
ASSUME RunnerAssumption ==
  \A w \in Worlds :
    /\ w.subject = "work-tree" => \A p \in DOMAIN w.tree : w.tree[p].blank \in BOOLEAN
    /\ w.subject = "clock" => w.days \in Nat /\ w.secs \in Nat /\ w.secs < 24 * 3600

ShowsEveryChange(w, told) ==
  \A p \in DOMAIN w.tree : w.tree[p].work # w.tree[p].base => p \in told.diff \cup told.status

\* Names with blanks and the old names of renames are left out: the warning
\* drops them.
WarnsOfTheUncommitted(w, lines) ==
  \A p \in DOMAIN w.tree :
    /\ w.tree[p].head # w.tree[p].index \/ w.tree[p].index # w.tree[p].work
    /\ w.tree[p].work # w.tree[p].base
    /\ ~w.tree[p].blank /\ \A r \in StagedRenames(w) \cup RenamesSinceBaseline(w) : r[1] # p
    => \E l \in lines : l.name.path = p

\* No change since the baseline is hidden from analyse-work, committed or not,
\* staged or not, tracked or not; and the user is warned of each path that is
\* left uncommitted with other contents than the baseline's.
WorkIsSeen ==
  /\ Answered("snapshot") /\ world.git = "ok" /\ world.baseline = "ok" => ShowsEveryChange(world, answer.value)
  /\ Answered("warning") /\ world.git = "ok" => WarnsOfTheUncommitted(world, answer.value)

\* The days to a date of the Gregorian calendar, counted in years that begin
\* in March, and those from 1970.
SinceMarch(year, month, day) ==
  LET y == IF month <= 2 THEN year - 1 ELSE year
      of_year == (153 * ((month + 9) % 12) + 2) \div 5 + day - 1
  IN  365 * y + y \div 4 - y \div 100 + y \div 400 + of_year
DayNumber(year, month, day) == SinceMarch(year, month, day) - SinceMarch(1970, 1, 1)

IsDate(t, days) ==
  /\ DayNumber(t.year, t.month, t.day) = days
  /\ t.month \in 1..12 /\ t.day \in 1..MonthLens(t.year)[t.month]
IsTime(t, secs) ==
  /\ 3600 * t.hours + 60 * t.minutes + t.seconds = secs
  /\ t.hours < 24 /\ t.minutes < 60 /\ t.seconds < 60

\* A stamp is the date and the time it was made at, also about the end of
\* February and of the year, in leap years and in 2100, which is none.
StampsAreDates == Answered("stamp") => IsDate(answer.value, world.days) /\ IsTime(answer.value, world.secs)

\* What an agent is started with and told, and what the runner reports of its
\* work and of the time.
SessionsStartRight == ConfigLayersApply /\ MemoryIsShown /\ WorkIsSeen /\ StampsAreDates

Fill(line) == FoldLeft(LAMBDA a, b : a + b, 0, line) + Len(line) - 1

\* Lines have the words in order and no more than fit, unless one word does
\* not; and no word starts a line that had room on the one before.
Wrapped(words, width, lines) ==
  /\ FlattenSeq(lines) = words
  /\ \A i \in DOMAIN lines :
       /\ lines[i] # <<>>
       /\ Len(lines[i]) > 1 => Fill(lines[i]) <= width
       /\ i > 1 => Fill(Append(lines[i - 1], Head(lines[i]))) > width

What(out, kind) == LET hits == SelectSeq(out, LAMBDA l : l.kind = kind) IN [i \in DOMAIN hits |-> hits[i].what]
Field(entries, F(_)) == [i \in DOMAIN entries |-> F(entries[i])]

\* The report has every plan, blocker, stream, recommendation and finding of
\* the survey, in its order; the heading that stands above a plan is that of
\* its project, also when the rows of a project do not follow each other; and
\* its texts are wrapped without losing a word or a line that had room.
SurveyReportIsWhole ==
  Answered("survey-format") =>
    LET s == world.survey
        out == answer.value
        HeadingOf(i) == Max({j \in 1..i : out[j].kind = "project"})
        plans == SelectSeq([i \in DOMAIN out |-> i], LAMBDA i : out[i].kind = "plan")
    IN  /\ [k \in DOMAIN plans |-> <<out[HeadingOf(plans[k])].what, out[plans[k]].what>>]
             = [k \in DOMAIN s.plans |-> <<s.plans[k].project, s.plans[k].plan>>]
        /\ What(out, "blocker") = Field(s.cross_plan_blockers, LAMBDA e : e.of)
        /\ What(out, "stream") = Field(s.parallel_streams, LAMBDA e : e.of)
        /\ What(out, "recommendation") = Field(s.recommended_invocation_order, LAMBDA e : e.of)
        /\ What(out, "finding") = Field(s.findings, LAMBDA e : e.of)
        /\ \A k \in DOMAIN s.plans :
             s.plans[k].notes # <<>> =>
               Wrapped(s.plans[k].notes, Max({1, world.width - 2}), out[plans[k] + 1].what)
=============================================================================
