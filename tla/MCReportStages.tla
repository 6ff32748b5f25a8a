---------------------------- MODULE MCReportStages ----------------------------
EXTENDS ReportStages, TLC

CONSTANTS c1, c2, p1, p2

Tasks == {[claim |-> c1, passage |-> p1], [claim |-> c1, passage |-> p2],
          [claim |-> c2, passage |-> p2]}

\* Four issues of CONTEXT_PENALTIES at 25 each take the whole context.
Penalties == [causation |-> 250, surroundings |-> 250, conditional |-> 250, nonliteral |-> 250]
Judgment(stance, lacks, text, context, speakerOrDate) ==
  [stance |-> stance, lacks |-> lacks, text |-> text, context |-> context,
   speakerOrDate |-> speakerOrDate]

Supports    == Judgment(2, {}, {"for"}, {}, FALSE)
Qualified   == Judgment(1, {}, {"for"}, DOMAIN Penalties, FALSE)
Contradicts == Judgment(-2, {"entity"}, {"against"}, {}, FALSE)
OffTopic    == Judgment(-1, {"relevance"}, {"against"}, {"causation"}, TRUE)
Silent      == Judgment(0, {}, {}, {}, FALSE)

Judgments(t) ==
  IF t.passage = p1 THEN {Supports, Silent}
  ELSE IF t.claim = c1 THEN {Contradicts, OffTopic}
  ELSE {Qualified, OffTopic}

MCSourceOf == (p1 :> 1) @@ (p2 :> 2)
MCQuality == (p1 :> 9) @@ (p2 :> 8)
MCImportance == (c1 :> 3) @@ (c2 :> 2)

Sources == 1..5
Own == [s \in Sources |-> s]

\* What documents may have in common: of four that were read, each pair of the
\* first three one thing; the fourth may be a copy of the third, and the fifth
\* was not read.  A page with a date of change
\* only, one without dates, and equal dates are there.
PairsRead == {<<1, 2>>, <<1, 3>>, <<2, 3>>, <<3, 4>>}
InCommon == {"nothing", "copy", "near", "quote", "data", "error"}
Common == {c \in [PairsRead -> InCommon] : c[<<3, 4>>] \in {"nothing", "copy"}}
Dates == {<<<<1, 0>>, <<2, 4>>, <<3, 0>>, <<2, 0>>>>, <<<<0, 2>>, <<3, 0>>, <<0, 0>>, <<1, 0>>>>,
          <<<<2, 0>>, <<2, 0>>, <<2, 0>>, <<0, 1>>>>, <<<<0, 0>>, <<0, 1>>, <<2, 0>>, <<0, 0>>>>}
Cited == {<<2, 1>>, <<3, 1>>, <<1, 3>>, <<3, 5>>}
Kinds == <<"other", "report", "analysis", "other", "other">>
CitesAndKinds == {<<{}, Kinds>>, <<Cited, Kinds>>,
                  <<Cited, <<"analysis", "other", "other", "report", "other">>>>}

Found(common, dates, cites, kind) ==
  LET In(S) == {p \in PairsRead : common[p] \in S} IN
  [read |-> 1..4, kind |-> kind, cites |-> cites,
   published |-> [s \in Sources |-> IF s = 5 THEN 0 ELSE dates[s][1]],
   updated |-> [s \in Sources |-> IF s = 5 THEN 0 ELSE dates[s][2]],
   fetched |-> [s \in Sources |-> 5],
   copy |-> In({"copy"}), near |-> In({"near"}), quote |-> In({"quote"}),
   data |-> In({"data"}), error |-> In({"error"})]

MCInputs ==
  {Found(common, dates, x[1], x[2]) :
     <<common, dates, x>> \in Common \X Dates \X CitesAndKinds}

\* The sources of the run that is scored have nothing in common.
MCFeatures ==
  Found([p \in PairsRead |-> "nothing"], <<<<1, 0>>, <<2, 0>>, <<3, 0>>, <<4, 0>>>>, {},
        <<"other", "report", "other", "other", "other">>)
==============================================================================
