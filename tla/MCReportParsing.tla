--------------------------- MODULE MCReportParsing ---------------------------
(***************************************************************************)
(* Papers for ReportParsing: tables of five columns with a retired sector   *)
(* p, its successor c and a row d that is no sector but has a name like a,  *)
(* read with one damage per extraction and row; details read with one damaged row; and texts     *)
(* whose dates, passages, lines and terms vary.                             *)
(***************************************************************************)
EXTENDS ReportParsing

CONSTANTS a, b, c, d, p

MCTopics    == {a, b, p}
MCSplits    == {c, d}
MCContinues == c :> p @@ d :> NoTopic
MCResembles == c :> p @@ d :> a
MCSplitUps  == {[parent |-> p, children |-> {c}, effective |-> 20260802]}
MCOrder     == a :> 1 @@ d :> 2 @@ p :> 3 @@ c :> 4 @@ b :> 5
MCFullShape == [display |-> 5, active |-> 4]
MCWindows   == <<[display |-> 4, active |-> 4, from |-> 20260802, through |-> 20260802]>>
MCCalendar  == {20260730, 20260731, 20260802, 20260803, 20260804}

Row(display, cells) == [display |-> display, cells |-> cells]
RowA == Row(a, <<"hold", "exit", "hold", "hold", "exit">>)
RowB == Row(b, <<"exit", "hold", "exit", "hold", "exit">>)
RowD == Row(d, <<Blank, Blank, Blank, "hold", "hold">>)
RetiredRow == Row(p, <<"hold", "exit", "exit", Blank, Blank>>)

Printing(days, print) == [days |-> days, date |-> days[5], print |-> print]
BeforeSplit == <<20260728, 20260729, 20260730, 20260731, 20260801>>
AtSplit     == <<20260729, 20260730, 20260731, 20260801, 20260802>>
AfterSplit  == <<20260730, 20260731, 20260801, 20260802, 20260803>>

\* Before the split, at the split, after it, with a successor that observes
\* early and whose row completes the line of another (d, p), with a row d that
\* looks like one of a, and the old catalogue.
LatestPrint ==
    Printing(AfterSplit, <<RowA, RetiredRow, Row(c, <<Blank, Blank, Blank, "exit", "hold">>),
                           RowD, RowB>>)
Prints ==
    { Printing(BeforeSplit, <<RowA, Row(p, <<"hold", "exit", "exit", "hold", "exit">>), RowB>>),
      Printing(AtSplit, <<RowA, Row(p, <<"hold", "exit", "exit", "hold", Blank>>),
                       Row(c, <<Blank, Blank, Blank, "hold", "hold">>), RowB>>),
      LatestPrint,
      Printing(AfterSplit, <<RowA, RowD, RetiredRow, Row(c, <<Blank, Blank, "hold", "exit", "hold">>), RowB>>),
      Printing(BeforeSplit, <<RowA, Row(p, <<"hold", "exit", "exit", "hold", "exit">>),
                              Row(d, <<"exit", "exit", "exit", "hold", "hold">>), RowB>>),
      Printing(BeforeSplit, <<RowA, Row(p, <<"hold", "exit", "exit", "hold", "exit">>)>>) }

----------------------------------------------------------------------------
(* Extractions                                                              *)

Line(of, label, clear, name, statuses) ==
    [of |-> of, label |-> label, clear |-> clear, name |-> name, statuses |-> statuses]
Statuses(row) == SelectSeq(row.cells, LAMBDA s : s # Blank)
FirstOf(s)  == SubSeq(s, 1, Len(s) - 1)

LayoutDamages == {"whole", "wrapped label", "wrapped status", "echo", "cut", "torn", "lost",
                  "nameless", "glyph"}
LinesOf(row, damage) ==
    LET s    == Statuses(row)
        last == <<s[Len(s)]>>
        Of(label, clear, name, statuses) == Line(row.display, label, clear, name, statuses)
    IN  CASE damage = "whole"          -> <<Of(row.display, TRUE, "name", s)>>
          [] damage = "wrapped label"  -> <<Of(row.display, FALSE, "name", s)>>
          [] damage = "wrapped status" -> <<Of(row.display, TRUE, "name", FirstOf(s)),
                                            Of(NoTopic, FALSE, "none", last)>>
          [] damage = "echo"           -> <<Of(row.display, FALSE, "name", s),
                                            Of(row.display, FALSE, "name", last)>>
          [] damage = "cut"            -> <<Of(row.display, TRUE, "name", FirstOf(s))>>
          [] damage = "torn"           -> <<Of(row.display, TRUE, "name", SubSeq(s, 1, 2))>>
          [] damage = "lost"           -> <<>>
          [] damage = "nameless"       -> <<Of(NoTopic, FALSE, "name", s)>>
          [] damage = "glyph"          -> <<Of(NoTopic, FALSE, "glyph", s)>>

GlyphDamages == {"whole", "lost", "thin", "broken", "twice"}
GlyphsOf(row, damage) ==
    LET seen   == {i \in DOMAIN row.cells : row.cells[i] # Blank}
        one    == CHOOSE i \in seen : \A j \in seen : i <= j
        Keep(S) == [row EXCEPT !.cells = [i \in DOMAIN row.cells |-> IF i \in S THEN row.cells[i] ELSE Blank]]
    IN  CASE damage = "whole"  -> <<row>>
          [] damage = "lost"   -> <<>>
          [] damage = "thin"   -> <<Keep(seen \ {one})>>
          [] damage = "broken" -> <<Keep({one}), Keep(seen \ {one})>>
          [] damage = "twice"  -> <<row, [row EXCEPT !.cells[one] = "watch"]>>

Damaged(rows, Of(_, _), damages) ==
    FlattenSeq([i \in DOMAIN rows |-> Of(rows[i], damages[i])])

\* One or two damaged rows of k.
Whole(k)       == [i \in 1..k |-> "whole"]
One(kinds, k)  == {[Whole(k) EXCEPT ![i] = x] : i \in 1..k, x \in kinds}
Two(kinds, k)  == {[f EXCEPT ![i] = x] : f \in One(kinds, k), i \in 1..k, x \in kinds}

Table(print, heading, lines, glyphs) ==
    [columns |-> 5, days |-> print.days, print |-> print.print, heading |-> heading,
     lines |-> Damaged(print.print, LinesOf, lines), glyphs |-> Damaged(print.print, GlyphsOf, glyphs)]

Sound(print, heading) == LET whole == Whole(Len(print.print)) IN Table(print, heading, whole, whole)

----------------------------------------------------------------------------
(* Papers                                                                   *)
Statement(kind, value, from) == [kind |-> kind, value |-> value, from |-> from]
Dates(heading, top, body, file, monthDay) ==
    [heading |-> heading, top |-> top, body |-> body, file |-> file, monthDay |-> monthDay]

Legible(object, labels) == [object |-> object, labels |-> labels, empty |-> {}, noise |-> {},
                         length |-> 2, like |-> 0]
NoReading == [v29glyphs |-> <<>>, v29layout |-> <<>>, glyphs |-> <<>>, layout |-> <<>>,
              text |-> <<>>, prose |-> <<>>]

Plainly(print, table) ==
    [dates |-> Dates({print.date}, {print.date}, {print.date}, {}, 0),
     passages |-> {"labelled_core", "labelled_market"}, version |-> "V2.9", marks24 |-> FALSE,
     table |-> table, hasLayout |-> TRUE, hasDetail |-> FALSE, hasHistory |-> table.heading # "none",
     reading |-> NoReading, judged |-> <<>>, focus |-> {a, p, c}, terms |-> {},
     statements |-> <<Statement("moved", 3950, 3900)>>, frozen |-> "none"]

\* Two damaged lines; a damaged line and damaged glyphs; either without dates.
TablePapers ==
    UNION {LET k == Len(print.print)
               lines == One(LayoutDamages, k)
               glyphs == One(GlyphDamages, k)
               Papered(heading, l, g) == Plainly(print, Table(print, heading, l, g))
           IN  {{Papered("dated", l, Whole(k)) : l \in Two(LayoutDamages, k)},
                {Papered("dated", l, g) : l \in lines, g \in glyphs},
                {Papered(h, l, Whole(k)) : h \in {"none", "bare"}, l \in lines},
                {Papered(h, Whole(k), g) : h \in {"none", "bare"}, g \in glyphs}} : print \in Prints}

\* The latest print, with and without its matrix.
Clean == Plainly(LatestPrint, Sound(LatestPrint, "dated"))
Bare  == Plainly(LatestPrint, Sound(LatestPrint, "none"))
Unmatched == [Bare EXCEPT !.hasLayout = FALSE]

\* Assessed rows: a alone, then c, then b; one of them damaged, printed twice or
\* alike in its text.
Judgements == a :> "exit" @@ c :> "hold" @@ b :> "exit"
RowReadings(o) ==
    {Legible(o, {Judgements[o]}), Legible(o, {"hold", "exit"}), Legible(o, {})}
    \cup {[Legible(o, {Judgements[o]}) EXCEPT !.empty = e, !.noise = n, !.like = l] :
             e \in {{}, {"condition"}, {"basis"}}, n \in {{}, {"peers"}, {"outlier"}}, l \in {0, 7}}
Alike == [Legible(a, {"exit"}) EXCEPT !.like = 7]
Details == {<<x>> : x \in RowReadings(a)} \cup {<<Alike, x>> : x \in RowReadings(c)}
           \cup {<<Alike, x, Alike>> : x \in RowReadings(b)} \cup {<<>>}
Readers == {"v29glyphs", "v29layout", "glyphs", "layout", "text"}
Versions == {"V2.9", "V3.0", "V2.4", "unknown"}

DetailPapers ==
    {{[q EXCEPT !.hasDetail = TRUE, !.judged = Judgements, !.version = v,
                !.reading = [NoReading EXCEPT ![reader] = detail]] :
         q \in {Clean, Unmatched}, v \in Versions, reader \in Readers, detail \in Details},
     {[Unmatched EXCEPT !.hasDetail = TRUE, !.judged = Judgements, !.reading = x] :
         x \in {[NoReading EXCEPT !.text = <<Legible(a, {"hold"}), Legible(a, {"exit"})>>],
                [NoReading EXCEPT !.prose = <<Legible(b, {"exit"})>>]}}}

MCDays == {20260802, 20260803}
DateFacts == {x \in [heading: SUBSET MCDays, top: SUBSET MCDays, body: SUBSET MCDays,
                     file: SUBSET MCDays, monthDay: {0, 803, 831}] :
                 x.heading \subseteq x.top /\ x.top \subseteq x.body}
StatementChoices == {<<>>, <<Statement("core_label", 3900, 0)>>,
    <<Statement("core_label", 3900, 0), Statement("moved", 3950, 3900)>>,
    <<Statement("moved", 3950, 3900), Statement("moved", 3980, 3950)>>,
    <<Statement("moved", 3950, 3900), Statement("first_layer", 3950, 0), Statement("second_layer", 3900, 0)>>,
    <<Statement("raised", 3950, 0), Statement("next_label", 3900, 0)>>}

TextPapers ==
    {{[Clean EXCEPT !.dates = x] : x \in DateFacts},
     {[Clean EXCEPT !.passages = x] : x \in SUBSET {"overview", "close_rule", "core_line", "bounded_risk"}},
     {[Clean EXCEPT !.statements = x, !.version = v] : x \in StatementChoices, v \in Versions},
     {[Clean EXCEPT !.terms = x, !.marks24 = m, !.version = "unknown", !.hasDetail = h] :
          x \in SUBSET {"unmapped", "probable", "candidate"}, m \in BOOLEAN, h \in BOOLEAN},
     {[Clean EXCEPT !.frozen = x] : x \in {"possible", "impossible"}}}

MCPapers == TablePapers \cup DetailPapers \cup TextPapers
=============================================================================
