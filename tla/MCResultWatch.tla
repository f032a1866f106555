----------------------------- MODULE MCResultWatch -----------------------------
(***************************************************************************)
(* ResultWatch for TLC: days of eight minutes, weeks of two days; the kinds *)
(* of schedule the tables of the code have, among them one of each         *)
(* irregular combination of the holiday fields; and one page of each       *)
(* layout that a parser is written for.                                    *)
(***************************************************************************)
EXTENDS ResultWatch

\* The shape of most rows of DRAW_SCHEDULES.
Daily(time, tolerance) ==
  [code |-> "PAISITA", draw_type |-> "PAISITA_DIA", expected |-> time,
   weekdays |-> 0 .. WeekLength - 1, tolerance |-> tolerance, enabled |-> TRUE,
   holiday_times |-> <<>>, skip_on_holiday |-> FALSE, calendar_only |-> FALSE]

PlainSchedules ==
  {Daily(time, tolerance) : time \in {0, 3, 6}, tolerance \in {0, 2, 4}}
  \cup {[Daily(3, 2) EXCEPT !.weekdays = {1}], [Daily(3, 2) EXCEPT !.enabled = FALSE],
        [Daily(NoTime, 2) EXCEPT !.weekdays = {0}, !.calendar_only = TRUE],
        Daily(NoTime, 2)}
  \cup {[Daily(3, 2) EXCEPT !.holiday_times = times, !.skip_on_holiday = skip] :
          times \in {<<>>, <<5>>, <<1, 5>>}, skip \in BOOLEAN}

\* A source with a page has a draw on every day, Risaralda on one day a week.
Paged(source) ==
  [Daily(3, 2) EXCEPT !.code = source,
     !.weekdays = IF source = "LOTERIA_RISARALDA" THEN {0} ELSE @]

\* Distances in characters: "Sorteo 4974 ", "23 de septiembre 2026 ", ...
MCWidth ==
  [titulo |-> 20, sorteo |-> 12, proximo |-> 20, jugados |-> 25, fecha |-> 22,
   premio_mayor |-> 18, resultado |-> 16, numero |-> 12, cifras |-> 10, serie |-> 10]

Layout(games, template, notice, oldest_first, keep) ==
  LET Of(labels) == LET shown == SelectSeq(template, LAMBDA label : label \in labels)
                    IN  [i \in DOMAIN shown |-> [label |-> shown[i]]]
  IN  [games |-> games, full |-> Of(Labels \ {"proximo"}), pending |-> Of({"titulo", "proximo", "fecha"}),
       notice |-> notice, oldest_first |-> oldest_first, keep |-> keep]

Major == <<"proximo", "sorteo", "fecha", "premio_mayor", "serie">>

Pages ==
  [LOTERIA_TOLIMA |-> Layout(<<"TOLIMA">>, Major, "last", FALSE, 3),
   LOTERIA_VALLE |-> Layout(<<"VALLE">>, <<"proximo", "sorteo", "fecha", "numero", "serie">>, "first", TRUE, 3),
   LOTERIA_MEDELLIN |-> Layout(<<"MEDELLIN">>, <<"proximo", "sorteo", "resultado", "serie", "fecha">>, "last", FALSE, 3),
   LOTERIA_BOYACA |-> Layout(<<"BOYACA">>, Major, "first", FALSE, 1),
   LOTERIA_MANIZALES |-> Layout(<<"MANIZALES">>, Major, "last", FALSE, 2),
   LOTERIA_CAUCA |-> Layout(<<"CAUCA">>, Major, "first", FALSE, 2),
   LOTERIA_RISARALDA |-> Layout(<<"RISARALDA">>, <<"premio_mayor", "serie", "fecha">>, "nowhere", FALSE, 1),
   LOTERIA_CUNDINAMARCA |-> Layout(<<"CUNDINAMARCA">>, Major, "nowhere", FALSE, 1),
   LOTERIA_SANTANDER |-> Layout(<<"SANTANDER">>, Major, "nowhere", TRUE, 2),
   MILOTO |-> Layout(<<"MILOTO">>, <<"proximo", "sorteo", "fecha", "cifras">>, "first", FALSE, 2),
   BALOTO |-> Layout(<<"BALOTO">>, <<"sorteo", "fecha", "cifras">>, "nowhere", FALSE, 1),
   SUPER_ASTRO |-> Layout(<<"ASTRO_SOL", "ASTRO_LUNA">>, <<"cifras", "sorteo", "fecha">>, "first", FALSE, 2),
   ANTIOQUENITA |-> Layout(<<"ANTIOQUENITA_1", "ANTIOQUENITA_2">>, <<"titulo", "proximo", "sorteo", "fecha", "resultado">>, "first", FALSE, 1),
   DORADO |-> Layout(<<"DORADO_DIA", "DORADO_NOCHE">>, <<"titulo", "fecha", "cifras">>, "first", FALSE, 1),
   CHONTICO_HTML |-> Layout(<<"CHONTICO_DIA", "CHONTICO_NOCHE">>, <<"titulo", "fecha", "cifras">>, "first", FALSE, 1),
   CHONTICO |-> Layout(<<"CHONTICO_DIA", "CHONTICO_NOCHE">>, <<"titulo", "sorteo", "fecha", "resultado">>, "first", FALSE, 1)]

\* The results of one lottery, the newest first, and nothing else.
Newest == [LOTERIA_TOLIMA |-> Layout(<<"TOLIMA">>, Major, "nowhere", FALSE, 2)]

NewestSchedules == {Paged("LOTERIA_TOLIMA")}

MCSchedules == PlainSchedules \cup {Paged(c) : c \in DOMAIN Pages}

Dated(day, type, time) == [draw_date |-> day, draw_type |-> type, expected_time |-> time]

MCCalendars ==
  {<<Dated(0, "ASTRO_SOL", 2), Dated(0, "ASTRO_LUNA", 6), Dated(1, "ASTRO_SOL", 3),
     Dated(2, "ASTRO_SOL", 2), Dated(2, "ASTRO_SOL", 6)>>}
=============================================================================
