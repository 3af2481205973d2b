----------------------------- MODULE MCSlackOutbox -----------------------------
(* Small outboxes for TLC. *)
EXTENDS SlackOutbox, TLC

Blank == [op |-> "post", channel |-> "C", key |-> None, version |-> 0,
          clear |-> FALSE, sequence |-> None, index |-> 0,
          source |-> None, thread |-> None, incident |-> FALSE, legible |-> TRUE,
          notice |-> None]

Part(n) == [Blank EXCEPT !.sequence = "answer", !.index = n, !.source = "input"]

(* A text and two charts, each with its upload failure notice: one chart is  *)
(* illegible, and the conversation may be an incident's.                     *)
Chart(n, notice) == [Blank EXCEPT !.op = "file", !.sequence = "bundle", !.index = n,
                                  !.notice = notice]
Notice(n) == [Chart(n, None) EXCEPT !.op = "post"]
Visuals == "text" :> Notice(0) @@ "chart1" :> Chart(1, "failed1") @@ "chart2" :> Chart(2, "failed2")
          @@ "failed1" :> Notice(1) @@ "failed2" :> Notice(2)
Illegible(chart) == [Visuals EXCEPT ![chart].legible = FALSE]
Bundles == {Illegible("chart1"), Illegible("chart2"),
            [d \in DOMAIN Visuals |-> [Illegible("chart2")[d] EXCEPT !.incident = TRUE]]}

(* The answers to two alerts in one thread, the first in two parts and of   *)
(* an incident; or three revisions of a card; or an illegible card and a    *)
(* marker that is added and removed.                                        *)
Reply(n, source) == [Part(n) EXCEPT !.source = source, !.thread = "alert"]
Card(n) == [Blank EXCEPT !.op = "update", !.key = "card", !.version = n]
Marker == [Blank EXCEPT !.op = "reaction", !.key = "marker"]
Three(a, b, c) == "first" :> a @@ "second" :> b @@ "third" :> c
Written == {Three([Part(1) EXCEPT !.source = "alert1", !.incident = TRUE],
                  Reply(999, "alert1"),
                  [Reply(0, "alert2") EXCEPT !.sequence = None]),
            Three(Card(1), Card(2), Card(3)),
            Three([Card(1) EXCEPT !.legible = FALSE], Marker, Marker)}
=============================================================================
