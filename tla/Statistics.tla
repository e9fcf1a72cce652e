----------------------------- MODULE Statistics ------------------------------
(***************************************************************************)
(* The numbers of /stats: the pages of closed SRs and of surveys, cut at   *)
(* every "<br>" and "|", and the averages of XML::stats.  A cell is <<>>   *)
(* if it is empty, <<BLANK>> if it has blanks only, or holds its number.   *)
(***************************************************************************)
EXTENDS Integers, Sequences, FiniteSets

BLANK == -1
NONE  == 88     \* the rating of who gave none

\* What is behind the last "<br>" is left out.
Lines(page) == SubSeq(page, 1, Len(page) - 1)

toInt(cell) == IF cell = <<BLANK>> THEN 0 ELSE cell[1]

\* The test for an empty cell comes before the blanks are trimmed.
Rating(cell) == IF cell = <<>> THEN NONE ELSE toInt(cell)

Survey(line) ==
  [srsat |-> Rating(line.srsat), engsat |-> Rating(line.engsat), rts |-> toInt(line.rts)]

Total(numbers) ==
  LET sum[i \in 0..Len(numbers)] == IF i = 0 THEN 0 ELSE sum[i - 1] + numbers[i]
  IN sum[Len(numbers)]

Rated(ratings) == {i \in DOMAIN ratings : ratings[i] # NONE}

TotalRated(ratings) ==
  Total([i \in DOMAIN ratings |-> IF i \in Rated(ratings) THEN ratings[i] ELSE 0])

\* Faulty variant: divided by the number of all surveys.
AverageOfAll(ratings) ==
  IF ratings = <<>> THEN 0 ELSE TotalRated(ratings) \div Len(ratings)

Average(ratings) ==
  IF Rated(ratings) = {} THEN 0
  ELSE TotalRated(ratings) \div Cardinality(Rated(ratings))

\* rtsPercent; "reached the target" is 1 or 0.
Percent(reached) == IF reached = <<>> THEN 0 ELSE (Total(reached) * 100) \div Len(reached)

stats(page) ==
  LET csat == [i \in DOMAIN Lines(page) |-> Survey(page[i])]
  IN [engavg |-> Average([i \in DOMAIN csat |-> csat[i].engsat]),
      sravg  |-> Average([i \in DOMAIN csat |-> csat[i].srsat]),
      rtsavg |-> Percent([i \in DOMAIN csat |-> csat[i].rts])]
=============================================================================
