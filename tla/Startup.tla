------------------------------- MODULE Startup -------------------------------
(***************************************************************************)
(* What a ship makes of its files before it opens its ports: ship.ini and  *)
(* the languages, the parameter files of comma separated values, and the   *)
(* tables of what boxes and monsters leave, which are dealt out from       *)
(* frequencies.                                                            *)
(*                                                                         *)
(* The rates of ship.ini are above zero, and of every column of            *)
(* frequencies some that can be dealt is above zero.                       *)
(***************************************************************************)
EXTENDS Integers, Sequences, FiniteSets, SequencesExt

CONSTANTS
  Inis,          \* what ship.ini may say: [lines, blocks, connections, rates]
  Compiled,      \* SHIP_COMPILED_MAX_CONNECTIONS
  Langs,         \* lines of lang.ini
  CsvChars,      \* the characters of a parameter file: "," and "q", a quotation mark, "low" and others
  MaxChars,      \* bound on the length of a line
  MaxLines,      \* lines of csv_params
  DropSections, Difficulties, DropAreas,   \* numbered from zero
  PTFile,        \* the records of ItemPT.gsl, one after the other
  TableSize      \* entries of a table

VARIABLE boot    \* [stage, conf, csv, place, todo, deal, tables]

----------------------------------------------------------------------------
(* load_config_file, load_language_file                                    *)

AtMost(n, m) == IF n < m THEN n ELSE m

\* Faulty: the connections are measured against the blocks that were asked for.
Config_asked(ini) ==
  LET blocks == IF ini.blocks > 10 THEN 10 ELSE IF ini.blocks = 0 THEN 1 ELSE ini.blocks
  IN  [blocks |-> blocks, connections |-> AtMost(AtMost(ini.connections, ini.blocks * 180), Compiled),
       rates |-> [i \in DOMAIN ini.rates |-> 100000 \div ini.rates[i]], languages |-> 0]

\* Line after line; each number is put right before the next is read.
Config(ini) ==
  LET blocks == IF ini.blocks > 10 THEN 10 ELSE IF ini.blocks = 0 THEN 1 ELSE ini.blocks
  IN  [blocks |-> blocks, connections |-> AtMost(AtMost(ini.connections, blocks * 180), Compiled),
       rates |-> [i \in DOMAIN ini.rates |-> 100000 \div ini.rates[i]], languages |-> 0]

\* Two lines make a language, there are ten at most and always the first.
Languages(lines) == IF lines < 2 THEN 1 ELSE AtMost(10, lines \div 2)

----------------------------------------------------------------------------
(* LoadCSV                                                                 *)

\* Faulty: quotation marks are dropped but hide nothing.
Read_plain(r, c) ==
  IF c = "," THEN [r EXCEPT !.params[Len(r.params)].ended = TRUE,
                            !.params = Append(@, [text |-> <<>>, ended |-> FALSE])]
  ELSE IF c \in {"q", "low"} THEN r
  ELSE [r EXCEPT !.params[Len(r.params)].text = Append(@, c)]

\* One character: a comma ends a parameter, except between quotation marks.
Read(r, c) ==
  IF c = "," /\ ~r.open_quote
  THEN [r EXCEPT !.params = Append([@ EXCEPT ![Len(@)].ended = TRUE], [text |-> <<>>, ended |-> FALSE])]
  ELSE IF c = "q" THEN [r EXCEPT !.open_quote = ~@]
  ELSE IF c = "low" THEN r
  ELSE [r EXCEPT !.params[Len(r.params)].text = Append(@, c)]

\* A line; the last parameter is ended only when it has text.
ParseLine(line) ==
  LET r == FoldLeft(Read, [params |-> <<[text |-> <<>>, ended |-> FALSE]>>, open_quote |-> FALSE], line)
  IN  [r.params EXCEPT ![Len(r.params)].ended = r.params[Len(r.params)].text # <<>>]

\* A file: not one line more than there is room for, and one to spare.
LoadCSV(n) == n <= MaxLines - 1

----------------------------------------------------------------------------
(* The drop tables                                                         *)

\* The great monsters, which leave something each time.
BossTable(e) == IF e = 1 THEN {44, 45, 46, 47} ELSE {73, 76, 77, 78}

\* The last of them leaves money, more than the one before it and more in a harder game.
Falz(e, rec, d) ==
  LET last == IF e = 1 THEN 47 ELSE 78
  IN  [rec EXCEPT !.enemy_dar = [k \in DOMAIN @ |-> IF k \in BossTable(e) THEN 100 ELSE @[k]],
                  !.enemy_meseta[last] = [i \in 1 .. 2 |-> rec.enemy_meseta[last - 1][i] + 400 + 100 * d]]

\* A column to be dealt: how often each kind comes, out of what, and what it is worth; <<>> cannot be dealt.
Column(name, area, ratios, limit, values) ==
  [name |-> name, area |-> area, ratios |-> ratios, limits |-> [i \in DOMAIN ratios |-> limit], values |-> values]

Plainly(ratios) == [i \in DOMAIN ratios |-> <<i - 1>>]

\* A weapon's rank goes up with the area; one below zero is not left there.
Weapons(rec, a) ==
  Column("weapon", a, rec.weapon_ratio, 255,
         [i \in DOMAIN rec.weapon_ratio |->
            LET rank == rec.weapon_minrank[i] + rec.area_pattern[a]
            IN  IF rank >= 0 THEN <<i, rank>> ELSE <<>>])

SlotRanks(rec) == Column("slots", 0, rec.slot_ranking, 100, Plainly(rec.slot_ranking))

Powers(rec, a) == Column("power", a, rec.power_pattern[a], 100, Plainly(rec.power_pattern[a]))

Percents(rec, a) == Column("percent", a, rec.percent_pattern[a], 10000, Plainly(rec.percent_pattern[a]))

\* The twenty-fourth kind of tool is never left.
ToolTable(rec, a) ==
  LET often == [i \in DOMAIN rec.tool_frequency[a] |-> IF i = 24 THEN 0 ELSE rec.tool_frequency[a][i]]
  IN  Column("tool", a, often, 10000, Plainly(often))

Attachments(rec, a) == Column("attachment", a, rec.percent_attachment[a], 100, Plainly(rec.percent_attachment[a]))

\* A technique with a level below zero is not left.
Techniques(rec, a) ==
  Column("tech", a, rec.tech_frequency[a], 255,
         [i \in DOMAIN rec.tech_frequency[a] |-> IF rec.tech_levels[i][a] >= 0 THEN <<i - 1>> ELSE <<>>])

Columns(rec) ==
  LET each(C(_, _)) == [i \in 1 .. Cardinality(DropAreas) |-> C(rec, i - 1)]
  IN  each(Weapons) \o <<SlotRanks(rec)>> \o each(Powers) \o each(Percents) \o each(ToolTable) \o each(Attachments)
      \o each(Techniques)

\* Faulty: what was dealt is counted on.
Turned_keeps(column, d, i) ==
  LET n == d.counters[i] + column.ratios[i]
  IN  IF n >= column.limits[i] /\ Len(d.table) < TableSize /\ column.values[i] # <<>>
      THEN [d EXCEPT !.counters[i] = n, !.table = Append(@, column.values[i])]
      ELSE [d EXCEPT !.counters[i] = n]

\* Faulty: a full table is dealt to until the round is over.
Turned_over(column, d, i) ==
  LET n == d.counters[i] + column.ratios[i]
  IN  IF n >= column.limits[i] /\ column.values[i] # <<>>
      THEN [d EXCEPT !.counters[i] = 0, !.table = Append(@, column.values[i])]
      ELSE [d EXCEPT !.counters[i] = n]

\* One kind's turn: it is dealt when it has counted up to the limit and begins again.
Turned(column, d, i) ==
  LET n == d.counters[i] + column.ratios[i]
  IN  IF n >= column.limits[i] /\ Len(d.table) < TableSize /\ column.values[i] # <<>>
      THEN [d EXCEPT !.counters[i] = 0, !.table = Append(@, column.values[i])]
      ELSE [d EXCEPT !.counters[i] = n]

\* A round: every kind's turn.
Round(column, d) ==
  LET dealt == FoldLeft(LAMBDA x, i : Turned(column, x, i), d, [i \in DOMAIN column.ratios |-> i])
  IN  [dealt EXCEPT !.round = @ + 1]

NewDeal(column) == [counters |-> [i \in DOMAIN column.ratios |-> 0], table |-> <<>>, round |-> 0]

\* common_table: weapon, armor, mag, tool, meseta, each at its rate.
Common(rates) ==
  [Column("common", 0, [i \in DOMAIN rates |-> 1], 0, Plainly(rates)) EXCEPT !.limits = rates]

----------------------------------------------------------------------------

NoDeal == [counters |-> <<>>, table |-> <<>>, round |-> 0]

StartupInit ==
  boot = [stage |-> "config", conf |-> <<>>, csv |-> <<>>, place |-> 0, todo |-> <<>>, deal |-> NoDeal, tables |-> <<>>]

ReadConfig ==
  /\ boot.stage = "config"
  /\ \E ini \in Inis, lines \in Langs :
       boot' = IF ini.lines < 13 THEN [boot EXCEPT !.stage = "exit"]
               ELSE [boot EXCEPT !.stage = "csv", !.conf = [Config(ini) EXCEPT !.languages = Languages(lines)]]

\* The next character of a line of a parameter file.
ReadCSV(c) ==
  /\ boot.stage = "csv" /\ Len(boot.csv) < MaxChars
  /\ boot' = [boot EXCEPT !.csv = Append(@, c)]

\* The parameter files had n lines; main goes on to common_table.
EndCSV(n) ==
  /\ boot.stage = "csv" /\ boot.csv = <<>>
  /\ LET common == Common(boot.conf.rates)
     IN  boot' = IF LoadCSV(n) THEN [boot EXCEPT !.stage = "tables", !.todo = <<common>>, !.deal = NewDeal(common)]
                 ELSE [boot EXCEPT !.stage = "exit"]

Each == Cardinality(DropSections) * Cardinality(Difficulties)

\* Faulty: the file is read as if the sections went round first.
Where_sections(place) ==
  [episode |-> 1 + place \div Each, difficulty |-> (place % Each) % Cardinality(Difficulties),
   section |-> (place % Each) \div Cardinality(Difficulties)]

\* Where the next record belongs: sections of a difficulty, difficulties of an episode.
Where(place) ==
  [episode |-> 1 + place \div Each, difficulty |-> (place % Each) \div Cardinality(DropSections),
   section |-> (place % Each) % Cardinality(DropSections)]

\* main: the next record, with its columns to be dealt; the last one is followed by the rest of the start.
ReadRecord ==
  /\ boot.stage = "tables" /\ boot.todo = <<>>
  /\ IF boot.place = 2 * Each THEN boot' = [boot EXCEPT !.stage = "up"]
     ELSE LET w == Where(boot.place)
              rec == Falz(w.episode, PTFile[boot.place + 1], w.difficulty)
              columns == Columns(rec)
          IN  boot' = [boot EXCEPT !.place = @ + 1, !.todo = columns, !.deal = NewDeal(Head(columns)),
                                   !.tables = Append(@, [where |-> w, enemy_dar |-> rec.enemy_dar,
                                                         enemy_meseta |-> rec.enemy_meseta])]

DealRound ==
  /\ boot.todo # <<>>
  /\ boot' = IF Len(boot.deal.table) < TableSize THEN [boot EXCEPT !.deal = Round(Head(boot.todo), @)]
             ELSE [boot EXCEPT !.todo = Tail(@), !.deal = IF Len(boot.todo) = 1 THEN NoDeal ELSE NewDeal(boot.todo[2])]

StartupNext ==
  \/ ReadConfig
  \/ \E c \in CsvChars : ReadCSV(c)
  \/ \E n \in {0, MaxLines - 1, MaxLines} : EndCSV(n)
  \/ ReadRecord
  \/ DealRound

----------------------------------------------------------------------------

\* The types of the fields.
StartupTypeOK ==
  /\ boot.stage \in {"config", "csv", "tables", "up", "exit"}
  /\ boot.csv \in Seq(CsvChars) /\ Len(boot.csv) <= MaxChars
  /\ boot.place \in 0 .. 2 * Each /\ Len(boot.tables) = boot.place

\* After how many rounds a kind is dealt.
Period(column, i) == (column.limits[i] + column.ratios[i] - 1) \div column.ratios[i]

Dealt(d, value) == Cardinality({k \in DOMAIN d.table : d.table[k] = value})

\* While a table fills up each kind that can be left comes up once in every period of its own, neither dropped nor
\* doubled when others come up in the same round, and the table ends exactly where its room does.
FairShares ==
  boot.todo # <<>> =>
    LET column == Head(boot.todo)
        full == Len(boot.deal.table) = TableSize
    IN  /\ Len(boot.deal.table) <= TableSize
        /\ \A i \in DOMAIN column.ratios :
             LET n == Dealt(boot.deal, column.values[i])
             IN  IF column.ratios[i] = 0 \/ column.values[i] = <<>> THEN n = 0
                 ELSE /\ n <= boot.deal.round \div Period(column, i)
                      /\ n >= (IF full THEN boot.deal.round - 1 ELSE boot.deal.round) \div Period(column, i)

\* Whether a character is between quotation marks goes by the marks before it; a line is cut at every other comma and
\* nowhere else, and loses nothing but the marks and what cannot be seen.
CsvExact ==
  boot.stage = "csv" =>
    LET line == boot.csv
        cut == {i \in DOMAIN line : line[i] = "," /\ Cardinality({j \in 1 .. i : line[j] = "q"}) % 2 = 0}
        at == <<0>> \o SetToSortSeq(cut, <) \o <<Len(line) + 1>>
        params == ParseLine(line)
    IN  /\ Len(params) = Cardinality(cut) + 1
        /\ \A k \in DOMAIN params :
             /\ params[k].text = SelectSeq(SubSeq(line, at[k] + 1, at[k + 1] - 1), LAMBDA c : c \notin {"q", "low"})
             /\ k < Len(params) \/ params[k].text # <<>> => params[k].ended

\* Every table is that of its episode, difficulty and section, in which order the file has them.
ReadInPlace ==
  \A k \in DOMAIN boot.tables :
    LET w == boot.tables[k].where
        n == ((w.episode - 1) * Cardinality(Difficulties) + w.difficulty) * Cardinality(DropSections) + w.section
    IN  boot.tables[k].enemy_meseta[1] = PTFile[n + 1].enemy_meseta[1]

\* Whatever ship.ini says there are some blocks and languages, no more clients than 180 a block and than there is room
\* for, and, as every ship.ini asks for some, at least one.
ConfigSound ==
  boot.conf # <<>> =>
    /\ boot.conf.blocks \in 1 .. 10 /\ boot.conf.languages \in 1 .. 10
    /\ boot.conf.connections \in 1 .. AtMost(180 * boot.conf.blocks, Compiled)

\* All of it.
StartupSound == FairShares /\ CsvExact /\ ReadInPlace /\ ConfigSound
=============================================================================
