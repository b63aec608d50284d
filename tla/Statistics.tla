------------------------------- MODULE Statistics -------------------------------
(***************************************************************************)
(* The statistics of the server: StatisticsCSVWriter appends a row per     *)
(* message to the file of the day, and statistic_analyzer.py reads the     *)
(* files: analyze counts per day and name, and the moving averages of      *)
(* moving_average_helper.py find the days that deviate from those before.  *)
(*                                                                         *)
(* A row has the time of its message, which was set before the row was     *)
(* written: connections work at once, so rows need not be in the order of  *)
(* their times, and a row of yesterday may be in the file of today.  A     *)
(* size is NoSize ('') in the row of an error.  Means are fractions        *)
(* <<sum, count>>, compared without division.                              *)
(***************************************************************************)
EXTENDS Integers, Sequences, FiniteSets, SequencesExt, FiniteSetsExt

CONSTANTS Urls, HostOf, DomainOf,   \* url -> host, host -> domain, "" for none
          RowSizes,                 \* set of <<request size, response size>>
          Windows,                  \* moving_average_window_days that are used
          Percentage,               \* top_bottom_deviation_percentage, a fraction
          SkipCounts,               \* skip_total_count_less_than, 0 for None
          Filters,                  \* sets of rules, a rule being a set of urls
          DayLength,                \* moments of a day
          MaxMoments, MaxStatRows   \* bounds

ASSUME StatAssumption ==
    /\ DayLength \in Nat \ {0} /\ MaxMoments \in Nat
    /\ Windows \subseteq Nat \ {0} /\ RowSizes \subseteq Int \X Int

VARIABLES statFiles,   \* the files, oldest first: [date, rows]
          statNow      \* the moment

stat_vars == <<statFiles, statNow>>
NoSize == -1
Today == statNow \div DayLength
AllRows(files) == FlattenSeq([i \in 1..Len(files) |-> files[i].rows])

StatInit == statFiles = <<>> /\ statNow = 0

(* StatisticsCSVWriter.write_row, into the file of the day.                *)
Logged(row) ==
    /\ Len(AllRows(statFiles)) < MaxStatRows
    /\ statFiles' = IF statFiles # <<>> /\ Last(statFiles).date = Today
                    THEN [statFiles EXCEPT ![Len(statFiles)].rows = Append(@, row)]
                    ELSE Append(statFiles, [date |-> Today, rows |-> <<row>>])
    /\ UNCHANGED statNow
write_row(url, sizes, delay) ==
    /\ delay <= statNow
    /\ Logged([url |-> url, request |-> sizes[1], response |-> sizes[2],
               error |-> FALSE, time |-> statNow - delay])
write_accept_error(url) ==
    Logged([url |-> url, request |-> NoSize, response |-> NoSize, error |-> TRUE,
            time |-> statNow])
moment_passes == statNow < MaxMoments /\ statNow' = statNow + 1 /\ UNCHANGED statFiles

StatNext ==
    \/ \E url \in Urls, sizes \in RowSizes, delay \in {0, 1} : write_row(url, sizes, delay)
    \/ \E url \in Urls : write_accept_error(url)
    \/ moment_passes
-----------------------------------------------------------------------------
(* The moving averages.                                                    *)
match_filter(row, filter) == \E rule \in filter : row.url \in rule
get_content_without_useless(rows, filter) ==
    SelectSeq(rows, LAMBDA r : /\ ~match_filter(r, filter)
                               /\ r.request # NoSize \/ r.response # NoSize)

NameOf(row, by) == IF by = "host" THEN HostOf[row.url] ELSE row.url
SizesOf(rows, by, name, direction) ==
    LET sizes == [i \in 1..Len(rows) |-> IF NameOf(rows[i], by) # name THEN NoSize
                                         ELSE rows[i][direction]]
    IN  SelectSeq(sizes, LAMBDA s : s # NoSize)

(* Fractions <<n, d>>.                                                     *)
Plus(f, g) == <<f[1] * g[2] + g[1] * f[2], f[2] * g[2]>>
Above(f, g) == f[1] * g[2] > g[1] * f[2]
MeanOf(fractions) ==
    LET sum == FoldSeq(Plus, <<0, 1>>, fractions)
    IN  <<sum[1], sum[2] * Len(fractions)>>
Whole(sizes) == [i \in 1..Len(sizes) |-> <<sizes[i], 1>>]

(* compute_statistics_from_content: what is compared of a name, in a day.  *)
Checks == {"count", "avg"} \X {"request", "response"}
Daily(rows, by, name, check) ==
    LET sizes == SizesOf(rows, by, name, check[2])
    IN  IF check[1] = "count" THEN <<Len(sizes), 1>>
        ELSE IF sizes = <<>> THEN <<0, 1>> ELSE MeanOf(Whole(sizes))
NamesIn(rows, by) == {NameOf(rows[i], by) : i \in 1..Len(rows)}

(* compute_moving_averages_from_average_statistics: over the window that   *)
(* ends with a day, of the days in which the name occurs.                  *)
WindowOf(days, i, window) == IF i < window THEN <<>> ELSE SubSeq(days, i - window + 1, i)
MovingAverage(past, by, name, check) ==
    LET in == SelectSeq(past, LAMBDA d : name \in NamesIn(d.rows, by))
    IN  MeanOf([k \in 1..Len(in) |-> Daily(in[k].rows, by, name, check)])
AveragedNames(past, by) == UNION {NamesIn(past[k].rows, by) : k \in 1..Len(past)}

(* _check_deviation.                                                       *)
Skipped(check, value, count, skip) ==
    /\ skip > 0
    /\ IF check[1] = "avg" /\ count > 0 THEN count < skip ELSE Above(<<skip, 1>>, value)
DeviationType(value, average) ==
    LET part == <<average[1] * Percentage[1], average[2] * Percentage[2]>>
        minus == <<-part[1], part[2]>>
    IN  IF Above(value, Plus(average, part)) THEN "above"
        ELSE IF Above(Plus(average, minus), value) THEN "below" ELSE "none"

(* find_deviation_from_moving_average: of a day, from the window before it.*)
DeviationsOfDay(day, past, by, skip) ==
    LET averaged == AveragedNames(past, by)
        Found(name, check) ==
            LET value == Daily(day.rows, by, name, check)
                type == DeviationType(value, MovingAverage(past, by, name, check))
            IN  IF type = "none" \/ Skipped(check, value,
                     Len(SizesOf(day.rows, by, name, check[2])), skip) THEN {}
                ELSE {[day |-> day.date, name |-> name, check |-> check,
                       type |-> type, value |-> value]}
        Of(name) == IF name \in averaged THEN UNION {Found(name, c) : c \in Checks}
                    ELSE {[day |-> day.date, name |-> name, check |-> <<>>,
                           type |-> "clear", value |-> <<>>]}
    IN  IF averaged = {} THEN {} ELSE UNION {Of(n) : n \in NamesIn(day.rows, by)}

(* get_all_files_content: all files, those that the last day needs, or     *)
(* those that a date needs.                                                *)
Mutant_days_back(window) == window
days_back(window) == window + 1
LastFiles(files, window) ==
    SubSeq(files, Max({1, Len(files) - days_back(window) + 1}), Len(files))
FilesForDate(files, window, date) ==
    LET index == CHOOSE i \in 1..Len(files) : files[i].date = date
    IN  SubSeq(files, Max({1, index - window}), index)

DaysOf(files, filter) ==
    [i \in 1..Len(files) |->
        [date |-> files[i].date,
         rows |-> get_content_without_useless(files[i].rows, filter)]]
calculate_moving_average(files, window, by, skip, filter) ==
    LET days == DaysOf(files, filter)
    IN  UNION {DeviationsOfDay(days[i], WindowOf(days, i - 1, window), by, skip) :
                 i \in 1..Len(days)}
-----------------------------------------------------------------------------
(* analyze: counts per name, over all rows and per day after the first row.*)
(* A row outside the days from the first to the last row raises KeyError.  *)
DayNumber(rows, row) == (row.time - rows[1].time) \div DayLength
LastDayNumber(rows) == DayNumber(rows, Last(rows))
Analyzed(rows) == {i \in 1..Len(rows) : DomainOf[HostOf[rows[i].url]] # ""}
AnalyzeRaises(rows) ==
    \E i \in Analyzed(rows) : DayNumber(rows, rows[i]) \notin 0..LastDayNumber(rows)

(* Features of a row, the counters and lists that it is added to.          *)
Features(row) ==
    {"total_count", IF row.error THEN "error_count" ELSE "normal_count"}
SizeFeatures(row) ==
    (IF row.request = 0 THEN {"request_0_byte_count"} ELSE {})
    \cup (IF row.response = 0 THEN {"response_0_byte_count"} ELSE {})
    \cup (IF row.request # NoSize /\ row.response # NoSize
          THEN {"request_sizes_list", "response_sizes_list"} ELSE {})
    \cup (IF row.request > 0 /\ row.response # NoSize
          THEN {"request_sizes_no_0_bytes_list"} ELSE {})
    \cup (IF row.response > 0 /\ row.request # NoSize
          THEN {"response_sizes_no_0_bytes_list"} ELSE {})
TypeName(row, type) ==
    CASE type = "domain" -> DomainOf[HostOf[row.url]]
      [] type = "subdomain" -> HostOf[row.url]
      [] type = "url_no_parameters" -> row.url
RowsOf(rows, type, name) == {i \in Analyzed(rows) : TypeName(rows[i], type) = name}
Counted(rows, type, feature, name) ==
    Cardinality({i \in RowsOf(rows, type, name) : feature \in Features(rows[i])})
CountedInDay(rows, type, feature, name, day) ==
    Cardinality({i \in RowsOf(rows, type, name) :
                   /\ DayNumber(rows, rows[i]) = day
                   /\ feature \in Features(rows[i]) \cup SizeFeatures(rows[i])})
-----------------------------------------------------------------------------
StatTypeOK ==
    /\ statNow \in 0..MaxMoments
    /\ \A i \in 1..Len(statFiles) :
          statFiles[i].date \in 0..Today /\ statFiles[i].rows # <<>>

(* Asking for the last day or for one date reads fewer files than asking   *)
(* for everything and finds the same deviations of that day.               *)
OneDayIsAsInAllDays ==
    \A window \in Windows, by \in {"host", "url"}, skip \in SkipCounts, filter \in Filters :
        LET all == calculate_moving_average(statFiles, window, by, skip, filter)
            OfDay(found, date) == {d \in found : d.day = date}
        IN  \A i \in 1..Len(statFiles) :
              LET date == statFiles[i].date
              IN  /\ OfDay(calculate_moving_average(
                             FilesForDate(statFiles, window, date), window, by, skip,
                             filter), date) = OfDay(all, date)
                  /\ i = Len(statFiles) =>
                       calculate_moving_average(LastFiles(statFiles, window), window, by,
                                                skip, filter) = OfDay(all, date)

(* A report adds up: what is counted per day is what is counted in all,    *)
(* and every row is normal or an error; it fails only for rows that are    *)
(* not in the order of their times.                                        *)
CountedUpToDay(rows, type, feature, name, last) ==
    LET sum[day \in 0..last] == CountedInDay(rows, type, feature, name, day)
                                + (IF day = 0 THEN 0 ELSE sum[day - 1])
    IN  sum[last]
ReportAddsUp ==
    LET rows == AllRows(statFiles)
        inOrder == \A i, j \in 1..Len(rows) : i < j => rows[i].time <= rows[j].time
    IN  rows # <<>> =>
        IF AnalyzeRaises(rows) THEN ~inOrder
        ELSE \A type \in {"domain", "subdomain", "url_no_parameters"} :
             \A name \in {TypeName(rows[i], type) : i \in Analyzed(rows)} :
               LET total == Counted(rows, type, "total_count", name)
               IN  /\ total = Counted(rows, type, "normal_count", name)
                              + Counted(rows, type, "error_count", name)
                   /\ total = CountedUpToDay(rows, type, "total_count", name,
                                             LastDayNumber(rows))

(* What is said of one day and in the report is what the rows say.         *)
StatisticsAgree == OneDayIsAsInAllDays /\ ReportAddsUp
=============================================================================
