--------------------------- MODULE BreadthWindows ---------------------------
(***************************************************************************)
(* providers/windows.py: the window a run of a paged target freezes.  Pure  *)
(* functions of a configuration, the run's start and the cursor's           *)
(* watermark; time is counted in ticks, HourTicks to an hour.               *)
(***************************************************************************)
EXTENDS Integers
Sets == INSTANCE FiniteSetsExt

CONSTANTS
    HourTicks, DayTicks, MonthTicks,  \* an hour, a day and a month
    HourCeiling, DayCeiling,          \* the longest windows, of the hourly and of the daily operations
    MonthCeiling,                     \* twelve months
    MaxLag,                           \* bound on the ingestion lags checked
    Epoch                             \* the first instant checked

ASSUME WindowsAssumption ==
    /\ {HourTicks, DayTicks, MonthTicks, MonthCeiling, MaxLag, Epoch} \subseteq Nat \ {0}
    /\ DayTicks % HourTicks = 0 /\ MonthTicks % DayTicks = 0
    /\ HourCeiling \in Nat /\ HourCeiling % HourTicks = 0
    /\ DayCeiling \in Nat /\ DayCeiling % DayTicks = 0

NoWatermark == -1

Granularities == {"hour", "day", "month"}

Ticks(g) == CASE g = "hour" -> HourTicks [] g = "day" -> DayTicks [] g = "month" -> MonthTicks

Ceiling(g) == CASE g = "hour" -> HourCeiling [] g = "day" -> DayCeiling [] g = "month" -> MonthCeiling

\* replace(minute=0...) and replace(hour=0); months are counted as in year * 12 + month.
Floor(t, n) == (t \div n) * n

Month(t) == t \div MonthTicks

\* validate_window of a rolling configuration: in ticks, and in months for the monthly
\* operation.
Rolling(g) ==
    LET shortest == IF g = "month" THEN 1 ELSE Ticks(g)
        longestLag == IF MaxLag < Ceiling(g) THEN MaxLag ELSE Ceiling(g)
    IN  {c \in [lookback : shortest .. Ceiling(g), overlap : 0 .. Ceiling(g), lag : 0 .. longestLag] :
            c.overlap < c.lookback}

\* validate_window of the resolved configuration, which breadth_config repeats before
\* every request.
ValidFixed(g, w) ==
    IF g = "month" THEN w.end - w.start \in 0 .. MonthCeiling - 1
    ELSE w.end - w.start \in 1 .. Ceiling(g)

\* The monthly operation ends with the last complete month; its bounds are months.
MonthlyWindow(c, now, watermark) ==
    LET end == Month(now) - 1 - c.lag
        reach == end - c.lookback + 1
    IN  [start |-> IF watermark = NoWatermark THEN reach
                   ELSE Sets!Max({reach, Sets!Min({Month(watermark) - c.overlap, end})}),
         end |-> end]

\* Mutant of ResolveWindow: the next window starts at the watermark itself.
ResolveWindow_NoOverlap(g, c, now, watermark) ==
    IF g = "month" THEN MonthlyWindow(c, now, watermark)
    ELSE LET end == Floor(now - c.lag, Ticks(g))
             reach == end - c.lookback
         IN  [start |-> Floor(IF watermark = NoWatermark THEN reach
                              ELSE Sets!Max({reach, Sets!Min({watermark, end - HourTicks})}), Ticks(g)),
              end |-> end]

\* resolve_window: it reaches back to the watermark less the overlap, at most the
\* lookback and at least an hour.
ResolveWindow(g, c, now, watermark) ==
    IF g = "month" THEN MonthlyWindow(c, now, watermark)
    ELSE LET end == Floor(now - c.lag, Ticks(g))
             reach == end - c.lookback
         IN  [start |-> Floor(IF watermark = NoWatermark THEN reach
                              ELSE Sets!Max({reach, Sets!Min({watermark - c.overlap, end - HourTicks})}), Ticks(g)),
              end |-> end]

-----------------------------------------------------------------------------
(* Properties, over every configuration validate_window accepts, in units   *)
(* of the model, and run starts at every place within a period.             *)

Starts(g) == Epoch .. Epoch + Ticks(g) - 1

\* A rolling configuration that was accepted once resolves, for every watermark, early,
\* late or in the future, to a window that passes the validation of fixed windows: no
\* run is refused for the window it froze itself.
ResolvedWindowIsValid ==
    \A g \in Granularities : \A c \in Rolling(g), now \in Starts(g) :
        \A watermark \in {NoWatermark} \cup (Epoch - 2 * Ticks(g)) .. (Epoch + 2 * Ticks(g)) :
            ValidFixed(g, ResolveWindow(g, c, now, watermark))

StartTick(g, w) == IF g = "month" THEN w.start * MonthTicks ELSE w.start

\* Where the next window may begin at the latest: the last month of a window is complete,
\* the last hour or day is still going on when the run asks for it.
NextStart(g, w) == IF g = "month" THEN (w.end + 1) * MonthTicks ELSE w.end

\* No item of a window has a later watermark: the daily operations accept the whole last
\* day, the others name their items by the start of an hour or a month.
LastWatermark(g, w) == IF g = "day" THEN w.end + DayTicks - 1 ELSE NextStart(g, w)

Lookback(g, c) == IF g = "month" THEN c.lookback * MonthTicks ELSE c.lookback

\* Successive windows of a target leave nothing out, wherever the runs fall in their
\* periods.  Started at most a lookback apart, the second window begins where the first
\* ended or before, whatever item of the first window set the watermark.  And an item
\* that the first run could not see yet is not before the second window, if it appeared
\* within the overlap after its publication.
WindowsLeaveNoGap ==
    \A g \in Granularities : \A c \in Rolling(g), now \in Starts(g) :
        LET first == ResolveWindow(g, c, now, NoWatermark)
            next == NextStart(g, first)
        IN
        \A later \in now .. now + Lookback(g, c) :
        \A watermark \in {NoWatermark} \cup (next - 2 * Ticks(g)) .. LastWatermark(g, first) :
            LET second == ResolveWindow(g, c, later, watermark) IN
            /\ StartTick(g, second) <= next
            /\ g # "month" /\ watermark <= now =>
                  \A published \in Sets!Max({later - c.lookback, now - c.overlap + 1}) .. now :
                      second.start <= published

=============================================================================
