------------------------------ MODULE JuliaSet ------------------------------
(***************************************************************************)
(* juliaset_impl.cpp: the rows of a picture are divided among as many jobs *)
(* as there are processors, first to count how long its points take to     *)
(* converge (scan_points), then to color them (draw_image). Between the    *)
(* two, the counts may be written to a CSV file (draw).                    *)
(*                                                                         *)
(* A row has one count, that of all its points, which the iteration in     *)
(* floating point is free to choose. hardware_concurrency() may be 0.      *)
(***************************************************************************)
EXTENDS Integers, Sequences, FiniteSetsExt

CONSTANTS
  MaxRows,  \* n_pixels is up to this
  MaxCpus,  \* n_cpus is up to this
  MaxIter,  \* max_iter
  Unset     \* a pixel that nobody has colored, a file that is not there

VARIABLES
  nCpus,
  converging,       \* what the iteration finds for each row
  csvPath, imagePath,  \* the files that are wanted
  matCounts,
  maxCount,
  img,
  jobs,             \* futureSet: the rows from start on and before end, the next one
  indexStart,
  csv, png,         \* what has been written to the files
  status,
  pc

wanted == <<nCpus, converging, csvPath, imagePath>>
vars == <<wanted, matCounts, maxCount, img, jobs, indexStart, csv, png, status, pc>>

Rows == DOMAIN converging
NYs == Cardinality(Rows)

Init ==
  /\ nCpus \in 0 .. MaxCpus
  /\ \E n \in 0 .. MaxRows : converging \in [0 .. n - 1 -> 0 .. MaxIter]
  /\ csvPath \in BOOLEAN
  /\ imagePath \in BOOLEAN
  /\ matCounts = [y \in Rows |-> 0]
  /\ maxCount = 0
  /\ img = [y \in Rows |-> Unset]
  /\ jobs = <<>>
  /\ indexStart = 0
  /\ csv = Unset
  /\ png = Unset
  /\ status = "SUCCESS"
  /\ pc = "scan"

\* Mutated IndexSpan: the integer division.
IndexSpanDown == NYs \div nCpus

\* ceil(n_ys / n_cpus)
IndexSpan == (NYs + nCpus - 1) \div nCpus

\* std::async starts the job for the next part of the rows, which may be empty.
Launch ==
  /\ pc \in {"scan", "draw"}
  /\ Len(jobs) < nCpus
  /\ LET end == Min({indexStart + IndexSpan, NYs})
     IN /\ jobs' = Append(jobs, [start |-> indexStart, next |-> indexStart, end |-> end,
                                 threw |-> FALSE])
        /\ indexStart' = end
  /\ UNCHANGED <<wanted, matCounts, maxCount, img, csv, png, status, pc>>

Running(j) == jobs[j].next < jobs[j].end /\ ~jobs[j].threw

\* The counts of a row are copied from the job's sub_counts to mat_counts.
CopyRow(j) ==
  /\ pc = "scan"
  /\ Running(j)
  /\ matCounts' = [matCounts EXCEPT ![jobs[j].next] = converging[jobs[j].next]]
  /\ jobs' = [jobs EXCEPT ![j].next = @ + 1]
  /\ UNCHANGED <<wanted, maxCount, img, indexStart, csv, png, status, pc>>

\* color_table has a color for each count up to max_count, and at throws for others.
ColorRow(j) ==
  /\ pc = "draw"
  /\ Running(j)
  /\ LET y == jobs[j].next
     IN IF matCounts[y] <= maxCount
        THEN /\ img' = [img EXCEPT ![y] = <<matCounts[y], maxCount>>]
             /\ jobs' = [jobs EXCEPT ![j].next = @ + 1]
        ELSE jobs' = [jobs EXCEPT ![j].threw = TRUE] /\ UNCHANGED img
  /\ UNCHANGED <<wanted, matCounts, maxCount, indexStart, csv, png, status, pc>>

AllJoined == Len(jobs) = nCpus /\ \A j \in DOMAIN jobs : ~Running(j)

JoinScan ==
  /\ pc = "scan"
  /\ AllJoined
  /\ pc' = "write_csv"
  /\ UNCHANGED <<wanted, matCounts, maxCount, img, jobs, indexStart, csv, png, status>>

\* Without its CSV file the program ends, and draws no image.
WriteCsv ==
  /\ pc = "write_csv"
  /\ csvPath
  /\ \/ csv' = matCounts /\ pc' = "draw_image" /\ UNCHANGED status
     \/ status' = "FILE_ERROR" /\ pc' = "ended" /\ UNCHANGED csv
  /\ UNCHANGED <<wanted, matCounts, maxCount, img, jobs, indexStart, png>>

SkipCsv ==
  /\ pc = "write_csv"
  /\ ~csvPath
  /\ pc' = "draw_image"
  /\ UNCHANGED <<wanted, matCounts, maxCount, img, jobs, indexStart, csv, png, status>>

\* The largest element of all rows, 0 if there is none.
MaxOver(counts) == Max({0} \union {counts[y] : y \in Rows})

BeginDraw ==
  /\ pc = "draw_image"
  /\ imagePath
  /\ maxCount' = MaxOver(matCounts)
  /\ jobs' = <<>>
  /\ indexStart' = 0
  /\ pc' = "draw"
  /\ UNCHANGED <<wanted, matCounts, img, csv, png, status>>

SkipImage ==
  /\ pc = "draw_image"
  /\ ~imagePath
  /\ pc' = "ended"
  /\ UNCHANGED <<wanted, matCounts, maxCount, img, jobs, indexStart, csv, png, status>>

\* f.get() throws what a job has thrown, which is reported like a file that cannot be written.
WriteImage ==
  /\ pc = "draw"
  /\ AllJoined
  /\ \/ (\A j \in DOMAIN jobs : ~jobs[j].threw) /\ png' = img /\ UNCHANGED status
     \/ status' = "FILE_ERROR" /\ UNCHANGED png
  /\ pc' = "ended"
  /\ UNCHANGED <<wanted, matCounts, maxCount, img, jobs, indexStart, csv>>

Step ==
  \/ Launch
  \/ \E j \in DOMAIN jobs : CopyRow(j) \/ ColorRow(j)
  \/ JoinScan \/ WriteCsv \/ SkipCsv \/ BeginDraw \/ SkipImage \/ WriteImage

Ended == pc = "ended"

-----------------------------------------------------------------------------
RowsOf(job) == job.start .. job.end - 1

\* No row belongs to two jobs.
JobsDisjoint ==
  \A j, k \in DOMAIN jobs : j # k => RowsOf(jobs[j]) \intersect RowsOf(jobs[k]) = {}

\* The processors' parts are disjoint and, when all have been joined, each row has its own
\* count and each pixel its own color of the whole picture's scale; nobody reads the colors
\* beyond their table; and the program succeeds only with the files it was to write.
\* Of counts and colors this speaks where there is a processor at all.
EachRowOnce ==
  /\ JobsDisjoint
  /\ \A j \in DOMAIN jobs : ~jobs[j].threw
  /\ pc # "scan" /\ nCpus > 0 => matCounts = converging
  /\ csv \in {Unset, matCounts}
  /\ Ended /\ status = "SUCCESS" =>
       /\ csvPath => csv = matCounts
       /\ imagePath /\ nCpus > 0 =>
            png = [y \in Rows |-> <<converging[y], Max({converging[z] : z \in Rows})>>]
=============================================================================
