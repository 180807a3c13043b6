--------------------------- MODULE AuditRunProofs ---------------------------
(***************************************************************************)
(* What audits that run one at a time can trust, for any inventory, any    *)
(* number of audits and files, and whatever fails or dies: the marker of a *)
(* snapshot, and with it every work item that was ingested; the manifest   *)
(* of a run, and with it every report of the inventory.                    *)
(***************************************************************************)
EXTENDS AuditRun, TLAPS

\* The locals of an audit fit the step it is at.
Fit(locals) ==
    /\ locals.pc # "new" => locals.id \in RunIds
    /\ locals.pc \in {"download", "extract", "member", "scan", "write"} =>
          locals.next \in DOMAIN Inventory
    /\ locals.pc \in {"download", "extract", "member", "scan"} =>
          locals.commit \in Commits
    /\ locals.pc = "member" => locals.file \in locals.todo

TypeInv == TypeOK /\ \A a \in Audits : Fit(audit[a])

-----------------------------------------------------------------------------
(* Types                                                                   *)

\* The repositories of the loop are repositories.
LEMMA InventoryType ==
    /\ Len(Inventory) \in Nat
    /\ DOMAIN Inventory = 1..Len(Inventory)
    /\ \A i \in DOMAIN Inventory : Inventory[i] \in Repos
BY InventoryAssumption

\* There is always a first commit.
LEMMA CommitsType == 1 \in Commits /\ Commits \subseteq Nat /\ 0 \notin Commits
BY BoundAssumption DEF Commits

\* Every report the loop makes is one.
LEMMA ReportType ==
    ASSUME NEW status \in Statuses \cup {"none"},
           NEW commit \in {0} \cup Commits, NEW whole \in BOOLEAN
    PROVE  /\ Report(status, commit, whole) \in Reported
           /\ Report(status, commit, whole).status = status
           /\ Report(status, commit, whole).commit = commit
           /\ Report(status, commit, whole).whole = whole
BY DEF Report, Reported

\* The state at the start is well formed.
LEMMA TypeInit == Init => TypeInv
<1> SUFFICES ASSUME Init PROVE TypeInv
  OBVIOUS
<1>1. NoReport \in Reported
  BY ReportType DEF NoReport
<1>2. NoEvidence \in Evidence
  BY <1>1 DEF NoEvidence, Evidence
<1>3. NoRun \in [evidence : Evidence, manifest : Evidence, sealed : BOOLEAN,
                 exists : BOOLEAN]
  BY <1>2 DEF NoRun
<1>4. NoSnapshot \in Snapshots
  BY DEF NoSnapshot, Snapshots
<1>5. Idle \in Locals /\ Fit(Idle)
  BY <1>1, InventoryType DEF Idle, Locals, PCs, Fit
<1> QED
  BY <1>3, <1>4, <1>5, CommitsType, BoundAssumption
  DEF Init, TypeInv, TypeOK

\* One audit moves, the others stay.
LEMMA BecomesType ==
    ASSUME TypeInv, NEW a \in Audits, NEW l \in Locals, Becomes(a, l), Fit(l)
    PROVE  /\ audit' \in [Audits -> Locals]
           /\ \A b \in Audits : Fit(audit'[b])
           /\ audit'[a] = l
           /\ \A b \in Audits : b # a => audit'[b] = audit[b]
BY DEF TypeInv, TypeOK, Becomes

\* A report is ready: the audit is about to write it.
LEMMA ReportsType ==
    ASSUME TypeInv, NEW a \in Audits, NEW report \in Reported,
           audit[a].next \in DOMAIN Inventory, Running(a), Reports(a, report)
    PROVE  /\ audit' \in [Audits -> Locals]
           /\ \A b \in Audits : Fit(audit'[b])
           /\ audit'[a].pc = "write"
           /\ audit'[a].report = report
           /\ \A b \in Audits : b # a => audit'[b] = audit[b]
<1> DEFINE l == [audit[a] EXCEPT !.pc = "write", !.report = report,
                                 !.todo = {}, !.file = "none"]
<1>t. audit[a] \in Locals /\ Fit(audit[a])
  BY DEF TypeInv, TypeOK
<1>1. l \in Locals
  BY <1>t DEF Locals, PCs
<1>2. /\ l.pc = "write" /\ l.next = audit[a].next /\ l.id = audit[a].id
      /\ l.report = report
  BY <1>t DEF Locals
<1> HIDE DEF l
<1>3. Fit(l)
  BY <1>t, <1>2 DEF Fit, Running
<1>4. Becomes(a, l)
  BY DEF Reports, l
<1> QED
  BY <1>1, <1>2, <1>3, <1>4, BecomesType

\* An audit goes to a step that needs nothing but its run id.
LEMMA GoesType ==
    ASSUME TypeInv, NEW a \in Audits, Running(a), Goes(a, "portfolio") \/
             Goes(a, "manifest") \/ Goes(a, "ingest") \/ Goes(a, "done") \/
             Goes(a, "dead")
    PROVE  /\ audit' \in [Audits -> Locals]
           /\ \A b \in Audits : Fit(audit'[b])
           /\ audit'[a].pc \in {"portfolio", "manifest", "ingest", "done",
                                "dead"}
           /\ \A b \in Audits : b # a => audit'[b] = audit[b]
<1>1. PICK pc \in {"portfolio", "manifest", "ingest", "done", "dead"} :
         Goes(a, pc)
  OBVIOUS
<1> DEFINE l == [audit[a] EXCEPT !.pc = pc]
<1>t. audit[a] \in Locals /\ Fit(audit[a])
  BY DEF TypeInv, TypeOK
<1>2. l \in Locals /\ l.pc = pc /\ l.id = audit[a].id
  BY <1>t DEF Locals, PCs
<1> HIDE DEF l
<1>3. Fit(l)
  BY <1>t, <1>2 DEF Fit, Running
<1>4. Becomes(a, l)
  BY <1>1 DEF Goes, l
<1> QED
  BY <1>2, <1>3, <1>4, BecomesType

RunDirectories == [evidence : Evidence, manifest : Evidence,
                   sealed : BOOLEAN, exists : BOOLEAN]

\* A step that writes to a snapshot leaves the others alone.
LEMMA StoresType ==
    ASSUME TypeInv, NEW a \in Audits, NEW s \in Snapshots,
           audit[a].pc \in {"download", "extract", "member"}, Stores(a, s)
    PROVE  /\ Current(a) \in Repos /\ audit[a].commit \in Commits
           /\ snapshots' \in [Repos -> [Commits -> Snapshots]]
           /\ snapshots'[Current(a)][audit[a].commit] = s
           /\ \A r \in Repos, c \in Commits :
                 r # Current(a) \/ c # audit[a].commit =>
                     snapshots'[r][c] = snapshots[r][c]
<1>1. Current(a) \in Repos /\ audit[a].commit \in Commits
  BY InventoryType DEF TypeInv, Fit, Current
<1> DEFINE r == Current(a)
           c == audit[a].commit
<1> HIDE DEF r, c
<1>2. r \in Repos /\ c \in Commits
  BY <1>1 DEF r, c
<1>3. snapshots' = [snapshots EXCEPT ![r][c] = s]
  BY DEF Stores, r, c
<1>4. snapshots \in [Repos -> [Commits -> Snapshots]]
  BY DEF TypeInv, TypeOK
<1>5. snapshots[r] \in [Commits -> Snapshots]
  BY <1>2, <1>4
<1>6. [snapshots[r] EXCEPT ![c] = s] \in [Commits -> Snapshots]
  BY <1>2, <1>5
<1>7. snapshots' = [snapshots EXCEPT ![r] = [snapshots[r] EXCEPT ![c] = s]]
  BY <1>3
<1>8. snapshots' \in [Repos -> [Commits -> Snapshots]]
  BY <1>2, <1>4, <1>6, <1>7
<1>9. snapshots'[r][c] = s
  BY <1>2, <1>4, <1>5, <1>7
<1>10. \A q \in Repos, d \in Commits :
           q # r \/ d # c => snapshots'[q][d] = snapshots[q][d]
  BY <1>2, <1>4, <1>5, <1>7
<1> QED
  BY <1>2, <1>8, <1>9, <1>10 DEF r, c

\* A step that writes to a run directory leaves the others alone.
LEMMA KeepsType ==
    ASSUME TypeInv, NEW a \in Audits, NEW run \in RunDirectories,
           audit[a].pc # "new", Keeps(a, run)
    PROVE  /\ audit[a].id \in RunIds
           /\ runs' \in [RunIds -> RunDirectories]
           /\ runs'[audit[a].id] = run
           /\ \A i \in RunIds : i # audit[a].id => runs'[i] = runs[i]
BY DEF TypeInv, TypeOK, Fit, Keeps, RunDirectories

-----------------------------------------------------------------------------
(* The kinds of steps                                                      *)

\* A step that ends in the report of the current repository.
ReportStep(a) ==
    \/ AuditLocal(a) \/ SourceMissing(a) \/ RefusePrivate(a)
    \/ HeadUnavailable(a) \/ DownloadFails(a) \/ ExtractFails(a) \/ Scan(a)

\* Whatever it was, the report is well formed and says "audited" only of a
\* local checkout or of the snapshot that was scanned.
LEMMA ReportStepReports ==
    ASSUME TypeInv, NEW a \in Audits, ReportStep(a)
    PROVE  /\ \E report \in Reported :
                 /\ Reports(a, report)
                 /\ report.status \in Statuses
                 /\ report.status = "audited" =>
                       \/ report.whole = TRUE
                       \/ audit[a].pc = "scan" /\ report.whole = Whole(Snapshot(a))
           /\ audit[a].next \in DOMAIN Inventory /\ Running(a)
           /\ faults' \in 0..MaxFaults
           /\ UNCHANGED <<head, snapshots, runs, items>>
<1> DEFINE Fine(report) ==
              /\ Reports(a, report)
              /\ report.status \in Statuses
              /\ report.status = "audited" =>
                    \/ report.whole = TRUE
                    \/ audit[a].pc = "scan" /\ report.whole = Whole(Snapshot(a))
<1>t. /\ audit[a] \in Locals /\ Fit(audit[a])
      /\ faults \in 0..MaxFaults /\ MaxFaults \in Nat
  BY BoundAssumption DEF TypeInv, TypeOK
<1>f. faults' = faults \/ Fails => faults' \in 0..MaxFaults
  BY <1>t DEF Fails
<1>i. InLoop(a) => audit[a].next \in DOMAIN Inventory /\ Running(a)
  BY <1>t, InventoryType DEF InLoop, At, Locals, Running
<1>u. ASSUME NEW status \in Statuses \ {"audited"}, NEW commit \in {0} \cup Commits,
             Reports(a, Report(status, commit, FALSE))
      PROVE  \E report \in Reported : Fine(report)
  <2>1. /\ Report(status, commit, FALSE) \in Reported
        /\ Report(status, commit, FALSE).status = status
    BY ReportType
  <2> QED
    BY <1>u, <2>1
<1>v. ASSUME NEW whole \in BOOLEAN, NEW commit \in {0} \cup Commits,
             Reports(a, Report("audited", commit, whole)),
             whole = TRUE \/ (audit[a].pc = "scan" /\ whole = Whole(Snapshot(a)))
      PROVE  \E report \in Reported : Fine(report)
  <2>1. /\ Report("audited", commit, whole) \in Reported
        /\ Report("audited", commit, whole).whole = whole
        /\ Report("audited", commit, whole).status \in Statuses
    BY ReportType DEF Statuses
  <2> QED
    BY <1>v, <2>1
<1>w. ASSUME Unavailable(a, "auth_required") \/ Unavailable(a, "unavailable")
                \/ Unavailable(a, "source_missing") \/ Unavailable(a, "error")
      PROVE  \E report \in Reported : Fine(report)
  <2>1. PICK status \in Statuses \ {"audited"} :
           Reports(a, Report(status, 0, FALSE))
    BY <1>w DEF Unavailable, Statuses
  <2> QED
    BY <2>1, <1>u
<1> HIDE DEF Fine
<1>1. CASE AuditLocal(a)
  <2>1. \E report \in Reported : Fine(report)
    <3>1. CASE Reports(a, Report("audited", 0, TRUE))
      BY <3>1, <1>v
    <3>2. CASE Reports(a, Report("error", 0, FALSE))
      BY <3>2, <1>u DEF Statuses
    <3> QED
      BY <1>1, <3>1, <3>2 DEF AuditLocal
  <2>2. InLoop(a) /\ (faults' = faults \/ Fails)
        /\ UNCHANGED <<head, snapshots, runs, items>>
    BY <1>1 DEF AuditLocal
  <2> QED
    BY <2>1, <2>2, <1>i, <1>f DEF Fine
<1>2. CASE SourceMissing(a) \/ RefusePrivate(a)
  <2>1. Unavailable(a, "auth_required") \/ Unavailable(a, "unavailable")
        \/ Unavailable(a, "source_missing")
    BY <1>2 DEF SourceMissing, RefusePrivate, NotAuthorized
  <2>2. InLoop(a) /\ faults' = faults
        /\ UNCHANGED <<head, snapshots, runs, items>>
    BY <1>2 DEF SourceMissing, RefusePrivate
  <2> QED
    BY <2>1, <2>2, <1>w, <1>i, <1>f DEF Fine
<1>3. CASE HeadUnavailable(a) \/ DownloadFails(a)
  <2>1. Unavailable(a, "auth_required") \/ Unavailable(a, "unavailable")
        \/ Unavailable(a, "error")
    BY <1>3 DEF HeadUnavailable, DownloadFails, NotAuthorized
  <2>2. Fails /\ UNCHANGED <<head, snapshots, runs, items>>
    BY <1>3 DEF HeadUnavailable, DownloadFails
  <2>3. audit[a].next \in DOMAIN Inventory /\ Running(a)
    BY <1>3, <1>t, <1>i DEF HeadUnavailable, DownloadFails, CanAsk, At, Fit,
                            Running
  <2> QED
    BY <2>1, <2>2, <2>3, <1>w, <1>f DEF Fine
<1>4. CASE ExtractFails(a)
  <2>1. \E report \in Reported : Fine(report)
    BY <1>4, <1>u DEF ExtractFails, Statuses
  <2>2. Fails /\ UNCHANGED <<head, snapshots, runs, items>>
    BY <1>4 DEF ExtractFails
  <2>3. audit[a].next \in DOMAIN Inventory /\ Running(a)
    BY <1>4, <1>t DEF ExtractFails, Fit, Running
  <2> QED
    BY <2>1, <2>2, <2>3, <1>f DEF Fine
<1>5. CASE Scan(a)
  <2>1. audit[a].pc = "scan" /\ audit[a].commit \in Commits
        /\ audit[a].next \in DOMAIN Inventory /\ Running(a)
    BY <1>5, <1>t DEF Scan, At, Fit, Running
  <2>2. \E report \in Reported : Fine(report)
    <3>1. CASE Reports(a, Report("audited", audit[a].commit,
                                 Whole(Snapshot(a))))
      <4>1. Whole(Snapshot(a)) \in BOOLEAN
        BY DEF Whole
      <4> QED
        BY <3>1, <4>1, <2>1, <1>v
    <3>2. CASE Reports(a, Report("error", audit[a].commit, FALSE))
      BY <3>2, <2>1, <1>u DEF Statuses
    <3> QED
      BY <1>5, <3>1, <3>2 DEF Scan
  <2>3. (faults' = faults \/ Fails) /\ UNCHANGED <<head, snapshots, runs, items>>
    BY <1>5 DEF Scan
  <2> QED
    BY <2>1, <2>2, <2>3, <1>f DEF Fine
<1> QED
  BY <1>1, <1>2, <1>3, <1>4, <1>5 DEF ReportStep

\* A step of the download, or from one repository to the next: what the
\* locals become.
LEMMA LoopStepType ==
    ASSUME TypeInv, NEW a \in Audits,
           ResolveHead(a) \/ Download(a) \/ OpenMember(a) \/ WriteMember(a)
              \/ Mark(a) \/ WriteReport(a)
    PROVE  /\ audit' \in [Audits -> Locals]
           /\ \A b \in Audits : Fit(audit'[b])
           /\ \A b \in Audits : b # a => audit'[b] = audit[b]
           /\ audit'[a].next = audit[a].next \/ WriteReport(a)
           /\ audit'[a].commit = audit[a].commit
                \/ WriteReport(a) \/ ResolveHead(a)
           /\ Running(a) /\ audit[a].next \in DOMAIN Inventory
<1>t. audit[a] \in Locals /\ Fit(audit[a])
  BY DEF TypeInv, TypeOK
<1>1. CASE ResolveHead(a)
  <2> DEFINE known == snapshots[Current(a)][head[Current(a)]].marked
             l == [audit[a] EXCEPT !.commit = head[Current(a)],
                                   !.pc = IF known THEN "scan" ELSE "download"]
  <2>1. audit[a].pc = "source" /\ audit[a].next \in DOMAIN Inventory
    BY <1>1, <1>t, InventoryType DEF ResolveHead, CanAsk, InLoop, At, Locals
  <2>2. head[Current(a)] \in Commits
    BY <2>1, InventoryType DEF Current, TypeInv, TypeOK
  <2>3. l \in Locals
    BY <1>t, <2>2 DEF Locals, PCs
  <2>4. /\ l.pc \in {"scan", "download"} /\ l.id = audit[a].id
        /\ l.next = audit[a].next /\ l.commit = head[Current(a)]
    BY <1>t DEF Locals
  <2>5. Becomes(a, l)
    BY <1>1 DEF ResolveHead
  <2> HIDE DEF l
  <2>6. Fit(l)
    BY <1>t, <2>1, <2>2, <2>4 DEF Fit
  <2>7. /\ audit' \in [Audits -> Locals]
        /\ \A b \in Audits : Fit(audit'[b])
        /\ audit'[a] = l
        /\ \A b \in Audits : b # a => audit'[b] = audit[b]
    BY <2>3, <2>5, <2>6, BecomesType
  <2> QED
    BY <1>1, <2>1, <2>4, <2>7 DEF Running
<1>2. CASE Download(a)
  <2> DEFINE l == [audit[a] EXCEPT !.pc = "extract", !.todo = Files]
  <2>1. audit[a].pc = "download"
    BY <1>2 DEF Download, At
  <2>2. l \in Locals
    BY <1>t DEF Locals, PCs
  <2>3. /\ l.pc = "extract" /\ l.id = audit[a].id
        /\ l.next = audit[a].next /\ l.commit = audit[a].commit
    BY <1>t DEF Locals
  <2>4. Becomes(a, l)
    BY <1>2 DEF Download
  <2> HIDE DEF l
  <2>5. Fit(l)
    BY <1>t, <2>1, <2>3 DEF Fit
  <2>6. /\ audit' \in [Audits -> Locals]
        /\ \A b \in Audits : Fit(audit'[b])
        /\ audit'[a] = l
        /\ \A b \in Audits : b # a => audit'[b] = audit[b]
    BY <2>2, <2>4, <2>5, BecomesType
  <2> QED
    BY <1>t, <2>1, <2>3, <2>6 DEF Running, Fit
<1>3. CASE OpenMember(a)
  <2>1. PICK f \in audit[a].todo :
           Becomes(a, [audit[a] EXCEPT !.pc = "member", !.file = f])
    BY <1>3 DEF OpenMember
  <2> DEFINE l == [audit[a] EXCEPT !.pc = "member", !.file = f]
  <2>2. audit[a].pc = "extract"
    BY <1>3 DEF OpenMember, At
  <2>3. l \in Locals
    BY <1>t DEF Locals, PCs
  <2>4. /\ l.pc = "member" /\ l.id = audit[a].id /\ l.file = f
        /\ l.todo = audit[a].todo
        /\ l.next = audit[a].next /\ l.commit = audit[a].commit
    BY <1>t DEF Locals
  <2>5. Becomes(a, l)
    BY <2>1
  <2> HIDE DEF l
  <2>6. Fit(l)
    BY <1>t, <2>2, <2>4 DEF Fit
  <2>7. /\ audit' \in [Audits -> Locals]
        /\ \A b \in Audits : Fit(audit'[b])
        /\ audit'[a] = l
        /\ \A b \in Audits : b # a => audit'[b] = audit[b]
    BY <2>3, <2>5, <2>6, BecomesType
  <2> QED
    BY <1>t, <2>2, <2>4, <2>7 DEF Running, Fit
<1>4. CASE WriteMember(a)
  <2> DEFINE l == [audit[a] EXCEPT !.pc = "extract", !.file = "none",
                                   !.todo = @ \ {audit[a].file}]
  <2>1. audit[a].pc = "member"
    BY <1>4 DEF WriteMember, At
  <2>2. l \in Locals
    BY <1>t DEF Locals, PCs
  <2>3. /\ l.pc = "extract" /\ l.id = audit[a].id
        /\ l.next = audit[a].next /\ l.commit = audit[a].commit
    BY <1>t DEF Locals
  <2>4. Becomes(a, l)
    BY <1>4 DEF WriteMember
  <2> HIDE DEF l
  <2>5. Fit(l)
    BY <1>t, <2>1, <2>3 DEF Fit
  <2>6. /\ audit' \in [Audits -> Locals]
        /\ \A b \in Audits : Fit(audit'[b])
        /\ audit'[a] = l
        /\ \A b \in Audits : b # a => audit'[b] = audit[b]
    BY <2>2, <2>4, <2>5, BecomesType
  <2> QED
    BY <1>t, <2>1, <2>3, <2>6 DEF Running, Fit
<1>5. CASE Mark(a)
  <2> DEFINE l == [audit[a] EXCEPT !.pc = "scan"]
  <2>1. audit[a].pc = "extract"
    BY <1>5 DEF Mark, At
  <2>2. l \in Locals
    BY <1>t DEF Locals, PCs
  <2>3. /\ l.pc = "scan" /\ l.id = audit[a].id
        /\ l.next = audit[a].next /\ l.commit = audit[a].commit
    BY <1>t DEF Locals
  <2>4. Becomes(a, l)
    BY <1>5 DEF Mark, Goes
  <2> HIDE DEF l
  <2>5. Fit(l)
    BY <1>t, <2>1, <2>3 DEF Fit
  <2>6. /\ audit' \in [Audits -> Locals]
        /\ \A b \in Audits : Fit(audit'[b])
        /\ audit'[a] = l
        /\ \A b \in Audits : b # a => audit'[b] = audit[b]
    BY <2>2, <2>4, <2>5, BecomesType
  <2> QED
    BY <1>t, <2>1, <2>3, <2>6 DEF Running, Fit
<1>6. CASE WriteReport(a)
  <2> DEFINE l == [audit[a] EXCEPT !.pc = "source",
                                   !.next = @ + 1,
                                   !.commit = 0,
                                   !.report = NoReport,
                                   !.reports = Append(@, audit[a].report)]
  <2>1. audit[a].pc = "write" /\ audit[a].next \in DOMAIN Inventory
    BY <1>6, <1>t DEF WriteReport, At, Fit
  <2>2. audit[a].next + 1 \in 1..(Len(Inventory) + 1)
    BY <2>1, InventoryType
  <2>3. Append(audit[a].reports, audit[a].report) \in Seq(Reported)
    BY <1>t DEF Locals
  <2>4. NoReport \in Reported
    BY ReportType DEF NoReport
  <2>5. l \in Locals
    BY <1>t, <2>2, <2>3, <2>4 DEF Locals, PCs
  <2>6. l.pc = "source" /\ l.id = audit[a].id
    BY <1>t DEF Locals
  <2>7. Becomes(a, l)
    BY <1>6 DEF WriteReport
  <2> HIDE DEF l
  <2>8. Fit(l)
    BY <1>t, <2>1, <2>6 DEF Fit
  <2>9. /\ audit' \in [Audits -> Locals]
        /\ \A b \in Audits : Fit(audit'[b])
        /\ audit'[a] = l
        /\ \A b \in Audits : b # a => audit'[b] = audit[b]
    BY <2>5, <2>7, <2>8, BecomesType
  <2> QED
    BY <1>6, <2>1, <2>9 DEF Running
<1> QED
  BY <1>1, <1>2, <1>3, <1>4, <1>5, <1>6

\* What is written to a run directory leaves it well formed, and changes one
\* report at most.
LEMMA DirectoryStepType ==
    ASSUME TypeInv, NEW a \in Audits,
           WriteReport(a) \/ WriteInventory(a) \/ WritePortfolio(a)
              \/ WriteManifest(a)
    PROVE  /\ runs' \in [RunIds -> RunDirectories]
           /\ \A i \in RunIds, r \in Repos :
                 \/ runs'[i].evidence.reports[r] = runs[i].evidence.reports[r]
                 \/ /\ WriteReport(a)
                    /\ runs'[i].evidence.reports[r] = audit[a].report
<1>t. /\ audit[a] \in Locals /\ Fit(audit[a])
      /\ runs \in [RunIds -> RunDirectories]
  BY DEF TypeInv, TypeOK, RunDirectories
<1>1. /\ audit[a].id \in RunIds /\ audit[a].pc # "new"
      /\ Run(a) \in RunDirectories
  BY <1>t DEF WriteReport, WriteInventory, WritePortfolio, WriteManifest, At,
              Fit, Run
<1>2. Run(a).evidence \in Evidence
  BY <1>1 DEF RunDirectories
<1>3. Run(a).evidence.reports \in [Repos -> Reported]
  BY <1>2 DEF Evidence
<1>s. SUFFICES ASSUME NEW run \in RunDirectories, Keeps(a, run),
                      \A r \in Repos :
                         \/ run.evidence.reports[r] =
                               Run(a).evidence.reports[r]
                         \/ /\ WriteReport(a)
                            /\ run.evidence.reports[r] = audit[a].report
               PROVE  /\ runs' \in [RunIds -> RunDirectories]
                      /\ \A i \in RunIds, r \in Repos :
                            \/ runs'[i].evidence.reports[r] =
                                  runs[i].evidence.reports[r]
                            \/ /\ WriteReport(a)
                               /\ runs'[i].evidence.reports[r] =
                                     audit[a].report
  <2>1. CASE WriteReport(a)
    <3> DEFINE reports == [Run(a).evidence.reports EXCEPT
                              ![Current(a)] = audit[a].report]
               evidence == [Run(a).evidence EXCEPT !.reports = reports]
               run == [Run(a) EXCEPT !.evidence = evidence]
    <3>1. reports \in [Repos -> Reported]
      BY <1>3, <1>t DEF Locals
    <3>2. \A r \in Repos : reports[r] = Run(a).evidence.reports[r]
                           \/ reports[r] = audit[a].report
      BY <1>3
    <3>3. run = [Run(a) EXCEPT !.evidence.reports[Current(a)] =
                                  audit[a].report]
      OBVIOUS
    <3> HIDE DEF reports
    <3>4. evidence \in Evidence /\ evidence.reports = reports
      BY <1>2, <3>1 DEF Evidence
    <3> HIDE DEF evidence
    <3>5. run \in RunDirectories /\ run.evidence = evidence
      BY <1>1, <3>4 DEF RunDirectories
    <3>6. Keeps(a, run)
      BY <2>1, <3>3 DEF WriteReport
    <3> HIDE DEF run
    <3>7. \A r \in Repos :
             \/ run.evidence.reports[r] = Run(a).evidence.reports[r]
             \/ /\ WriteReport(a)
                /\ run.evidence.reports[r] = audit[a].report
      BY <2>1, <3>2, <3>4, <3>5
    <3> QED
      BY <1>s, <3>5, <3>6, <3>7
  <2>2. CASE WriteInventory(a)
    <3> DEFINE evidence == [Run(a).evidence EXCEPT !.inventory = TRUE]
               run == [Run(a) EXCEPT !.evidence = evidence]
    <3>1. evidence \in Evidence
          /\ evidence.reports = Run(a).evidence.reports
      BY <1>2 DEF Evidence
    <3>2. Keeps(a, run)
      BY <2>2 DEF WriteInventory
    <3> HIDE DEF evidence
    <3>3. run \in RunDirectories /\ run.evidence = evidence
      BY <1>1, <3>1 DEF RunDirectories
    <3> HIDE DEF run
    <3> QED
      BY <1>s, <3>1, <3>2, <3>3
  <2>3. CASE WritePortfolio(a)
    <3> DEFINE evidence == [Run(a).evidence EXCEPT
                               !.portfolio = audit[a].reports]
               run == [Run(a) EXCEPT !.evidence = evidence]
    <3>1. evidence \in Evidence
          /\ evidence.reports = Run(a).evidence.reports
      BY <1>2, <1>t DEF Evidence, Locals
    <3>2. Keeps(a, run)
      BY <2>3 DEF WritePortfolio
    <3> HIDE DEF evidence
    <3>3. run \in RunDirectories /\ run.evidence = evidence
      BY <1>1, <3>1 DEF RunDirectories
    <3> HIDE DEF run
    <3> QED
      BY <1>s, <3>1, <3>2, <3>3
  <2>4. CASE WriteManifest(a)
    <3> DEFINE run == [Run(a) EXCEPT !.manifest = Run(a).evidence,
                                     !.sealed = TRUE]
    <3>1. run \in RunDirectories /\ run.evidence = Run(a).evidence
      BY <1>1, <1>2 DEF RunDirectories
    <3>2. Keeps(a, run)
      BY <2>4 DEF WriteManifest
    <3> HIDE DEF run
    <3> QED
      BY <1>s, <3>1, <3>2
  <2> QED
    BY <2>1, <2>2, <2>3, <2>4
<1>4. /\ runs' \in [RunIds -> RunDirectories]
      /\ runs'[audit[a].id] = run
      /\ \A i \in RunIds : i # audit[a].id => runs'[i] = runs[i]
  BY <1>1, <1>s, KeepsType
<1> QED
  BY <1>4, <1>s DEF Run

\* What is written to a snapshot is one.
LEMMA SnapshotStepType ==
    ASSUME TypeInv, NEW a \in Audits,
           OpenMember(a) \/ WriteMember(a) \/ Mark(a)
    PROVE  snapshots' \in [Repos -> [Commits -> Snapshots]]
<1>t. audit[a] \in Locals /\ Fit(audit[a])
  BY DEF TypeInv, TypeOK
<1>1. audit[a].pc \in {"extract", "member"}
  BY DEF OpenMember, WriteMember, Mark, At
<1>2. Snapshot(a) \in Snapshots
  BY <1>1, <1>t, InventoryType DEF TypeInv, TypeOK, Fit, Snapshot, Current
<1>3. ASSUME NEW f \in Files, NEW s \in {"torn", "whole"},
             Stores(a, [Snapshot(a) EXCEPT !.files[f] = s])
      PROVE  snapshots' \in [Repos -> [Commits -> Snapshots]]
  <2>1. [Snapshot(a) EXCEPT !.files[f] = s] \in Snapshots
    BY <1>2 DEF Snapshots
  <2> QED
    BY <1>1, <1>3, <2>1, StoresType
<1>4. CASE OpenMember(a)
  BY <1>4, <1>3, <1>t DEF OpenMember, Locals
<1>5. CASE WriteMember(a)
  <2>1. audit[a].file \in Files
    BY <1>5, <1>t DEF WriteMember, At, Fit, Locals
  <2> QED
    BY <1>5, <1>3, <2>1 DEF WriteMember
<1>6. CASE Mark(a)
  <2>1. [Snapshot(a) EXCEPT !.marked = TRUE] \in Snapshots
    BY <1>2 DEF Snapshots
  <2> QED
    BY <1>1, <1>6, <2>1, StoresType DEF Mark
<1> QED
  BY <1>4, <1>5, <1>6

\* An item that is ingested is one, and tells what its report says.
LEMMA WorkItemType ==
    ASSUME TypeInv, NEW i \in RunIds, NEW r \in Repos
    PROVE  /\ WorkItem(i, r) \in [repository : Repos,
                                  commit : {0} \cup Commits, real : BOOLEAN]
           /\ WorkItem(i, r).real = runs[i].evidence.reports[r].whole
<1>1. runs[i].evidence.reports[r] \in Reported
  BY DEF TypeInv, TypeOK, Evidence
<1> QED
  BY <1>1 DEF WorkItem, Reported

Item == [repository : Repos, commit : {0} \cup Commits, real : BOOLEAN]

\* An audit starts: its run directory is there from now on.
LEMMA StartType ==
    ASSUME TypeInv, NEW a \in Audits, NEW second \in RunIds,
           NEW download \in BOOLEAN, Start(a, second, download)
    PROVE  /\ audit' \in [Audits -> Locals]
           /\ \A b \in Audits : Fit(audit'[b])
           /\ audit'[a].pc = "source"
           /\ \A b \in Audits : b # a => audit'[b] = audit[b]
           /\ runs' \in [RunIds -> RunDirectories]
           /\ \A i \in RunIds : runs'[i].evidence = runs[i].evidence
<1> DEFINE l == [audit[a] EXCEPT !.pc = "source", !.id = second,
                                 !.download = download]
           run == [runs[second] EXCEPT !.exists = TRUE]
<1>t. /\ audit[a] \in Locals /\ Fit(audit[a])
      /\ runs \in [RunIds -> RunDirectories]
  BY DEF TypeInv, TypeOK, RunDirectories
<1>1. l \in Locals /\ l.pc = "source" /\ l.id = second
  BY <1>t DEF Locals, PCs
<1>2. Becomes(a, l)
  BY DEF Start
<1>3. runs' = [runs EXCEPT ![second] = run]
  BY DEF Start
<1>4. run \in RunDirectories /\ run.evidence = runs[second].evidence
  BY <1>t DEF RunDirectories
<1> HIDE DEF l, run
<1>5. Fit(l)
  BY <1>1 DEF Fit
<1>6. /\ audit' \in [Audits -> Locals]
      /\ \A b \in Audits : Fit(audit'[b])
      /\ audit'[a] = l
      /\ \A b \in Audits : b # a => audit'[b] = audit[b]
  BY <1>1, <1>2, <1>5, BecomesType
<1> QED
  BY <1>1, <1>3, <1>4, <1>6, <1>t

\* Every step leaves a well-formed state.
LEMMA TypeNext == TypeInv /\ [Next]_vars => TypeInv'
<1> SUFFICES ASSUME TypeInv, [Next]_vars PROVE TypeInv'
  OBVIOUS
<1>t. /\ head \in [Repos -> Commits]
      /\ snapshots \in [Repos -> [Commits -> Snapshots]]
      /\ runs \in [RunIds -> RunDirectories]
      /\ items \subseteq Item
      /\ audit \in [Audits -> Locals] /\ \A b \in Audits : Fit(audit[b])
      /\ faults \in 0..MaxFaults /\ MaxFaults \in Nat /\ MaxMoves \in Nat
  BY BoundAssumption DEF TypeInv, TypeOK, RunDirectories, Item
<1>s. /\ head' \in [Repos -> Commits]
      /\ snapshots' \in [Repos -> [Commits -> Snapshots]]
      /\ runs' \in [RunIds -> RunDirectories]
      /\ items' \subseteq Item
      /\ audit' \in [Audits -> Locals]
      /\ \A b \in Audits : Fit(audit'[b])
      /\ faults' \in 0..MaxFaults
      => TypeInv'
  BY DEF TypeInv, TypeOK, RunDirectories, Item, Locals, Reported, Evidence,
         Snapshots, Commits, RunIds, Fit
<1>1. ASSUME NEW a \in Audits, NEW second \in RunIds, NEW download \in BOOLEAN,
             Start(a, second, download)
      PROVE  TypeInv'
  <2>1. UNCHANGED <<head, snapshots, items, faults>>
    BY <1>1 DEF Start
  <2> QED
    BY <1>1, <2>1, <1>t, <1>s, StartType
<1>2. ASSUME NEW a \in Audits, ReportStep(a) PROVE TypeInv'
  <2>1. PICK report \in Reported : Reports(a, report)
    BY <1>2, ReportStepReports
  <2>2. /\ audit[a].next \in DOMAIN Inventory /\ Running(a)
        /\ faults' \in 0..MaxFaults
        /\ UNCHANGED <<head, snapshots, runs, items>>
    BY <1>2, ReportStepReports
  <2>3. audit' \in [Audits -> Locals] /\ \A b \in Audits : Fit(audit'[b])
    BY <2>1, <2>2, ReportsType
  <2> QED
    BY <2>2, <2>3, <1>t, <1>s
<1>3. ASSUME NEW a \in Audits, ResolveHead(a) \/ Download(a) PROVE TypeInv'
  <2>1. UNCHANGED <<head, snapshots, runs, items, faults>>
    BY <1>3 DEF ResolveHead, Download
  <2>2. audit' \in [Audits -> Locals] /\ \A b \in Audits : Fit(audit'[b])
    BY <1>3, LoopStepType
  <2> QED
    BY <2>1, <2>2, <1>t, <1>s
<1>4. ASSUME NEW a \in Audits, OpenMember(a) \/ WriteMember(a) \/ Mark(a)
      PROVE  TypeInv'
  <2>1. UNCHANGED <<head, runs, items, faults>>
    BY <1>4 DEF OpenMember, WriteMember, Mark
  <2>2. audit' \in [Audits -> Locals] /\ \A b \in Audits : Fit(audit'[b])
    BY <1>4, LoopStepType
  <2>3. snapshots' \in [Repos -> [Commits -> Snapshots]]
    BY <1>4, SnapshotStepType
  <2> QED
    BY <2>1, <2>2, <2>3, <1>t, <1>s
<1>5. ASSUME NEW a \in Audits, WriteReport(a) PROVE TypeInv'
  <2>1. UNCHANGED <<head, snapshots, items, faults>>
    BY <1>5 DEF WriteReport
  <2>2. audit' \in [Audits -> Locals] /\ \A b \in Audits : Fit(audit'[b])
    BY <1>5, LoopStepType
  <2>3. runs' \in [RunIds -> RunDirectories]
    BY <1>5, DirectoryStepType
  <2> QED
    BY <2>1, <2>2, <2>3, <1>t, <1>s
<1>6. ASSUME NEW a \in Audits,
             WriteInventory(a) \/ WritePortfolio(a) \/ WriteManifest(a)
      PROVE  TypeInv'
  <2>1. UNCHANGED <<head, snapshots, items, faults>> /\ Running(a)
    BY <1>6 DEF WriteInventory, WritePortfolio, WriteManifest, At, Running
  <2>2. Goes(a, "portfolio") \/ Goes(a, "manifest") \/ Goes(a, "ingest")
        \/ Goes(a, "done")
    BY <1>6 DEF WriteInventory, WritePortfolio, WriteManifest
  <2>3. audit' \in [Audits -> Locals] /\ \A b \in Audits : Fit(audit'[b])
    BY <2>1, <2>2, GoesType
  <2>4. runs' \in [RunIds -> RunDirectories]
    BY <1>6, DirectoryStepType
  <2> QED
    BY <2>1, <2>3, <2>4, <1>t, <1>s
<1>7. ASSUME NEW i \in RunIds, NEW r \in Repos,
             items' = items \cup {WorkItem(i, r)},
             UNCHANGED <<head, snapshots, runs, audit, faults>>
      PROVE  TypeInv'
  <2>1. items' \subseteq Item
    BY <1>7, <1>t, WorkItemType DEF Item
  <2> QED
    BY <1>7, <2>1, <1>t, <1>s
<1>8. ASSUME NEW a \in Audits, Ingest(a) PROVE TypeInv'
  <2>1. audit[a].id \in RunIds
    BY <1>8, <1>t DEF Ingest, At, Fit
  <2>2. PICK r \in Repos : items' = items \cup {WorkItem(audit[a].id, r)}
    BY <1>8 DEF Ingest, Ingestable
  <2>3. UNCHANGED <<head, snapshots, runs, audit, faults>>
    BY <1>8 DEF Ingest
  <2> QED
    BY <2>1, <2>2, <2>3, <1>7
<1>9. ASSUME NEW i \in RunIds, IngestAgain(i) PROVE TypeInv'
  <2>1. PICK r \in Repos : items' = items \cup {WorkItem(i, r)}
    BY <1>9 DEF IngestAgain, Ingestable
  <2>2. UNCHANGED <<head, snapshots, runs, audit, faults>>
    BY <1>9 DEF IngestAgain
  <2> QED
    BY <2>1, <2>2, <1>7
<1>10. ASSUME NEW a \in Audits, Finish(a) \/ Die(a) PROVE TypeInv'
  <2>1. /\ UNCHANGED <<head, snapshots, runs, items>> /\ Running(a)
        /\ faults' = faults \/ Fails
    BY <1>10 DEF Finish, Die, At, Running
  <2>2. Goes(a, "done") \/ Goes(a, "dead")
    BY <1>10 DEF Finish, Die
  <2>3. audit' \in [Audits -> Locals] /\ \A b \in Audits : Fit(audit'[b])
    BY <2>1, <2>2, GoesType
  <2>4. faults' \in 0..MaxFaults
    BY <2>1, <1>t DEF Fails
  <2> QED
    BY <2>1, <2>3, <2>4, <1>t, <1>s
<1>11. ASSUME NEW r \in Repos, HeadMoves(r) PROVE TypeInv'
  <2>1. head[r] + 1 \in Commits
    BY <1>11, <1>t DEF HeadMoves, Commits
  <2>2. head' \in [Repos -> Commits]
    BY <1>11, <2>1, <1>t DEF HeadMoves
  <2> QED
    BY <1>11, <2>2, <1>t, <1>s DEF HeadMoves
<1>12. CASE UNCHANGED vars
  BY <1>12, <1>t, <1>s DEF vars
<1>13. ASSUME NEW a \in Audits, Step(a) PROVE TypeInv'
  BY <1>13, <1>2, <1>3, <1>4, <1>5, <1>6, <1>8, <1>10 DEF Step, ReportStep
<1> QED
  BY <1>1, <1>9, <1>10, <1>11, <1>12, <1>13 DEF Next

\* The state stays well formed, for any inventory, audits and bounds: every
\* audit is at a step that its locals fit.
THEOREM TypeCorrect == Spec => []TypeOK
<1>1. Spec => []TypeInv
  BY TypeInit, TypeNext, PTL DEF Spec
<1> QED
  BY <1>1, PTL DEF TypeInv

-----------------------------------------------------------------------------
(* The marker can be trusted                                               *)

\* One audit at a time.
Alone == \A a, b \in Audits : Running(a) /\ Running(b) => a = b

\* What an audit knows of the snapshot it is at.
Trust(a) ==
    /\ audit[a].pc \in {"download", "extract", "member"} =>
          ~Snapshot(a).marked
    /\ audit[a].pc \in {"extract", "member"} =>
          \A f \in Files \ audit[a].todo : Snapshot(a).files[f] = "whole"
    /\ audit[a].pc = "scan" => Snapshot(a).marked
    /\ audit[a].pc = "write" /\ audit[a].report.status = "audited" =>
          audit[a].report.whole

\* What was written of it.
ReportsAreWhole ==
    \A i \in RunIds, r \in Repos :
        runs[i].evidence.reports[r].status = "audited" =>
            runs[i].evidence.reports[r].whole

Sound ==
    /\ Alone /\ MarkedIsWhole /\ ReportsAreWhole /\ ItemsAreReal
    /\ \A a \in Audits : Trust(a)

\* At the start no audit runs and nothing is there.
LEMMA SoundInit == Init => Sound
<1> SUFFICES ASSUME Init PROVE Sound
  OBVIOUS
<1>1. \A a \in Audits : audit[a].pc = "new"
  BY DEF Init, Idle
<1>2. Alone /\ \A a \in Audits : Trust(a)
  BY <1>1 DEF Alone, Running, Trust
<1>3. MarkedIsWhole
  BY DEF Init, MarkedIsWhole, NoSnapshot
<1>4. \A i \in RunIds, r \in Repos :
         runs[i].evidence.reports[r].status = "none"
  BY DEF Init, NoRun, NoEvidence, NoReport, Report
<1>5. ReportsAreWhole /\ ItemsAreReal
  BY <1>4 DEF Init, ReportsAreWhole, ItemsAreReal
<1> QED
  BY <1>2, <1>3, <1>5 DEF Sound

\* A step is of one audit, which runs.
LEMMA StepOfOne ==
    ASSUME TypeInv, NEW a \in Audits, Step(a) \/ Die(a)
    PROVE  /\ Running(a)
           /\ \A b \in Audits : b # a => audit'[b] = audit[b]
<1>1. CASE ReportStep(a)
  BY <1>1, ReportStepReports, ReportsType
<1>2. CASE ResolveHead(a) \/ Download(a) \/ OpenMember(a) \/ WriteMember(a)
              \/ Mark(a) \/ WriteReport(a)
  BY <1>2, LoopStepType
<1>3. CASE WriteInventory(a) \/ WritePortfolio(a) \/ WriteManifest(a)
              \/ Finish(a) \/ Die(a)
  <2>1. Running(a)
    BY <1>3 DEF WriteInventory, WritePortfolio, WriteManifest, Finish, Die, At,
                Running
  <2>2. Goes(a, "portfolio") \/ Goes(a, "manifest") \/ Goes(a, "ingest")
        \/ Goes(a, "done") \/ Goes(a, "dead")
    BY <1>3 DEF WriteInventory, WritePortfolio, WriteManifest, Finish, Die
  <2> QED
    BY <2>1, <2>2, GoesType
<1>4. CASE Ingest(a)
  BY <1>4 DEF Ingest, At, Running
<1> QED
  BY <1>1, <1>2, <1>3, <1>4 DEF Step, ReportStep

\* While one audit runs no other starts.
LEMMA AloneNext ==
    ASSUME OneAtATime, TypeInv, Alone, [Next]_vars
    PROVE  Alone'
<1>t. audit \in [Audits -> Locals]
  BY DEF TypeInv, TypeOK
<1>1. ASSUME NEW a \in Audits, NEW second \in RunIds, NEW download \in BOOLEAN,
             Start(a, second, download)
      PROVE  Alone'
  <2>1. \A b \in Audits : ~Running(b)
    BY <1>1 DEF Start
  <2>2. \A b \in Audits : b # a => audit'[b] = audit[b]
    BY <1>1, StartType
  <2> QED
    BY <2>1, <2>2 DEF Alone, Running
<1>2. ASSUME NEW a \in Audits, Step(a) \/ Die(a) PROVE Alone'
  <2>1. Running(a) /\ \A b \in Audits : b # a => audit'[b] = audit[b]
    BY <1>2, StepOfOne
  <2> QED
    BY <2>1 DEF Alone, Running
<1>3. CASE audit' = audit
  BY <1>3 DEF Alone, Running
<1> QED
  BY <1>1, <1>2, <1>3 DEF Next, vars, IngestAgain, HeadMoves

\* A step that writes to a snapshot: which one, and what it becomes.
LEMMA WritesSnapshot ==
    ASSUME TypeInv, NEW a \in Audits,
           OpenMember(a) \/ WriteMember(a) \/ Mark(a)
    PROVE  /\ audit[a].pc \in {"extract", "member"}
           /\ Current(a) \in Repos /\ audit[a].commit \in Commits
           /\ Snapshot(a) \in Snapshots
           /\ \E s \in Snapshots :
                 /\ snapshots'[Current(a)][audit[a].commit] = s
                 /\ \/ \E f \in audit[a].todo :
                          /\ OpenMember(a)
                          /\ s = [Snapshot(a) EXCEPT !.files[f] = "torn"]
                    \/ /\ audit[a].file \in Files
                       /\ WriteMember(a)
                       /\ s = [Snapshot(a) EXCEPT
                                  !.files[audit[a].file] = "whole"]
                    \/ /\ audit[a].todo = {} /\ Mark(a)
                       /\ s = [Snapshot(a) EXCEPT !.marked = TRUE]
           /\ \A r \in Repos, c \in Commits :
                 r # Current(a) \/ c # audit[a].commit =>
                     snapshots'[r][c] = snapshots[r][c]
<1>t. audit[a] \in Locals /\ Fit(audit[a])
  BY DEF TypeInv, TypeOK
<1>1. audit[a].pc \in {"extract", "member"}
  BY DEF OpenMember, WriteMember, Mark, At
<1>2. Current(a) \in Repos /\ audit[a].commit \in Commits
  BY <1>1, <1>t, InventoryType DEF Fit, Current
<1>3. Snapshot(a) \in Snapshots
  BY <1>2 DEF TypeInv, TypeOK, Snapshot
<1>4. CASE OpenMember(a)
  <2>1. PICK f \in audit[a].todo :
           Stores(a, [Snapshot(a) EXCEPT !.files[f] = "torn"])
    BY <1>4 DEF OpenMember
  <2> DEFINE s == [Snapshot(a) EXCEPT !.files[f] = "torn"]
  <2>2. s \in Snapshots
    BY <1>3, <1>t DEF Locals, Snapshots
  <2>3. /\ snapshots'[Current(a)][audit[a].commit] = s
        /\ \A r \in Repos, c \in Commits :
              r # Current(a) \/ c # audit[a].commit =>
                  snapshots'[r][c] = snapshots[r][c]
    BY <2>1, <2>2, <1>1, StoresType
  <2> QED
    BY <1>1, <1>2, <1>3, <1>4, <2>2, <2>3
<1>5. CASE WriteMember(a)
  <2>1. audit[a].file \in Files
    BY <1>5, <1>t DEF WriteMember, At, Fit, Locals
  <2> DEFINE s == [Snapshot(a) EXCEPT !.files[audit[a].file] = "whole"]
  <2>2. s \in Snapshots
    BY <1>3, <2>1 DEF Snapshots
  <2>3. Stores(a, s)
    BY <1>5 DEF WriteMember
  <2>4. /\ snapshots'[Current(a)][audit[a].commit] = s
        /\ \A r \in Repos, c \in Commits :
              r # Current(a) \/ c # audit[a].commit =>
                  snapshots'[r][c] = snapshots[r][c]
    BY <2>2, <2>3, <1>1, StoresType
  <2> QED
    BY <1>1, <1>2, <1>3, <1>5, <2>1, <2>2, <2>4
<1>6. CASE Mark(a)
  <2> DEFINE s == [Snapshot(a) EXCEPT !.marked = TRUE]
  <2>1. s \in Snapshots
    BY <1>3 DEF Snapshots
  <2>2. Stores(a, s) /\ audit[a].todo = {}
    BY <1>6 DEF Mark
  <2>3. /\ snapshots'[Current(a)][audit[a].commit] = s
        /\ \A r \in Repos, c \in Commits :
              r # Current(a) \/ c # audit[a].commit =>
                  snapshots'[r][c] = snapshots[r][c]
    BY <2>1, <2>2, <1>1, StoresType
  <2> QED
    BY <1>1, <1>2, <1>3, <1>6, <2>1, <2>2, <2>3
<1> QED
  BY <1>4, <1>5, <1>6

\* The marker is set on a complete snapshot, and what bears it is not written.
LEMMA MarkNext ==
    ASSUME TypeInv, Sound, NEW a \in Audits,
           OpenMember(a) \/ WriteMember(a) \/ Mark(a)
    PROVE  /\ MarkedIsWhole'
           /\ \A r \in Repos, c \in Commits :
                 snapshots[r][c].marked => snapshots'[r][c] = snapshots[r][c]
<1>1. /\ audit[a].pc \in {"extract", "member"}
      /\ Current(a) \in Repos /\ audit[a].commit \in Commits
      /\ Snapshot(a) \in Snapshots
      /\ \A r \in Repos, c \in Commits :
            r # Current(a) \/ c # audit[a].commit =>
                snapshots'[r][c] = snapshots[r][c]
  BY WritesSnapshot
<1>2. PICK s \in Snapshots :
         /\ snapshots'[Current(a)][audit[a].commit] = s
         /\ \/ \E f \in audit[a].todo :
                  /\ OpenMember(a)
                  /\ s = [Snapshot(a) EXCEPT !.files[f] = "torn"]
            \/ /\ audit[a].file \in Files
               /\ WriteMember(a)
               /\ s = [Snapshot(a) EXCEPT !.files[audit[a].file] = "whole"]
            \/ /\ audit[a].todo = {} /\ Mark(a)
               /\ s = [Snapshot(a) EXCEPT !.marked = TRUE]
  BY WritesSnapshot
<1>3. /\ ~Snapshot(a).marked
      /\ \A f \in Files \ audit[a].todo : Snapshot(a).files[f] = "whole"
  BY <1>1 DEF Sound, Trust
<1>4. s.marked => Whole(s)
  BY <1>1, <1>2, <1>3 DEF Whole, Snapshots
<1>5. MarkedIsWhole'
  <2> SUFFICES ASSUME NEW r \in Repos, NEW c \in Commits,
                      snapshots'[r][c].marked
               PROVE  Whole(snapshots'[r][c])
    BY DEF MarkedIsWhole, Commits
  <2>1. CASE r = Current(a) /\ c = audit[a].commit
    BY <2>1, <1>2, <1>4
  <2>2. CASE r # Current(a) \/ c # audit[a].commit
    BY <2>2, <1>1 DEF Sound, MarkedIsWhole
  <2> QED
    BY <2>1, <2>2
<1>6. \A r \in Repos, c \in Commits :
         snapshots[r][c].marked => snapshots'[r][c] = snapshots[r][c]
  BY <1>1, <1>3 DEF Snapshot
<1> QED
  BY <1>5, <1>6

\* The audit that moves knows of its snapshot what it has to know.
LEMMA TrustNext ==
    ASSUME TypeInv, Sound, NEW a \in Audits, Step(a) PROVE Trust(a)'
<1>t. /\ audit[a] \in Locals /\ Fit(audit[a])
      /\ audit \in [Audits -> Locals]
      /\ snapshots \in [Repos -> [Commits -> Snapshots]]
      /\ head \in [Repos -> Commits]
  BY DEF TypeInv, TypeOK
<1>s. Trust(a) /\ MarkedIsWhole
  BY DEF Sound
<1>1. CASE ReportStep(a)
  <2>1. PICK report \in Reported :
           /\ Reports(a, report)
           /\ report.status = "audited" =>
                 \/ report.whole = TRUE
                 \/ audit[a].pc = "scan" /\ report.whole = Whole(Snapshot(a))
    BY <1>1, ReportStepReports
  <2>2. /\ audit[a].next \in DOMAIN Inventory /\ Running(a)
    BY <1>1, ReportStepReports
  <2>3. audit'[a].pc = "write" /\ audit'[a].report = report
    BY <2>1, <2>2, ReportsType
  <2>4. audit[a].pc = "scan" => Whole(Snapshot(a))
    <3> SUFFICES ASSUME audit[a].pc = "scan" PROVE Whole(Snapshot(a))
      OBVIOUS
    <3>1. Current(a) \in Repos /\ audit[a].commit \in Commits
      BY <1>t, InventoryType DEF Fit, Current
    <3>2. Snapshot(a).marked
      BY <1>s DEF Trust
    <3> QED
      BY <3>1, <3>2, <1>s DEF MarkedIsWhole, Snapshot
  <2> QED
    BY <2>1, <2>3, <2>4 DEF Trust
<1>2. CASE ResolveHead(a)
  <2> DEFINE r == Current(a)
             c == head[r]
             l == [audit[a] EXCEPT
                      !.commit = c,
                      !.pc = IF snapshots[r][c].marked THEN "scan"
                                                       ELSE "download"]
  <2>1. audit' = [audit EXCEPT ![a] = l] /\ snapshots' = snapshots
    BY <1>2 DEF ResolveHead, Becomes
  <2>2. /\ l.commit = c /\ l.next = audit[a].next
        /\ l.pc = IF snapshots[r][c].marked THEN "scan" ELSE "download"
    BY <1>t DEF Locals
  <2> HIDE DEF l
  <2>3. audit'[a] = l
    BY <2>1, <1>t
  <2>4. Snapshot(a)' = snapshots[r][c]
    BY <2>1, <2>2, <2>3 DEF Snapshot, Current
  <2> HIDE DEF c, r
  <2> QED
    BY <2>2, <2>3, <2>4 DEF Trust
<1>3. CASE Download(a)
  <2> DEFINE l == [audit[a] EXCEPT !.pc = "extract", !.todo = Files]
  <2>1. audit' = [audit EXCEPT ![a] = l] /\ snapshots' = snapshots
    BY <1>3 DEF Download, Becomes
  <2>2. /\ l.commit = audit[a].commit /\ l.next = audit[a].next
        /\ l.pc = "extract" /\ l.todo = Files
    BY <1>t DEF Locals
  <2> HIDE DEF l
  <2>3. audit'[a] = l
    BY <2>1, <1>t
  <2>4. Snapshot(a)' = Snapshot(a)
    BY <2>1, <2>2, <2>3 DEF Snapshot, Current
  <2>5. ~Snapshot(a).marked
    BY <1>3, <1>s DEF Download, At, Trust
  <2> QED
    BY <2>2, <2>3, <2>4, <2>5 DEF Trust
<1>4. CASE OpenMember(a) \/ WriteMember(a) \/ Mark(a)
  <2>1. /\ audit[a].pc \in {"extract", "member"}
        /\ Current(a) \in Repos /\ audit[a].commit \in Commits
        /\ Snapshot(a) \in Snapshots
    BY <1>4, WritesSnapshot
  <2>2. PICK s \in Snapshots :
           /\ snapshots'[Current(a)][audit[a].commit] = s
           /\ \/ \E f \in audit[a].todo :
                    /\ OpenMember(a)
                    /\ s = [Snapshot(a) EXCEPT !.files[f] = "torn"]
              \/ /\ audit[a].file \in Files
                 /\ WriteMember(a)
                 /\ s = [Snapshot(a) EXCEPT !.files[audit[a].file] = "whole"]
              \/ /\ audit[a].todo = {} /\ Mark(a)
                 /\ s = [Snapshot(a) EXCEPT !.marked = TRUE]
    BY <1>4, WritesSnapshot
  <2>3. /\ ~Snapshot(a).marked
        /\ \A f \in Files \ audit[a].todo : Snapshot(a).files[f] = "whole"
    BY <2>1, <1>s DEF Trust
  <2>4. audit'[a].next = audit[a].next /\ audit'[a].commit = audit[a].commit
        /\ audit'[a].pc = (IF OpenMember(a) THEN "member" ELSE
                           IF WriteMember(a) THEN "extract" ELSE "scan")
        /\ audit'[a].todo = (IF WriteMember(a)
                             THEN audit[a].todo \ {audit[a].file}
                             ELSE audit[a].todo)
    <3>1. CASE OpenMember(a)
      <4>1. PICK f \in audit[a].todo :
               Becomes(a, [audit[a] EXCEPT !.pc = "member", !.file = f])
        BY <3>1 DEF OpenMember
      <4> DEFINE l == [audit[a] EXCEPT !.pc = "member", !.file = f]
      <4>2. audit'[a] = l
        BY <4>1, <1>t DEF Becomes
      <4>3. /\ l.pc = "member" /\ l.todo = audit[a].todo
            /\ l.next = audit[a].next /\ l.commit = audit[a].commit
        BY <1>t DEF Locals
      <4>4. ~WriteMember(a)
        BY <3>1 DEF OpenMember, WriteMember, At
      <4> QED
        BY <3>1, <4>2, <4>3, <4>4
    <3>2. CASE WriteMember(a)
      <4> DEFINE l == [audit[a] EXCEPT !.pc = "extract", !.file = "none",
                                       !.todo = @ \ {audit[a].file}]
      <4>1. audit'[a] = l
        BY <3>2, <1>t DEF WriteMember, Becomes
      <4>2. /\ l.pc = "extract" /\ l.todo = audit[a].todo \ {audit[a].file}
            /\ l.next = audit[a].next /\ l.commit = audit[a].commit
        BY <1>t DEF Locals
      <4>3. ~OpenMember(a)
        BY <3>2 DEF OpenMember, WriteMember, At
      <4> QED
        BY <3>2, <4>1, <4>2, <4>3
    <3>3. CASE Mark(a)
      <4> DEFINE l == [audit[a] EXCEPT !.pc = "scan"]
      <4>1. audit'[a] = l
        BY <3>3, <1>t DEF Mark, Goes, Becomes
      <4>2. /\ l.pc = "scan" /\ l.todo = audit[a].todo
            /\ l.next = audit[a].next /\ l.commit = audit[a].commit
        BY <1>t DEF Locals
      <4>3. ~OpenMember(a) /\ ~WriteMember(a)
        BY <3>3 DEF OpenMember, WriteMember, Mark, At
      <4> QED
        BY <4>1, <4>2, <4>3
    <3> QED
      BY <1>4, <3>1, <3>2, <3>3
  <2>5. Snapshot(a)' = s
    BY <2>2, <2>4 DEF Snapshot, Current
  <2>6. CASE \E f \in audit[a].todo :
                /\ OpenMember(a)
                /\ s = [Snapshot(a) EXCEPT !.files[f] = "torn"]
    <3>1. ~s.marked /\ \A g \in Files \ audit[a].todo : s.files[g] = "whole"
      BY <2>1, <2>3, <2>6 DEF Snapshots
    <3>2. audit'[a].pc = "member" /\ audit'[a].todo = audit[a].todo
      BY <2>4, <2>6 DEF OpenMember, WriteMember, At
    <3> QED
      BY <3>1, <3>2, <2>5 DEF Trust
  <2>7. CASE /\ audit[a].file \in Files /\ WriteMember(a)
             /\ s = [Snapshot(a) EXCEPT !.files[audit[a].file] = "whole"]
    <3>1. ~s.marked /\ \A g \in Files \ (audit[a].todo \ {audit[a].file}) :
                           s.files[g] = "whole"
      BY <2>1, <2>3, <2>7 DEF Snapshots
    <3>2. /\ audit'[a].pc = "extract"
          /\ audit'[a].todo = audit[a].todo \ {audit[a].file}
      BY <2>4, <2>7 DEF OpenMember, WriteMember, At
    <3> QED
      BY <3>1, <3>2, <2>5 DEF Trust
  <2>8. CASE Mark(a) /\ s = [Snapshot(a) EXCEPT !.marked = TRUE]
    <3>1. s.marked
      BY <2>1, <2>8 DEF Snapshots
    <3>2. audit'[a].pc = "scan"
      BY <2>4, <2>8 DEF OpenMember, WriteMember, Mark, At
    <3> QED
      BY <3>1, <3>2, <2>5 DEF Trust
  <2> QED
    BY <2>2, <2>6, <2>7, <2>8, <1>4
<1>5. CASE WriteReport(a)
  <2> DEFINE l == [audit[a] EXCEPT !.pc = "source",
                                   !.next = @ + 1,
                                   !.commit = 0,
                                   !.report = NoReport,
                                   !.reports = Append(@, audit[a].report)]
  <2>1. audit'[a] = l
    BY <1>5, <1>t DEF WriteReport, Becomes
  <2>2. l.pc = "source"
    BY <1>t DEF Locals
  <2> HIDE DEF l
  <2> QED
    BY <2>1, <2>2 DEF Trust
<1>6. CASE WriteInventory(a) \/ WritePortfolio(a) \/ WriteManifest(a)
              \/ Finish(a)
  <2>1. Running(a)
    BY <1>6 DEF WriteInventory, WritePortfolio, WriteManifest, Finish, At,
                Running
  <2>2. Goes(a, "portfolio") \/ Goes(a, "manifest") \/ Goes(a, "ingest")
        \/ Goes(a, "done")
    BY <1>6 DEF WriteInventory, WritePortfolio, WriteManifest, Finish
  <2>3. audit'[a].pc \in {"portfolio", "manifest", "ingest", "done", "dead"}
    BY <2>1, <2>2, GoesType
  <2> QED
    BY <2>3 DEF Trust
<1>7. CASE Ingest(a)
  <2>1. audit' = audit /\ audit[a].pc = "ingest"
    BY <1>7 DEF Ingest, At
  <2> QED
    BY <2>1 DEF Trust
<1> QED
  BY <1>1, <1>2, <1>3, <1>4, <1>5, <1>6, <1>7 DEF Step, ReportStep

\* No step loses what the marker promises, as long as audits do not overlap.
LEMMA SoundNext ==
    ASSUME OneAtATime, TypeInv, Sound, [Next]_vars
    PROVE  /\ Sound'
           /\ \A r \in Repos, c \in Commits :
                 snapshots[r][c].marked => snapshots'[r][c] = snapshots[r][c]
<1> DEFINE Stays == \A r \in Repos, c \in Commits :
                       snapshots[r][c].marked =>
                           snapshots'[r][c] = snapshots[r][c]
<1>s. /\ Alone /\ MarkedIsWhole /\ ReportsAreWhole /\ ItemsAreReal
      /\ \A b \in Audits : Trust(b)
  BY DEF Sound
<1>a. Alone'
  BY <1>s, AloneNext
<1>t. /\ audit \in [Audits -> Locals] /\ \A b \in Audits : Fit(audit[b])
      /\ TypeInv'
  BY TypeNext DEF TypeInv, TypeOK
<1>m. ASSUME snapshots' = snapshots PROVE MarkedIsWhole' /\ Stays
  BY <1>m, <1>s DEF MarkedIsWhole, Commits, Whole
<1>r. ASSUME \A i \in RunIds : runs'[i].evidence = runs[i].evidence
      PROVE  ReportsAreWhole'
  BY <1>r, <1>s DEF ReportsAreWhole, RunIds
<1>i. ASSUME items' = items PROVE ItemsAreReal'
  BY <1>i, <1>s DEF ItemsAreReal
<1>b. ASSUME NEW b \in Audits, audit'[b] = audit[b],
             snapshots' = snapshots \/ ~Running(b)
      PROVE  Trust(b)'
  <2>1. CASE snapshots' = snapshots
    <3>1. Snapshot(b)' = Snapshot(b)
      BY <1>b, <2>1 DEF Snapshot, Current
    <3> QED
      BY <1>b, <1>s, <3>1 DEF Trust
  <2>2. CASE ~Running(b)
    BY <1>b, <2>2 DEF Trust, Running
  <2> QED
    BY <1>b, <2>1, <2>2
<1>o. ASSUME NEW a \in Audits, Step(a) PROVE \A b \in Audits : Trust(b)'
  <2>1. /\ Running(a)
        /\ \A b \in Audits : b # a => audit'[b] = audit[b]
    BY <1>o, StepOfOne
  <2>2. \A b \in Audits : b # a => ~Running(b)
    BY <2>1, <1>s DEF Alone
  <2>3. Trust(a)'
    BY <1>o, TrustNext
  <2>4. ASSUME NEW b \in Audits, b # a PROVE Trust(b)'
    BY <2>1, <2>2, <2>4, <1>b
  <2> QED
    BY <2>3, <2>4
<1>1. ASSUME NEW a \in Audits, NEW second \in RunIds, NEW download \in BOOLEAN,
             Start(a, second, download)
      PROVE  Sound' /\ Stays
  <2>1. /\ audit'[a].pc = "source"
        /\ \A b \in Audits : b # a => audit'[b] = audit[b]
        /\ \A i \in RunIds : runs'[i].evidence = runs[i].evidence
    BY <1>1, StartType
  <2>2. snapshots' = snapshots /\ items' = items
    BY <1>1 DEF Start
  <2>3. ASSUME NEW b \in Audits, b # a PROVE Trust(b)'
    BY <2>1, <2>2, <2>3, <1>b
  <2>4. Trust(a)'
    BY <2>1 DEF Trust
  <2> QED
    BY <2>1, <2>2, <2>3, <2>4, <1>a, <1>m, <1>r, <1>i DEF Sound
<1>2. ASSUME NEW a \in Audits, ReportStep(a), Step(a) PROVE Sound' /\ Stays
  <2>1. UNCHANGED <<snapshots, runs, items>>
    BY <1>2, ReportStepReports
  <2> QED
    BY <1>2, <2>1, <1>a, <1>m, <1>r, <1>i, <1>o DEF Sound
<1>3. ASSUME NEW a \in Audits, Step(a),
             ResolveHead(a) \/ Download(a) \/ Finish(a)
      PROVE  Sound' /\ Stays
  <2>1. UNCHANGED <<snapshots, runs, items>>
    BY <1>3 DEF ResolveHead, Download, Finish
  <2> QED
    BY <1>3, <2>1, <1>a, <1>m, <1>r, <1>i, <1>o DEF Sound
<1>4. ASSUME NEW a \in Audits, Step(a),
             OpenMember(a) \/ WriteMember(a) \/ Mark(a)
      PROVE  Sound' /\ Stays
  <2>1. UNCHANGED <<runs, items>>
    BY <1>4 DEF OpenMember, WriteMember, Mark
  <2>2. MarkedIsWhole' /\ Stays
    BY <1>4, MarkNext
  <2> QED
    BY <1>4, <2>1, <2>2, <1>a, <1>r, <1>i, <1>o DEF Sound
<1>5. ASSUME NEW a \in Audits, Step(a),
             WriteReport(a) \/ WriteInventory(a) \/ WritePortfolio(a)
                \/ WriteManifest(a)
      PROVE  Sound' /\ Stays
  <2>1. UNCHANGED <<snapshots, items>>
    BY <1>5 DEF WriteReport, WriteInventory, WritePortfolio, WriteManifest
  <2>2. \A i \in RunIds, r \in Repos :
           \/ runs'[i].evidence.reports[r] = runs[i].evidence.reports[r]
           \/ /\ WriteReport(a)
              /\ runs'[i].evidence.reports[r] = audit[a].report
    BY <1>5, DirectoryStepType
  <2>3. WriteReport(a) /\ audit[a].report.status = "audited" =>
           audit[a].report.whole
    BY <1>s DEF Trust, WriteReport, At
  <2>4. ReportsAreWhole'
    BY <2>2, <2>3, <1>s DEF ReportsAreWhole, RunIds
  <2> QED
    BY <1>5, <2>1, <2>4, <1>a, <1>m, <1>i, <1>o DEF Sound
<1>6. ASSUME NEW i \in RunIds, NEW r \in Ingestable(i),
             items' = items \cup {WorkItem(i, r)}
      PROVE  ItemsAreReal'
  <2>1. r \in Repos /\ runs[i].evidence.reports[r].status = "audited"
    BY DEF Ingestable
  <2>2. runs[i].evidence.reports[r].whole
    BY <2>1, <1>s DEF ReportsAreWhole
  <2>3. WorkItem(i, r).real
    BY <2>1, <2>2, WorkItemType
  <2> QED
    BY <1>6, <2>3, <1>s DEF ItemsAreReal
<1>7. ASSUME NEW a \in Audits, Step(a), Ingest(a) PROVE Sound' /\ Stays
  <2>1. audit[a].id \in RunIds /\ UNCHANGED <<snapshots, runs>>
    BY <1>7, <1>t DEF Ingest, At, Fit
  <2>2. ItemsAreReal'
    BY <1>7, <2>1, <1>6 DEF Ingest
  <2> QED
    BY <1>7, <2>1, <2>2, <1>a, <1>m, <1>r, <1>o DEF Sound
<1>8. ASSUME NEW i \in RunIds, IngestAgain(i) PROVE Sound' /\ Stays
  <2>1. UNCHANGED <<snapshots, runs, audit>>
    BY <1>8 DEF IngestAgain
  <2>2. ItemsAreReal'
    BY <1>8, <1>6 DEF IngestAgain
  <2> QED
    BY <2>1, <2>2, <1>a, <1>m, <1>r, <1>b DEF Sound
<1>9. ASSUME NEW a \in Audits, Die(a) PROVE Sound' /\ Stays
  <2>1. UNCHANGED <<snapshots, runs, items>> /\ Goes(a, "dead") /\ Running(a)
    BY <1>9 DEF Die
  <2>2. /\ audit'[a].pc \in {"portfolio", "manifest", "ingest", "done", "dead"}
        /\ \A b \in Audits : b # a => audit'[b] = audit[b]
    BY <2>1, GoesType
  <2>3. Trust(a)'
    BY <2>2 DEF Trust
  <2>4. ASSUME NEW b \in Audits, b # a PROVE Trust(b)'
    BY <2>1, <2>2, <2>4, <1>b
  <2> QED
    BY <2>1, <2>3, <2>4, <1>a, <1>m, <1>r, <1>i DEF Sound
<1>10. ASSUME UNCHANGED <<snapshots, runs, items, audit>>
       PROVE  Sound' /\ Stays
  BY <1>10, <1>a, <1>m, <1>r, <1>i, <1>b DEF Sound
<1>11. ASSUME NEW a \in Audits, Step(a) PROVE Sound' /\ Stays
  BY <1>11, <1>2, <1>3, <1>4, <1>5, <1>7 DEF Step, ReportStep
<1> QED
  BY <1>1, <1>8, <1>9, <1>10, <1>11 DEF Next, vars, HeadMoves

-----------------------------------------------------------------------------
(* The manifest can be trusted                                             *)

Building == {"source", "download", "extract", "member", "scan", "write"}

\* What the manifest of a run vouches for.
Complete(evidence) ==
    /\ evidence.inventory
    /\ Len(evidence.portfolio) = Len(Inventory)
    /\ \A k \in DOMAIN Inventory :
          /\ evidence.portfolio[k].status \in Statuses
          /\ evidence.reports[Inventory[k]] = evidence.portfolio[k]

\* The reports the loop has collected are the ones in the run directory.
ReportsKept(a) ==
    /\ Len(audit[a].reports) = audit[a].next - 1
    /\ \A k \in 1..(audit[a].next - 1) :
          /\ audit[a].reports[k].status \in Statuses
          /\ Run(a).evidence.reports[Inventory[k]] = audit[a].reports[k]

\* How much of its run an audit has written.
Written(a) ==
    /\ audit[a].pc \in Building \cup {"portfolio", "manifest"} =>
          ~Run(a).sealed /\ ReportsKept(a)
    /\ audit[a].pc = "write" => audit[a].report.status \in Statuses
    /\ audit[a].pc \in {"portfolio", "manifest"} =>
          audit[a].next = Len(Inventory) + 1 /\ Run(a).evidence.inventory
    /\ audit[a].pc = "manifest" =>
          Run(a).evidence.portfolio = audit[a].reports

\* No two audits write to one run directory.
OwnRun(a) ==
    IF audit[a].pc = "new" THEN audit[a] = Idle
    ELSE /\ Run(a).exists
         /\ \A b \in Audits :
               audit[b].pc # "new" /\ audit[b].id = audit[a].id => b = a

RunsInv ==
    /\ \A i \in RunIds : /\ runs[i].sealed => /\ runs[i].exists
                                              /\ Complete(runs[i].evidence)
                                              /\ runs[i].manifest
                                                   = runs[i].evidence
    /\ \A a \in Audits : OwnRun(a) /\ Written(a)

\* No run exists at the start.
LEMMA RunsInit == Init => RunsInv
BY DEF Init, RunsInv, OwnRun, Written, NoRun, Idle, Building

\* A step of an audit in its own run directory, or outside of all of them,
\* leaves the other audits what they have.
LEMMA RunsOwn ==
    ASSUME TypeInv, TypeInv', RunsInv, NEW a \in Audits, Running(a),
           \A b \in Audits : b # a => audit'[b] = audit[b],
           audit'[a].id = audit[a].id, audit'[a].pc # "new",
           \A i \in RunIds : i # audit[a].id => runs'[i] = runs[i],
           Run(a)'.exists,
           Run(a)'.sealed => /\ Complete(Run(a)'.evidence)
                             /\ Run(a)'.manifest = Run(a)'.evidence,
           Written(a)'
    PROVE  RunsInv'
<1>1. audit[a].pc # "new" /\ audit[a].id \in RunIds
  BY DEF Running, TypeInv, Fit
<1>2. ASSUME NEW i \in RunIds, runs'[i].sealed
      PROVE  /\ runs'[i].exists /\ Complete(runs'[i].evidence)
             /\ runs'[i].manifest = runs'[i].evidence
  <2>1. CASE i = audit[a].id
    BY <2>1, <1>2 DEF Run
  <2>2. CASE i # audit[a].id
    BY <2>2, <1>2 DEF RunsInv
  <2> QED
    BY <2>1, <2>2
<1>3. ASSUME NEW b \in Audits, b # a, audit[b].pc # "new"
      PROVE  audit[b].id # audit[a].id /\ audit[b].id \in RunIds
  BY <1>1, <1>3 DEF RunsInv, OwnRun, TypeInv, Fit
<1>4. ASSUME NEW b \in Audits PROVE OwnRun(b)' /\ Written(b)'
  <2>1. CASE b = a
    <3>1. OwnRun(a)'
      BY <1>1, <1>3 DEF OwnRun
    <3> QED
      BY <2>1, <3>1
  <2>2. CASE b # a /\ audit[b].pc = "new"
    <3>1. audit'[b] = Idle /\ audit'[b].pc = "new"
      BY <2>2 DEF RunsInv, OwnRun
    <3> QED
      BY <3>1 DEF OwnRun, Written, Building
  <2>3. CASE b # a /\ audit[b].pc # "new"
    <3>1. audit'[b] = audit[b] /\ Run(b)' = Run(b)
      BY <2>3, <1>3 DEF Run
    <3>2. OwnRun(b) /\ Written(b)
      BY DEF RunsInv
    <3>3. OwnRun(b)'
      BY <2>3, <3>1, <3>2, <1>1 DEF OwnRun
    <3> QED
      BY <3>1, <3>2, <3>3 DEF Written, ReportsKept
  <2> QED
    BY <2>1, <2>2, <2>3
<1> QED
  BY <1>2, <1>4 DEF RunsInv

\* A step of the loop short of the report, or one that ends the audit: nothing
\* is written to the run directory.
LEMMA RunsRead ==
    ASSUME TypeInv, TypeInv', RunsInv, NEW a \in Audits,
           \/ ReportStep(a) \/ ResolveHead(a) \/ Download(a) \/ OpenMember(a)
           \/ WriteMember(a) \/ Mark(a) \/ Finish(a) \/ Die(a)
    PROVE  RunsInv'
<1>t. audit \in [Audits -> Locals] /\ audit[a] \in Locals
  BY DEF TypeInv, TypeOK
<1>1. Running(a) /\ \A b \in Audits : b # a => audit'[b] = audit[b]
  BY StepOfOne DEF Step, ReportStep
<1>2. runs' = runs
  BY ReportStepReports
  DEF ResolveHead, Download, OpenMember, WriteMember, Mark, Finish, Die
<1>3. audit[a].pc # "new" /\ audit[a].id \in RunIds
  BY <1>1 DEF Running, TypeInv, Fit
<1>4. ASSUME audit'[a].id = audit[a].id, audit'[a].pc # "new", Written(a)'
      PROVE  RunsInv'
  <2>1. Run(a)' = Run(a) /\ \A i \in RunIds : runs'[i] = runs[i]
    BY <1>2, <1>4 DEF Run
  <2>2. /\ Run(a).exists
        /\ Run(a).sealed => /\ Complete(Run(a).evidence)
                            /\ Run(a).manifest = Run(a).evidence
    BY <1>3 DEF RunsInv, OwnRun, Run
  <2>3. Run(a)'.exists
    BY <2>1, <2>2
  <2>4. Run(a)'.sealed => /\ Complete(Run(a)'.evidence)
                          /\ Run(a)'.manifest = Run(a)'.evidence
    BY <2>1, <2>2
  <2> QED
    BY <2>1, <2>3, <2>4, <1>1, <1>4, RunsOwn
\* The step stays in the loop, where the reports so far are the same.
<1>5. ASSUME audit[a].pc \in Building, audit'[a].pc \in Building,
             audit'[a].id = audit[a].id, audit'[a].next = audit[a].next,
             audit'[a].reports = audit[a].reports,
             audit'[a].pc = "write" => audit'[a].report.status \in Statuses
      PROVE  RunsInv'
  <2>1. Run(a)' = Run(a)
    BY <1>2, <1>5 DEF Run
  <2>2. ~Run(a).sealed /\ ReportsKept(a)
    BY <1>5 DEF RunsInv, Written
  <2>3. Written(a)'
    BY <2>1, <2>2, <1>5 DEF Written, ReportsKept, Building
  <2>4. audit'[a].pc # "new"
    BY <1>5 DEF Building
  <2> QED
    BY <2>3, <2>4, <1>4, <1>5
<1>6. CASE ReportStep(a)
  <2>1. PICK report \in Reported :
           Reports(a, report) /\ report.status \in Statuses
    BY <1>6, ReportStepReports
  <2>2. audit[a].pc \in Building
    BY <1>6 DEF ReportStep, AuditLocal, SourceMissing, RefusePrivate,
                HeadUnavailable, DownloadFails, ExtractFails, Scan, InLoop,
                CanAsk, At, Building
  <2>3. audit'[a] = [audit[a] EXCEPT !.pc = "write", !.report = report,
                                     !.todo = {}, !.file = "none"]
    BY <2>1, <1>t DEF Reports, Becomes
  <2>4. /\ audit'[a].pc = "write" /\ audit'[a].report = report
        /\ audit'[a].id = audit[a].id /\ audit'[a].next = audit[a].next
        /\ audit'[a].reports = audit[a].reports
    BY <2>3, <1>t DEF Locals
  <2> QED
    BY <2>1, <2>2, <2>4, <1>5 DEF Building
<1>7. CASE ResolveHead(a)
  <2>1. PICK pc \in {"scan", "download"} :
           audit'[a] = [audit[a] EXCEPT !.commit = head[Current(a)],
                                        !.pc = pc]
    BY <1>7, <1>t DEF ResolveHead, Becomes
  <2>2. /\ audit'[a].pc = pc
        /\ audit'[a].id = audit[a].id /\ audit'[a].next = audit[a].next
        /\ audit'[a].reports = audit[a].reports
    BY <2>1, <1>t DEF Locals
  <2>3. audit[a].pc = "source"
    BY <1>7 DEF ResolveHead, CanAsk, InLoop, At
  <2> QED
    BY <2>2, <2>3, <1>5 DEF Building
<1>8. CASE Download(a)
  <2>1. audit'[a] = [audit[a] EXCEPT !.pc = "extract", !.todo = Files]
        /\ audit[a].pc = "download"
    BY <1>8, <1>t DEF Download, Becomes, At
  <2>2. /\ audit'[a].pc = "extract"
        /\ audit'[a].id = audit[a].id /\ audit'[a].next = audit[a].next
        /\ audit'[a].reports = audit[a].reports
    BY <2>1, <1>t DEF Locals
  <2> QED
    BY <2>1, <2>2, <1>5 DEF Building
<1>9. CASE OpenMember(a)
  <2>1. PICK f \in Files :
           audit'[a] = [audit[a] EXCEPT !.pc = "member", !.file = f]
    BY <1>9, <1>t DEF OpenMember, Becomes, Locals
  <2>2. /\ audit'[a].pc = "member"
        /\ audit'[a].id = audit[a].id /\ audit'[a].next = audit[a].next
        /\ audit'[a].reports = audit[a].reports
    BY <2>1, <1>t DEF Locals
  <2>3. audit[a].pc = "extract"
    BY <1>9 DEF OpenMember, At
  <2> QED
    BY <2>2, <2>3, <1>5 DEF Building
<1>10. CASE WriteMember(a)
  <2>1. PICK todo :
           audit'[a] = [audit[a] EXCEPT !.pc = "extract", !.file = "none",
                                        !.todo = todo]
    BY <1>10, <1>t DEF WriteMember, Becomes
  <2>2. /\ audit'[a].pc = "extract"
        /\ audit'[a].id = audit[a].id /\ audit'[a].next = audit[a].next
        /\ audit'[a].reports = audit[a].reports
    BY <2>1, <1>t DEF Locals
  <2>3. audit[a].pc = "member"
    BY <1>10 DEF WriteMember, At
  <2> QED
    BY <2>2, <2>3, <1>5 DEF Building
<1>11. CASE Mark(a)
  <2>1. audit'[a] = [audit[a] EXCEPT !.pc = "scan"] /\ audit[a].pc = "extract"
    BY <1>11, <1>t DEF Mark, Goes, Becomes, At
  <2>2. /\ audit'[a].pc = "scan"
        /\ audit'[a].id = audit[a].id /\ audit'[a].next = audit[a].next
        /\ audit'[a].reports = audit[a].reports
    BY <2>1, <1>t DEF Locals
  <2> QED
    BY <2>1, <2>2, <1>5 DEF Building
<1>12. CASE Finish(a) \/ Die(a)
  <2>1. PICK pc \in {"done", "dead"} : audit'[a] = [audit[a] EXCEPT !.pc = pc]
    BY <1>12, <1>t DEF Finish, Die, Goes, Becomes
  <2>2. audit'[a].pc = pc /\ audit'[a].id = audit[a].id
    BY <2>1, <1>t DEF Locals
  <2>3. Written(a)'
    BY <2>2 DEF Written, Building
  <2> QED
    BY <2>2, <2>3, <1>4
<1> QED
  BY <1>6, <1>7, <1>8, <1>9, <1>10, <1>11, <1>12

\* What the loop has collected, one by one, ends up in the run directory, and the
\* manifest comes last.
LEMMA RunsWritten ==
    ASSUME TypeInv, TypeInv', RunsInv, NEW a \in Audits,
           WriteReport(a) \/ WriteInventory(a) \/ WritePortfolio(a)
              \/ WriteManifest(a)
    PROVE  RunsInv'
<1>t. /\ audit \in [Audits -> Locals] /\ audit[a] \in Locals
      /\ runs \in [RunIds -> RunDirectories]
  BY DEF TypeInv, TypeOK, RunDirectories
<1>1. Running(a) /\ \A b \in Audits : b # a => audit'[b] = audit[b]
  BY StepOfOne DEF Step
<1>2. /\ audit[a].pc # "new" /\ audit[a].id \in RunIds
      /\ Run(a) \in RunDirectories /\ Run(a).evidence \in Evidence
      /\ Run(a).exists
  BY <1>1, <1>t DEF Running, TypeInv, Fit, Run, RunDirectories, RunsInv, OwnRun
<1>w. Written(a)
  BY DEF RunsInv
\* The evidence grows by one file while there is no manifest.
<1>3. ASSUME NEW evidence, Keeps(a, [Run(a) EXCEPT !.evidence = evidence])
      PROVE  /\ \A i \in RunIds : i # audit[a].id => runs'[i] = runs[i]
             /\ runs'[audit[a].id].exists
             /\ runs'[audit[a].id].sealed = Run(a).sealed
             /\ runs'[audit[a].id].evidence = evidence
  <2>1. runs' = [runs EXCEPT ![audit[a].id] =
                    [Run(a) EXCEPT !.evidence = evidence]]
    BY <1>3 DEF Keeps
  <2>2. runs'[audit[a].id] = [Run(a) EXCEPT !.evidence = evidence]
    BY <2>1, <1>t, <1>2
  <2>3. \A i \in RunIds : i # audit[a].id => runs'[i] = runs[i]
    BY <2>1, <1>t, <1>2
  <2> QED
    BY <2>2, <2>3, <1>2 DEF RunDirectories
<1>4. CASE WriteReport(a)
  <2> DEFINE report == audit[a].report
             evidence == [Run(a).evidence EXCEPT !.reports[Current(a)] = report]
             reports == Append(audit[a].reports, report)
             n == audit[a].next
  <2>0. /\ audit[a].pc = "write" /\ n \in DOMAIN Inventory /\ n \in Nat
        /\ Current(a) \in Repos
        /\ Keeps(a, [Run(a) EXCEPT !.evidence = evidence])
    BY <1>4, InventoryType DEF WriteReport, At, TypeInv, Fit, Current
  <2>1. /\ \A i \in RunIds : i # audit[a].id => runs'[i] = runs[i]
        /\ runs'[audit[a].id].exists
        /\ runs'[audit[a].id].sealed = Run(a).sealed
        /\ runs'[audit[a].id].evidence = evidence
    BY <2>0, <1>3
  <2>2. ~Run(a).sealed /\ ReportsKept(a) /\ report.status \in Statuses
    BY <2>0, <1>w DEF Written, Building
  <2>3. audit'[a] = [audit[a] EXCEPT !.pc = "source", !.next = n + 1,
                                     !.commit = 0, !.report = NoReport,
                                     !.reports = reports]
    BY <1>4, <1>t DEF WriteReport, Becomes
  <2>4. /\ audit'[a].pc = "source" /\ audit'[a].next = n + 1
        /\ audit'[a].id = audit[a].id /\ audit'[a].reports = reports
    BY <2>3, <1>t DEF Locals
  <2>5. /\ audit[a].reports \in Seq(Reported) /\ report \in Reported
        /\ Len(audit[a].reports) = n - 1
    BY <1>t, <2>2 DEF Locals, ReportsKept
  <2>6. /\ Len(reports) = n /\ reports[n] = report
        /\ \A k \in 1..(n - 1) : reports[k] = audit[a].reports[k]
    BY <2>0, <2>5
  <2>7. /\ evidence.reports[Current(a)] = report
        /\ \A r \in Repos : r # Current(a) =>
              evidence.reports[r] = Run(a).evidence.reports[r]
    BY <2>0, <1>2 DEF Evidence
  <2> HIDE DEF evidence, reports, report
  <2>8. ASSUME NEW k \in 1..n
        PROVE  /\ reports[k].status \in Statuses
               /\ evidence.reports[Inventory[k]] = reports[k]
    <3>1. CASE k = n
      BY <3>1, <2>2, <2>6, <2>7 DEF Current
    <3>2. CASE k \in 1..(n - 1)
      <4>1. /\ Inventory[k] # Current(a) /\ Inventory[k] \in Repos
        BY <3>2, <2>0, InventoryAssumption, InventoryType DEF Current
      <4> QED
        BY <4>1, <3>2, <2>2, <2>6, <2>7 DEF ReportsKept
    <3> QED
      BY <3>1, <3>2, <2>0
  <2>9. ReportsKept(a)'
    <3>1. Run(a)'.evidence = evidence
      BY <2>1, <2>4 DEF Run
    <3> QED
      BY <3>1, <2>0, <2>4, <2>6, <2>8 DEF ReportsKept
  <2>10. Written(a)'
    BY <2>1, <2>2, <2>4, <2>9 DEF Written, Run
  <2> QED
    BY <2>1, <2>2, <2>4, <2>10, <1>1, RunsOwn DEF Run
<1>5. CASE WriteInventory(a)
  <2> DEFINE evidence == [Run(a).evidence EXCEPT !.inventory = TRUE]
  <2>0. /\ audit[a].pc = "source" /\ audit[a].next = Len(Inventory) + 1
        /\ Keeps(a, [Run(a) EXCEPT !.evidence = evidence])
    BY <1>5, <1>t, InventoryType DEF WriteInventory, At, Locals
  <2>1. /\ \A i \in RunIds : i # audit[a].id => runs'[i] = runs[i]
        /\ runs'[audit[a].id].exists
        /\ runs'[audit[a].id].sealed = Run(a).sealed
        /\ runs'[audit[a].id].evidence = evidence
    BY <2>0, <1>3
  <2>2. /\ evidence.inventory /\ evidence.reports = Run(a).evidence.reports
    BY <1>2 DEF Evidence
  <2> HIDE DEF evidence
  <2>3. audit'[a] = [audit[a] EXCEPT !.pc = "portfolio"]
    BY <1>5, <1>t DEF WriteInventory, Goes, Becomes
  <2>4. /\ audit'[a].pc = "portfolio" /\ audit'[a].next = audit[a].next
        /\ audit'[a].id = audit[a].id /\ audit'[a].reports = audit[a].reports
    BY <2>3, <1>t DEF Locals
  <2>5. ~Run(a).sealed /\ ReportsKept(a)
    BY <2>0, <1>w DEF Written, Building
  <2>6. Written(a)'
    <3>1. Run(a)'.evidence = evidence /\ ~Run(a)'.sealed
      BY <2>1, <2>4, <2>5 DEF Run
    <3>2. ReportsKept(a)'
      BY <3>1, <2>2, <2>4, <2>5 DEF ReportsKept
    <3> QED
      BY <3>1, <3>2, <2>0, <2>2, <2>4, <2>5 DEF Written
  <2> QED
    BY <2>1, <2>4, <2>5, <2>6, <1>1, RunsOwn DEF Run
<1>6. CASE WritePortfolio(a)
  <2> DEFINE evidence == [Run(a).evidence EXCEPT !.portfolio = audit[a].reports]
  <2>0. /\ audit[a].pc = "portfolio"
        /\ Keeps(a, [Run(a) EXCEPT !.evidence = evidence])
    BY <1>6 DEF WritePortfolio, At
  <2>1. /\ \A i \in RunIds : i # audit[a].id => runs'[i] = runs[i]
        /\ runs'[audit[a].id].exists
        /\ runs'[audit[a].id].sealed = Run(a).sealed
        /\ runs'[audit[a].id].evidence = evidence
    BY <2>0, <1>3
  <2>2. /\ evidence.inventory = Run(a).evidence.inventory
        /\ evidence.reports = Run(a).evidence.reports
        /\ evidence.portfolio = audit[a].reports
    BY <1>2 DEF Evidence
  <2> HIDE DEF evidence
  <2>3. audit'[a] = [audit[a] EXCEPT !.pc = "manifest"]
    BY <1>6, <1>t DEF WritePortfolio, Goes, Becomes
  <2>4. /\ audit'[a].pc = "manifest" /\ audit'[a].next = audit[a].next
        /\ audit'[a].id = audit[a].id /\ audit'[a].reports = audit[a].reports
    BY <2>3, <1>t DEF Locals
  <2>5. /\ ~Run(a).sealed /\ ReportsKept(a) /\ Run(a).evidence.inventory
        /\ audit[a].next = Len(Inventory) + 1
    BY <2>0, <1>w DEF Written
  <2>6. Written(a)'
    <3>1. Run(a)'.evidence = evidence /\ ~Run(a)'.sealed
      BY <2>1, <2>4, <2>5 DEF Run
    <3>2. ReportsKept(a)'
      BY <3>1, <2>2, <2>4, <2>5 DEF ReportsKept
    <3> QED
      BY <3>1, <3>2, <2>2, <2>4, <2>5 DEF Written
  <2> QED
    BY <2>1, <2>4, <2>5, <2>6, <1>1, RunsOwn DEF Run
<1>7. CASE WriteManifest(a)
  <2>0. /\ audit[a].pc = "manifest"
        /\ runs' = [runs EXCEPT ![audit[a].id] =
                       [Run(a) EXCEPT !.manifest = Run(a).evidence,
                                      !.sealed = TRUE]]
    BY <1>7 DEF WriteManifest, At, Keeps
  <2>1. /\ \A i \in RunIds : i # audit[a].id => runs'[i] = runs[i]
        /\ runs'[audit[a].id] = [Run(a) EXCEPT !.manifest = Run(a).evidence,
                                               !.sealed = TRUE]
    BY <2>0, <1>t, <1>2
  <2>2. /\ runs'[audit[a].id].exists
        /\ runs'[audit[a].id].evidence = Run(a).evidence
        /\ runs'[audit[a].id].manifest = Run(a).evidence
    BY <2>1, <1>2 DEF RunDirectories
  <2>3. PICK pc \in {"ingest", "done"} :
           audit'[a] = [audit[a] EXCEPT !.pc = pc]
    BY <1>7, <1>t DEF WriteManifest, Goes, Becomes
  <2>4. audit'[a].pc = pc /\ audit'[a].id = audit[a].id
    BY <2>3, <1>t DEF Locals
  <2>5. /\ ReportsKept(a) /\ Run(a).evidence.inventory
        /\ audit[a].next = Len(Inventory) + 1
        /\ Run(a).evidence.portfolio = audit[a].reports
    BY <2>0, <1>w DEF Written
  <2>6. Complete(Run(a).evidence)
    BY <2>5, InventoryType DEF Complete, ReportsKept
  <2>7. Written(a)'
    BY <2>4 DEF Written, Building
  <2>8. /\ Run(a)'.exists /\ Run(a)'.evidence = Run(a).evidence
        /\ Run(a)'.manifest = Run(a).evidence
    BY <2>2, <2>4 DEF Run
  <2>9. Complete(Run(a)'.evidence) /\ Run(a)'.manifest = Run(a)'.evidence
    BY <2>6, <2>8
  <2> QED
    BY <2>1, <2>4, <2>7, <2>8, <2>9, <1>1, RunsOwn
<1> QED
  BY <1>4, <1>5, <1>6, <1>7

\* An audit that starts alone takes a directory nobody has used.
LEMMA RunsStarted ==
    ASSUME OneAtATime, TypeInv, RunsInv, NEW a \in Audits,
           NEW second \in RunIds, NEW download \in BOOLEAN,
           Start(a, second, download)
    PROVE  RunsInv'
<1>t. /\ audit \in [Audits -> Locals] /\ runs \in [RunIds -> RunDirectories]
  BY DEF TypeInv, TypeOK, RunDirectories
<1>1. /\ audit[a] = Idle /\ ~runs[second].exists
      /\ audit' = [audit EXCEPT ![a] = [audit[a] EXCEPT !.pc = "source",
                        !.id = second, !.download = download]]
      /\ runs' = [runs EXCEPT ![second].exists = TRUE]
  BY DEF Start, Becomes, At, RunsInv, OwnRun
<1>2. /\ audit'[a].pc = "source" /\ audit'[a].id = second
      /\ audit'[a].next = 1 /\ audit'[a].reports = <<>>
      /\ \A b \in Audits : b # a => audit'[b] = audit[b]
  BY <1>1, <1>t DEF Idle
<1>3. /\ runs'[second].exists
      /\ runs'[second].sealed = runs[second].sealed
      /\ \A i \in RunIds : i # second => runs'[i] = runs[i]
  BY <1>1, <1>t DEF RunDirectories
<1>4. ~runs'[second].sealed
  BY <1>1, <1>3 DEF RunsInv
<1>5. \A i \in RunIds : runs'[i].sealed => /\ runs'[i].exists
                                           /\ Complete(runs'[i].evidence)
                                           /\ runs'[i].manifest
                                                = runs'[i].evidence
  BY <1>3, <1>4 DEF RunsInv
<1>6. ASSUME NEW b \in Audits, audit[b].pc # "new"
      PROVE  b # a /\ audit[b].id # second /\ audit[b].id \in RunIds
  BY <1>1, <1>6 DEF RunsInv, OwnRun, Run, Idle, TypeInv, Fit
<1>7. ASSUME NEW b \in Audits PROVE OwnRun(b)' /\ Written(b)'
  <2>1. CASE b = a
    <3>1. OwnRun(a)'
      BY <1>2, <1>3, <1>6 DEF OwnRun, Run, RunsInv
    <3>2. Written(a)'
      BY <1>2, <1>4 DEF Written, ReportsKept, Run
    <3> QED
      BY <2>1, <3>1, <3>2
  <2>2. CASE b # a /\ audit[b].pc = "new"
    <3>1. audit'[b] = Idle /\ audit'[b].pc = "new"
      BY <2>2, <1>2 DEF RunsInv, OwnRun
    <3> QED
      BY <3>1 DEF OwnRun, Written, Building
  <2>3. CASE b # a /\ audit[b].pc # "new"
    <3>1. audit'[b] = audit[b] /\ Run(b)' = Run(b)
      BY <2>3, <1>2, <1>3, <1>6 DEF Run
    <3>2. OwnRun(b) /\ Written(b)
      BY DEF RunsInv
    <3>3. OwnRun(b)'
      BY <2>3, <3>1, <3>2, <1>2, <1>6 DEF OwnRun
    <3> QED
      BY <3>1, <3>2, <3>3 DEF Written, ReportsKept
  <2> QED
    BY <2>1, <2>2, <2>3
<1> QED
  BY <1>5, <1>7 DEF RunsInv

\* Every step keeps the runs in order.
LEMMA RunsNext ==
    ASSUME OneAtATime, TypeInv, TypeInv', RunsInv, [Next]_vars
    PROVE  RunsInv'
<1>1. CASE UNCHANGED <<runs, audit>>
  BY <1>1 DEF RunsInv, OwnRun, Written, ReportsKept, Run
<1>2. ASSUME NEW a \in Audits, Step(a) \/ Die(a) PROVE RunsInv'
  <2>1. CASE Ingest(a)
    BY <2>1, <1>1 DEF Ingest
  <2> QED
    BY <1>2, <2>1, RunsRead, RunsWritten DEF Step, ReportStep
<1>3. ASSUME NEW i \in RunIds, IngestAgain(i) PROVE RunsInv'
  BY <1>1, <1>3 DEF IngestAgain
<1>4. ASSUME NEW r \in Repos, HeadMoves(r) PROVE RunsInv'
  BY <1>1, <1>4 DEF HeadMoves
<1>5. CASE UNCHANGED vars
  BY <1>1, <1>5 DEF vars
<1> QED
  BY <1>2, <1>3, <1>4, <1>5, RunsStarted DEF Next

-----------------------------------------------------------------------------
(* Theorems                                                                *)

\* What audits that do not overlap keep: the induction behind the theorems
\* that follow.
LEMMA SoundAlways ==
    ASSUME OneAtATime PROVE Spec => [](TypeInv /\ Sound)
<1>1. TypeInv /\ Sound /\ [Next]_vars => (TypeInv /\ Sound)'
  BY TypeNext, SoundNext
<1> QED
  BY <1>1, TypeInit, SoundInit, PTL DEF Spec

\* The marker of download_snapshot can be trusted by later audits: no crash,
\* failed request or failed extraction leaves it on an incomplete tree, if
\* audits run one at a time.
THEOREM MarkerIsTrue == OneAtATime => (Spec => []MarkedIsWhole)
<1>1. ASSUME OneAtATime PROVE Spec => []MarkedIsWhole
  <2>1. Spec => [](TypeInv /\ Sound)
    BY <1>1, SoundAlways
  <2>2. TypeInv /\ Sound => MarkedIsWhole
    BY DEF Sound
  <2> QED
    BY <2>1, <2>2, PTL
<1> QED
  BY <1>1

\* No work item was made up by a half-written snapshot, if audits run one at
\* a time.
THEOREM WorkIsReal == OneAtATime => (Spec => []ItemsAreReal)
<1>1. ASSUME OneAtATime PROVE Spec => []ItemsAreReal
  <2>1. Spec => [](TypeInv /\ Sound)
    BY <1>1, SoundAlways
  <2>2. TypeInv /\ Sound => ItemsAreReal
    BY DEF Sound
  <2> QED
    BY <2>1, <2>2, PTL
<1> QED
  BY <1>1

\* A snapshot that bears the marker is never written again, if audits run one
\* at a time.
THEOREM MarkedIsKept == OneAtATime => (Spec => SnapshotsStay)
<1>1. ASSUME OneAtATime, TypeInv, Sound, [Next]_vars
      PROVE  [\A r \in Repos, c \in Commits :
                 snapshots[r][c].marked =>
                     snapshots'[r][c] = snapshots[r][c]]_vars
  BY <1>1, SoundNext
<1>2. ASSUME OneAtATime PROVE Spec => SnapshotsStay
  <2>1. Spec => [](TypeInv /\ Sound)
    BY <1>2, SoundAlways
  <2>2. TypeInv /\ Sound /\ [Next]_vars =>
           [\A r \in Repos, c \in Commits :
               snapshots[r][c].marked =>
                   snapshots'[r][c] = snapshots[r][c]]_vars
    BY <1>1, <1>2
  <2> QED
    BY <2>1, <2>2, PTL DEF Spec, SnapshotsStay
<1> QED
  BY <1>2

\* A manifest seals a complete run that nobody writes to again, whatever failed
\* or died, if audits run one at a time (orchestrator.py, reporting.py).
THEOREM ManifestIsKept == OneAtATime => (Spec => []ManifestIsTrue)
<1>1. ASSUME OneAtATime PROVE Spec => []ManifestIsTrue
  <2>1. TypeInv /\ RunsInv /\ [Next]_vars => (TypeInv /\ RunsInv)'
    BY <1>1, TypeNext, RunsNext
  <2>2. RunsInv => ManifestIsTrue
    BY DEF RunsInv, Complete, ManifestIsTrue
  <2> QED
    BY <2>1, <2>2, TypeInit, RunsInit, PTL DEF Spec
<1> QED
  BY <1>1
=============================================================================
