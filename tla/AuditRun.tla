------------------------------ MODULE AuditRun ------------------------------
(***************************************************************************)
(* The portfolio audit: AuditOrchestrator.audit_all with the snapshot      *)
(* store of GitHubClient.download_snapshot, the run directory of           *)
(* EvidenceWriter, and the ingestion of a run into the governed workflow.  *)
(*                                                                         *)
(* An audit is one process.  It takes no lock: the snapshots and the run   *)
(* directories are shared by whoever audits under the same runtime root,   *)
(* and they survive a process that dies.                                   *)
(***************************************************************************)
EXTENDS Integers, Sequences, FiniteSets

CONSTANTS
    Audits,      \* the audit processes
    Repos,       \* the repositories
    Inventory,   \* the repositories of the inventory, in the order of the loop
    Private,     \* the repositories that are not public
    LocalRepos,  \* the repositories with a source under the local roots
    HasToken,    \* whether GITHUB_TOKEN is set
    Files,       \* the files of every snapshot
    OneAtATime,  \* no audit starts before the last one ended, or in its second
    MaxMoves,    \* bound on the commits made to each default branch
    MaxFaults    \* bound on failed requests, failed steps and deaths

ASSUME InventoryAssumption ==
    /\ Inventory \in Seq(Repos)
    /\ \A i, j \in DOMAIN Inventory : Inventory[i] = Inventory[j] => i = j
    /\ Private \subseteq Repos /\ LocalRepos \subseteq Repos

ASSUME BoundAssumption ==
    /\ HasToken \in BOOLEAN /\ OneAtATime \in BOOLEAN
    /\ MaxMoves \in Nat /\ MaxFaults \in Nat
    /\ IsFiniteSet(Audits)

VARIABLES
    head,       \* the head of each default branch on GitHub
    snapshots,  \* runtime/snapshots, by repository and commit
    runs,       \* runtime/runs, by run id
    items,      \* the work items ingested
    audit,      \* the audit processes
    faults      \* the faults so far

vars == <<head, snapshots, runs, items, audit, faults>>

-----------------------------------------------------------------------------
(* Snapshots, reports and run directories                                  *)

\* 0 stands for a source without a GitHub commit.
Commits == 1..(MaxMoves + 1)

\* Every file of a snapshot is there, complete.
Whole(snapshot) == \A f \in Files : snapshot.files[f] = "whole"

NoSnapshot == [files |-> [f \in Files |-> "absent"], marked |-> FALSE]

\* What a report says; "whole" tells whether the source it was made from was
\* the complete tree of its commit.
Report(status, commit, whole) ==
    [status |-> status, commit |-> commit, whole |-> whole]

NoReport == Report("none", 0, FALSE)

Statuses == {"audited", "auth_required", "unavailable", "source_missing",
             "error"}

\* A run id is the second the audit started in.
RunIds == 1..Cardinality(Audits)

\* The files the manifest lists with their hashes.
NoEvidence == [reports |-> [r \in Repos |-> NoReport],
               inventory |-> FALSE,
               portfolio |-> <<>>]

NoRun == [evidence |-> NoEvidence, manifest |-> NoEvidence,
          sealed |-> FALSE, exists |-> FALSE]

Idle == [pc |-> "new", id |-> 0, download |-> FALSE, next |-> 1, commit |-> 0,
         todo |-> {}, file |-> "none", report |-> NoReport, reports |-> <<>>]

Init ==
    /\ head = [r \in Repos |-> 1]
    /\ snapshots = [r \in Repos |-> [c \in Commits |-> NoSnapshot]]
    /\ runs = [i \in RunIds |-> NoRun]
    /\ items = {}
    /\ audit = [a \in Audits |-> Idle]
    /\ faults = 0

-----------------------------------------------------------------------------
(* The loop over the inventory                                             *)

Running(a) == audit[a].pc \notin {"new", "done", "dead"}

\* The repository the loop is at.
Current(a) == Inventory[audit[a].next]

At(a, pc) == audit[a].pc = pc

\* The audit moves on with its locals changed, or to step pc with the same.
Becomes(a, locals) == audit' = [audit EXCEPT ![a] = locals]

Goes(a, pc) == Becomes(a, [audit[a] EXCEPT !.pc = pc])

Fails == /\ faults < MaxFaults
         /\ faults' = faults + 1

\* The snapshot the audit is about, and a step that changes it.
Snapshot(a) == snapshots[Current(a)][audit[a].commit]

Stores(a, snapshot) ==
    snapshots' = [snapshots EXCEPT ![Current(a)][audit[a].commit] = snapshot]

\* The run directory of the audit, and a step that writes to it.
Run(a) == runs[audit[a].id]

Keeps(a, run) == runs' = [runs EXCEPT ![audit[a].id] = run]

\* The report of the current repository is ready to be written.
Reports(a, report) ==
    Becomes(a, [audit[a] EXCEPT !.pc = "write", !.report = report,
                                !.todo = {}, !.file = "none"])

\* An unavailable repository gets a report too.
Unavailable(a, status) == Reports(a, Report(status, 0, FALSE))

\* Mutant of NotAuthorized: the visibility is taken for the status.
VisibilityOf(r) == IF r \in Private THEN "private" ELSE "unavailable"

\* The status of a repository GitHub refuses.
NotAuthorized(r) == IF r \in Private THEN "auth_required" ELSE "unavailable"

\* The run id is the current second, never one before that of a started audit;
\* download is the flag --download-missing.
Start(a, second, download) ==
    /\ At(a, "new")
    /\ \A i \in RunIds : runs[i].exists => i <= second
    /\ OneAtATime => /\ ~runs[second].exists
                     /\ \A b \in Audits : ~Running(b)
    /\ Becomes(a, [audit[a] EXCEPT !.pc = "source", !.id = second,
                                   !.download = download])
    /\ runs' = [runs EXCEPT ![second].exists = TRUE]
    /\ UNCHANGED <<head, snapshots, items, faults>>

InLoop(a) == At(a, "source") /\ audit[a].next <= Len(Inventory)

\* A local checkout is used as it is; the audit may fail on it.
AuditLocal(a) ==
    /\ InLoop(a)
    /\ Current(a) \in LocalRepos
    /\ \/ /\ Reports(a, Report("audited", 0, TRUE))
          /\ UNCHANGED faults
       \/ /\ Reports(a, Report("error", 0, FALSE))
          /\ Fails
    /\ UNCHANGED <<head, snapshots, runs, items>>

\* Without --download-missing there is nothing to audit.
SourceMissing(a) ==
    /\ InLoop(a)
    /\ ~audit[a].download
    /\ Current(a) \notin LocalRepos
    /\ Unavailable(a, IF Current(a) \in Private THEN "auth_required"
                                                ELSE "source_missing")
    /\ UNCHANGED <<head, snapshots, runs, items, faults>>

\* download_snapshot: without a token a private repository is refused ...
RefusePrivate(a) ==
    /\ InLoop(a)
    /\ audit[a].download
    /\ Current(a) \in Private \ LocalRepos
    /\ ~HasToken
    /\ Unavailable(a, NotAuthorized(Current(a)))
    /\ UNCHANGED <<head, snapshots, runs, items, faults>>

CanAsk(a) ==
    /\ InLoop(a)
    /\ audit[a].download
    /\ Current(a) \notin LocalRepos
    /\ Current(a) \in Private => HasToken

\* Mutant of ResolveHead: a directory that exists is taken for a snapshot.
ResolveByDirectory(a) ==
    /\ CanAsk(a)
    /\ LET c == head[Current(a)]
           known == snapshots[Current(a)][c] # NoSnapshot
       IN  Becomes(a, [audit[a] EXCEPT
                          !.commit = c,
                          !.pc = IF known THEN "scan" ELSE "download"])
    /\ UNCHANGED <<head, snapshots, runs, items, faults>>

\* Mutant of ResolveHead: the snapshot is always downloaded.
ResolveAlways(a) ==
    /\ CanAsk(a)
    /\ Becomes(a, [audit[a] EXCEPT !.commit = head[Current(a)],
                                   !.pc = "download"])
    /\ UNCHANGED <<head, snapshots, runs, items, faults>>

\* ... otherwise the head of the default branch names the snapshot, which is
\* used if its marker is there.
ResolveHead(a) ==
    /\ CanAsk(a)
    /\ LET c == head[Current(a)]
           known == snapshots[Current(a)][c].marked
       IN  Becomes(a, [audit[a] EXCEPT
                          !.commit = c,
                          !.pc = IF known THEN "scan" ELSE "download"])
    /\ UNCHANGED <<head, snapshots, runs, items, faults>>

\* GitHub does not name the head: it refuses, or answers what is no answer.
HeadUnavailable(a) ==
    /\ CanAsk(a)
    /\ \/ Unavailable(a, NotAuthorized(Current(a)))
       \/ Unavailable(a, "error")
    /\ Fails
    /\ UNCHANGED <<head, snapshots, runs, items>>

\* The zipball is fetched by the name of the commit.
Download(a) ==
    /\ At(a, "download")
    /\ Becomes(a, [audit[a] EXCEPT !.pc = "extract", !.todo = Files])
    /\ UNCHANGED <<head, snapshots, runs, items, faults>>

\* GitHub refuses it or it is too large; or the network fails, which is no
\* GitHubAccessError here.
DownloadFails(a) ==
    /\ At(a, "download")
    /\ \/ Unavailable(a, NotAuthorized(Current(a)))
       \/ Unavailable(a, "error")
    /\ Fails
    /\ UNCHANGED <<head, snapshots, runs, items>>

\* A member of the archive is opened for writing, which empties the file ...
OpenMember(a) ==
    /\ At(a, "extract")
    /\ \E f \in audit[a].todo :
          /\ Becomes(a, [audit[a] EXCEPT !.pc = "member", !.file = f])
          /\ Stores(a, [Snapshot(a) EXCEPT !.files[f] = "torn"])
    /\ UNCHANGED <<head, runs, items, faults>>

\* ... and is then filled.
WriteMember(a) ==
    /\ At(a, "member")
    /\ Becomes(a, [audit[a] EXCEPT !.pc = "extract", !.file = "none",
                                   !.todo = @ \ {audit[a].file}])
    /\ Stores(a, [Snapshot(a) EXCEPT !.files[audit[a].file] = "whole"])
    /\ UNCHANGED <<head, runs, items, faults>>

\* A bad member or a full disk: the directory stays as it is.
ExtractFails(a) ==
    /\ audit[a].pc \in {"extract", "member"}
    /\ Reports(a, Report("error", 0, FALSE))
    /\ Fails
    /\ UNCHANGED <<head, snapshots, runs, items>>

\* Mutant of Mark: the marker is written before the last member.
MarkEarly(a) ==
    /\ At(a, "extract")
    /\ \E f \in Files : audit[a].todo \subseteq {f}
    /\ Becomes(a, [audit[a] EXCEPT !.pc = "scan", !.todo = {}])
    /\ Stores(a, [Snapshot(a) EXCEPT !.marked = TRUE])
    /\ UNCHANGED <<head, runs, items, faults>>

\* The marker is written when every member is.
Mark(a) ==
    /\ At(a, "extract")
    /\ audit[a].todo = {}
    /\ Goes(a, "scan")
    /\ Stores(a, [Snapshot(a) EXCEPT !.marked = TRUE])
    /\ UNCHANGED <<head, runs, items, faults>>

\* audit_repository: the agents see the files that are there, and the
\* reviewer passes what they find.
Scan(a) ==
    /\ At(a, "scan")
    /\ \/ /\ Reports(a, Report("audited", audit[a].commit,
                                Whole(Snapshot(a))))
          /\ UNCHANGED faults
       \/ /\ Reports(a, Report("error", audit[a].commit, FALSE))
          /\ Fails
    /\ UNCHANGED <<head, snapshots, runs, items>>

\* Mutant of WriteReport: a private repository is tried until it is readable.
WriteReportUntilAuthorized(a) ==
    /\ At(a, "write")
    /\ LET readable == audit[a].report.status # "auth_required"
       IN  Becomes(a, [audit[a] EXCEPT
                          !.pc = "source",
                          !.next = IF readable THEN @ + 1 ELSE @,
                          !.commit = 0,
                          !.report = NoReport,
                          !.reports = IF readable
                                      THEN Append(@, audit[a].report)
                                      ELSE @])
    /\ Keeps(a, [Run(a) EXCEPT
           !.evidence.reports[Current(a)] = audit[a].report])
    /\ UNCHANGED <<head, snapshots, items, faults>>

\* Mutant of WriteReport: a repository without a source is left out.
WriteReportOfSource(a) ==
    /\ At(a, "write")
    /\ IF audit[a].report.status = "unavailable"
       THEN UNCHANGED runs
       ELSE Keeps(a, [Run(a) EXCEPT
                !.evidence.reports[Current(a)] = audit[a].report])
    /\ Becomes(a, [audit[a] EXCEPT !.pc = "source",
                                   !.next = @ + 1,
                                   !.commit = 0,
                                   !.report = NoReport,
                                   !.reports = Append(@, audit[a].report)])
    /\ UNCHANGED <<head, snapshots, items, faults>>

\* write_repository, and on to the next repository.
WriteReport(a) ==
    /\ At(a, "write")
    /\ Keeps(a, [Run(a) EXCEPT
           !.evidence.reports[Current(a)] = audit[a].report])
    /\ Becomes(a, [audit[a] EXCEPT !.pc = "source",
                                   !.next = @ + 1,
                                   !.commit = 0,
                                   !.report = NoReport,
                                   !.reports = Append(@, audit[a].report)])
    /\ UNCHANGED <<head, snapshots, items, faults>>

-----------------------------------------------------------------------------
(* The evidence of the run, and its ingestion                              *)

WriteInventory(a) ==
    /\ At(a, "source")
    /\ audit[a].next > Len(Inventory)
    /\ Goes(a, "portfolio")
    /\ Keeps(a, [Run(a) EXCEPT !.evidence.inventory = TRUE])
    /\ UNCHANGED <<head, snapshots, items, faults>>

WritePortfolio(a) ==
    /\ At(a, "portfolio")
    /\ Goes(a, "manifest")
    /\ Keeps(a, [Run(a) EXCEPT !.evidence.portfolio = audit[a].reports])
    /\ UNCHANGED <<head, snapshots, items, faults>>

\* The manifest hashes every file in the directory, and is written last; with
\* --create-work-items the run is ingested at once.
WriteManifest(a) ==
    /\ At(a, "manifest")
    /\ \E pc \in {"ingest", "done"} : Goes(a, pc)
    /\ Keeps(a, [Run(a) EXCEPT !.manifest = Run(a).evidence,
                               !.sealed = TRUE])
    /\ UNCHANGED <<head, snapshots, items, faults>>

\* A work item is identified by its repository, the commit and the finding; a
\* finding is real if the source it was made from was complete.
WorkItem(i, r) ==
    LET report == runs[i].evidence.reports[r]
    IN  [repository |-> r, commit |-> report.commit, real |-> report.whole]

\* ingest_run skips what is not audited and stores the others, one report
\* after the other, each item once.
Ingestable(i) ==
    {r \in Repos : runs[i].evidence.reports[r].status = "audited"}

Ingest(a) ==
    /\ At(a, "ingest")
    /\ \E r \in Ingestable(audit[a].id) :
          /\ WorkItem(audit[a].id, r) \notin items
          /\ items' = items \cup {WorkItem(audit[a].id, r)}
    /\ UNCHANGED <<head, snapshots, runs, audit, faults>>

Finish(a) ==
    /\ At(a, "ingest")
    /\ \A r \in Ingestable(audit[a].id) : WorkItem(audit[a].id, r) \in items
    /\ Goes(a, "done")
    /\ UNCHANGED <<head, snapshots, runs, items, faults>>

\* "workflow ingest" on the directory of a run, finished or not: it needs the
\* portfolio, and reads whatever reports are there.
IngestAgain(i) ==
    /\ runs[i].evidence.portfolio # <<>>
    /\ \E r \in Ingestable(i) :
          /\ WorkItem(i, r) \notin items
          /\ items' = items \cup {WorkItem(i, r)}
    /\ UNCHANGED <<head, snapshots, runs, audit, faults>>

-----------------------------------------------------------------------------
(* The environment                                                         *)

Die(a) ==
    /\ Running(a)
    /\ Goes(a, "dead")
    /\ Fails
    /\ UNCHANGED <<head, snapshots, runs, items>>

HeadMoves(r) ==
    /\ head[r] <= MaxMoves
    /\ head' = [head EXCEPT ![r] = @ + 1]
    /\ UNCHANGED <<snapshots, runs, items, audit, faults>>

Step(a) ==
    \/ AuditLocal(a) \/ SourceMissing(a) \/ RefusePrivate(a)
    \/ ResolveHead(a) \/ HeadUnavailable(a)
    \/ Download(a) \/ DownloadFails(a)
    \/ OpenMember(a) \/ WriteMember(a) \/ ExtractFails(a) \/ Mark(a)
    \/ Scan(a) \/ WriteReport(a)
    \/ WriteInventory(a) \/ WritePortfolio(a) \/ WriteManifest(a)
    \/ Ingest(a) \/ Finish(a)

Next ==
    \/ \E a \in Audits :
          \/ \E second \in RunIds, download \in BOOLEAN :
                Start(a, second, download)
          \/ Step(a)
          \/ Die(a)
    \/ \E i \in RunIds : IngestAgain(i)
    \/ \E r \in Repos : HeadMoves(r)

Spec == Init /\ [][Next]_vars

\* Every request and every subprocess of the loop has a timeout, so an audit
\* that is not killed goes on.
FairSpec == Spec /\ \A a \in Audits : WF_vars(Step(a))

-----------------------------------------------------------------------------
(* Properties                                                              *)

Reported == [status : Statuses \cup {"none"}, commit : {0} \cup Commits,
             whole : BOOLEAN]

Snapshots == [files : [Files -> {"absent", "torn", "whole"}],
              marked : BOOLEAN]

Evidence == [reports : [Repos -> Reported], inventory : BOOLEAN,
             portfolio : Seq(Reported)]

PCs == {"new", "source", "download", "extract", "member", "scan", "write",
        "portfolio", "manifest", "ingest", "done", "dead"}

Locals == [pc : PCs, id : {0} \cup RunIds, download : BOOLEAN,
           next : 1..(Len(Inventory) + 1), commit : {0} \cup Commits,
           todo : SUBSET Files, file : Files \cup {"none"},
           report : Reported, reports : Seq(Reported)]

\* Snapshots, run directories, work items and audits keep their shape; no report
\* has a status that the report schema does not know.
TypeOK ==
    /\ head \in [Repos -> Commits]
    /\ snapshots \in [Repos -> [Commits -> Snapshots]]
    /\ runs \in [RunIds -> [evidence : Evidence, manifest : Evidence,
                            sealed : BOOLEAN, exists : BOOLEAN]]
    /\ items \subseteq [repository : Repos, commit : {0} \cup Commits,
                        real : BOOLEAN]
    /\ audit \in [Audits -> Locals]
    /\ faults \in 0..MaxFaults

\* The marker is what later audits trust: whatever died or failed before, a
\* snapshot that bears it is the complete tree of its commit.
MarkedIsWhole ==
    \A r \in Repos, c \in Commits :
        snapshots[r][c].marked => Whole(snapshots[r][c])

\* A snapshot is immutable: once it is complete no audit writes to it again.
SnapshotsStay ==
    [][\A r \in Repos, c \in Commits :
          snapshots[r][c].marked => snapshots'[r][c] = snapshots[r][c]]_vars

\* No work item asks for the repair of something a half-written snapshot made
\* up: what is ingested, at once or later, finished run or not, was found in
\* a complete source.
ItemsAreReal == \A item \in items : item.real

\* A manifest that is there seals a complete run, and nothing of it has changed
\* since: a report of every repository of the inventory, also of one that could
\* not be had, and the portfolio that repeats them in order.  A run that died has
\* no manifest.
ManifestIsTrue ==
    \A i \in RunIds :
        runs[i].sealed =>
            LET evidence == runs[i].evidence
            IN  /\ runs[i].manifest = evidence
                /\ evidence.inventory
                /\ Len(evidence.portfolio) = Len(Inventory)
                /\ \A k \in DOMAIN Inventory :
                      /\ evidence.portfolio[k].status \in Statuses
                      /\ evidence.reports[Inventory[k]] = evidence.portfolio[k]

\* An audit gets through the inventory unless it is killed, whatever each
\* repository does to it.
AuditEnds ==
    \A a \in Audits : Running(a) ~> audit[a].pc \in {"done", "dead"}
=============================================================================
