------------------------------- MODULE Frontends -------------------------------
(***************************************************************************)
(* The frontend service: rows of `frontends` and `frontend_versions` in    *)
(* the database, and one directory of files per version under the bucket   *)
(* "frontends".  The database and the file system share no transaction, so *)
(* every statement and every file operation is a step, and the steps of    *)
(* two requests interleave.                                                *)
(*                                                                         *)
(* Names, labels and descriptions are left out, and Update, which changes  *)
(* nothing else, with them.  An uploaded archive is the list of the names  *)
(* of its files, as the ZIP gives them: two may clean to the same path, and*)
(* one may lead out of the directory.  Directory entries, which are        *)
(* skipped, are not in the list.                                           *)
(***************************************************************************)
EXTENDS Naturals, Sequences

CONSTANTS
    FrontendIds, VersionIds,   \* what newID may return, each value once
    Slugs,                     \* URL names
    ZipNames,                  \* names a ZIP archive may give to a file
    Entries,                   \* cleaned names, under which files are stored
    cleanName,                 \* ZIP name |-> cleaned name, None if it leads out
    Archives,                  \* the archives uploaded: lists of ZIP names
    Procs,                     \* concurrent requests
    None,                      \* no active version, no archive (NULL)
    MaxCalls,                  \* bound on the requests after the Creates
    MaxFaults                  \* bound on failing steps and restarts

VARIABLES
    frontends,  \* table frontends: id |-> slug and active_version_id
    versions,   \* table frontend_versions: id |-> frontend_id and file_count
    files,      \* stored objects <<frontend, version, entry>>
    req,        \* the request each process serves, "idle" between two
    calls,      \* requests begun
    faults,     \* faults so far
    uploads,    \* history: the frontend and the archive of each version id
    removed,    \* history: versions whose own directory a delete has emptied
    stray,      \* history: versions whose directory a broken call leaves behind
    loose       \* history: versions whose deletion an activation may outlive

vars == <<frontends, versions, files, req, calls, faults,
          uploads, removed, stray, loose>>
history == <<uploads, removed, stray, loose>>

Idle == [at |-> "idle"]
Version == [frontend_id : FrontendIds, file_count : Nat]

\* Where a request stands: the step it takes next, and what it holds.
Request ==
    {Idle}
    \cup [at : {"put"}, f : FrontendIds, v : VersionIds,
          rest : Seq(ZipNames), count : Nat]
    \cup [at : {"list"}, f : FrontendIds]
    \cup [at : {"wipe"}, f : FrontendIds, listed : SUBSET VersionIds,
          rest : SUBSET VersionIds]
    \cup [at : {"get"}, f : FrontendIds]
    \cup [at : {"remove", "row", "clear", "check", "activate"},
          f : FrontendIds, v : VersionIds]

Init ==
    /\ frontends = [f \in {} |-> None]
    /\ versions = [v \in {} |-> None]
    /\ files = {}
    /\ req = [p \in Procs |-> Idle]
    /\ calls = 0 /\ faults = 0
    /\ uploads = [v \in VersionIds |-> None]
    /\ removed = {} /\ stray = {} /\ loose = {}

Directory(f, v) == {f} \X {v} \X Entries
Stored(f, v) == {e \in Entries : <<f, v, e>> \in files}
VersionsOf(f) == {v \in DOMAIN versions : versions[v].frontend_id = f}
At(p, step) == req[p].at = step
Go(p, r) == req' = [req EXCEPT ![p] = r]
Without(table, keys) == [k \in DOMAIN table \ keys |-> table[k]]

-----------------------------------------------------------------------------
(* Requests.                                                               *)

\* Ids are random: one that was used is not drawn again.
Fresh(f) == /\ f \notin DOMAIN frontends
            /\ \A v \in VersionIds : uploads[v] # None => uploads[v].frontend # f
            /\ \A p \in Procs : ~At(p, "idle") => req[p].f # f

\* Create: one INSERT, refused when the slug is taken.
Create(f, slug) ==
    /\ Fresh(f)
    /\ \A g \in DOMAIN frontends : frontends[g].slug # slug
    /\ frontends' = [g \in DOMAIN frontends \cup {f} |->
                       IF g = f THEN [slug |-> slug, active |-> None]
                                ELSE frontends[g]]
    /\ UNCHANGED <<versions, files, req, calls, faults, history>>

\* A request of the management API starts at its first step.
Begin(p, r) ==
    /\ At(p, "idle")
    /\ calls < MaxCalls
    /\ calls' = calls + 1
    /\ Go(p, r)
    /\ UNCHANGED <<frontends, versions, files, faults, history>>

-----------------------------------------------------------------------------
(* CreateVersion: the handler looks the frontend up, the service stores    *)
(* the files one by one and inserts the row last.                          *)

upload(p) ==
    /\ At(p, "get")
    /\ \/ /\ req[p].f \notin DOMAIN frontends
          /\ Go(p, Idle)
          /\ UNCHANGED uploads
       \/ /\ req[p].f \in DOMAIN frontends
          /\ \E v \in VersionIds, archive \in Archives :
               /\ uploads[v] = None
               /\ uploads' = [uploads EXCEPT ![v] =
                                [frontend |-> req[p].f, archive |-> archive]]
               /\ Go(p, [at |-> "put", f |-> req[p].f, v |-> v,
                         rest |-> archive, count |-> 0])
    /\ UNCHANGED <<frontends, versions, files, calls, faults,
                   removed, stray, loose>>

\* The next file of the archive is stored under its cleaned name, over the one
\* that an earlier file of the same cleaned name left, and counted in any case.
putFile(p) ==
    /\ At(p, "put")
    /\ req[p].rest # <<>>
    /\ LET e == cleanName[Head(req[p].rest)]
       IN /\ e # None
          /\ files' = files \cup {<<req[p].f, req[p].v, e>>}
    /\ Go(p, [req[p] EXCEPT !.rest = Tail(@), !.count = @ + 1])
    /\ UNCHANGED <<frontends, versions, calls, faults, history>>

\* A name that leads out of the directory ends the request with an error; the
\* files before it stay.
invalidPath(p) ==
    /\ At(p, "put")
    /\ req[p].rest # <<>>
    /\ cleanName[Head(req[p].rest)] = None
    /\ stray' = stray \cup {req[p].v}
    /\ Go(p, Idle)
    /\ UNCHANGED <<frontends, versions, files, calls, faults,
                   uploads, removed, loose>>

\* Mutant of AllStored: the row is inserted after the first file.
AllStored_First(r) == r.count > 0

\* All the files are stored: the row follows, if there was a file at all and
\* the frontend is still there for the foreign key.
AllStored(r) == r.rest = <<>>

insertVersion(p) ==
    /\ At(p, "put")
    /\ AllStored(req[p])
    /\ LET r == req[p]
           inserts == r.count > 0 /\ r.f \in DOMAIN frontends
       IN /\ versions' =
               IF inserts
               THEN [v \in DOMAIN versions \cup {r.v} |->
                       IF v = r.v
                       THEN [frontend_id |-> r.f, file_count |-> r.count]
                       ELSE versions[v]]
               ELSE versions
          /\ stray' = IF inserts THEN stray ELSE stray \cup {r.v}
    /\ Go(p, Idle)
    /\ UNCHANGED <<frontends, files, calls, faults, uploads, removed, loose>>

-----------------------------------------------------------------------------
(* Delete: list the versions, empty their directories, delete the row.     *)
(* The versions' rows go by the cascade, listed or not.                    *)

listVersions(p) ==
    /\ At(p, "list")
    /\ LET own == VersionsOf(req[p].f)
       IN Go(p, [at |-> "wipe", f |-> req[p].f, listed |-> own, rest |-> own])
    /\ UNCHANGED <<frontends, versions, files, calls, faults, history>>

wipeVersion(p) ==
    /\ At(p, "wipe")
    /\ \E v \in req[p].rest :
         /\ files' = files \ Directory(req[p].f, v)
         /\ removed' = removed \cup {v}
         /\ Go(p, [req[p] EXCEPT !.rest = @ \ {v}])
    /\ UNCHANGED <<frontends, versions, calls, faults, uploads, stray, loose>>

deleteFrontend(p) ==
    /\ At(p, "wipe")
    /\ req[p].rest = {}
    /\ frontends' = Without(frontends, {req[p].f})
    /\ versions' = Without(versions, VersionsOf(req[p].f))
    /\ stray' = stray \cup (VersionsOf(req[p].f) \ req[p].listed)
    /\ Go(p, Idle)
    /\ UNCHANGED <<files, calls, faults, uploads, removed, loose>>

-----------------------------------------------------------------------------
(* DeleteVersion: the directory named by the URL, then the row by its id   *)
(* alone, then the frontend's pointer.                                     *)

Owned(r) == uploads[r.v] # None /\ uploads[r.v].frontend = r.f

removeFiles(p) ==
    /\ At(p, "remove")
    /\ files' = files \ Directory(req[p].f, req[p].v)
    /\ removed' = IF Owned(req[p]) THEN removed \cup {req[p].v} ELSE removed
    /\ Go(p, [req[p] EXCEPT !.at = "row"])
    /\ UNCHANGED <<frontends, versions, calls, faults, uploads, stray, loose>>

\* An activation that has already checked v may still point the frontend at
\* it, and a URL naming another frontend leaves files and pointer behind.
deleteRow(p) ==
    /\ At(p, "row")
    /\ LET v == req[p].v
           raced == \E q \in Procs : At(q, "activate") /\ req[q].v = v
       IN /\ versions' = Without(versions, {v})
          /\ loose' = IF raced \/ ~Owned(req[p]) THEN loose \cup {v} ELSE loose
          /\ stray' = IF Owned(req[p]) THEN stray ELSE stray \cup {v}
    /\ Go(p, [req[p] EXCEPT !.at = "clear"])
    /\ UNCHANGED <<frontends, files, calls, faults, uploads, removed>>

clearActive(p) ==
    /\ At(p, "clear")
    /\ frontends' = [f \in DOMAIN frontends |->
                       IF f = req[p].f /\ frontends[f].active = req[p].v
                       THEN [frontends[f] EXCEPT !.active = None]
                       ELSE frontends[f]]
    /\ Go(p, Idle)
    /\ UNCHANGED <<versions, files, calls, faults, history>>

-----------------------------------------------------------------------------
(* ActivateVersion: the handler checks that the version is there and is    *)
(* the frontend's own, and the service then sets the pointer.              *)

\* Mutant of Activatable: any version will do.
Activatable_AnyOwner(r) == r.v \in DOMAIN versions

Activatable(r) ==
    /\ r.v \in DOMAIN versions
    /\ versions[r.v].frontend_id = r.f

checkVersion(p) ==
    /\ At(p, "check")
    /\ Go(p, IF Activatable(req[p]) THEN [req[p] EXCEPT !.at = "activate"]
                                    ELSE Idle)
    /\ UNCHANGED <<frontends, versions, files, calls, faults, history>>

activate(p) ==
    /\ At(p, "activate")
    /\ frontends' = [f \in DOMAIN frontends |->
                       IF f = req[p].f
                       THEN [frontends[f] EXCEPT !.active = req[p].v]
                       ELSE frontends[f]]
    /\ Go(p, Idle)
    /\ UNCHANGED <<versions, files, calls, faults, history>>

-----------------------------------------------------------------------------
(* A step fails and its request returns the error (P = {p}: an unreadable  *)
(* entry, a statement, a file operation), or the process stops (P = Procs).*)

Cut(P) ==
    /\ faults < MaxFaults
    /\ \E p \in P : ~At(p, "idle")
    /\ faults' = faults + 1
    /\ req' = [p \in Procs |-> IF p \in P THEN Idle ELSE req[p]]
    /\ stray' = stray \cup {req[p].v : p \in {q \in P : At(q, "put")}}
    /\ loose' = loose \cup {req[p].v : p \in {q \in P : At(q, "clear")}}
    /\ UNCHANGED <<frontends, versions, files, calls, uploads, removed>>

\* The requests the router sends to the service.  A version id in a URL is one
\* that a row has, or had until a delete took it: the id of an upload is only
\* told once its row is there.
Known == DOMAIN versions \cup removed \cup loose

Requests(p) ==
    \E f \in FrontendIds :
      \/ Begin(p, [at |-> "get", f |-> f])
      \/ Begin(p, [at |-> "list", f |-> f])
      \/ \E v \in Known : \/ Begin(p, [at |-> "remove", f |-> f, v |-> v])
                          \/ Begin(p, [at |-> "check", f |-> f, v |-> v])

Step(p) ==
    \/ upload(p) \/ putFile(p) \/ invalidPath(p) \/ insertVersion(p)
    \/ listVersions(p) \/ wipeVersion(p) \/ deleteFrontend(p)
    \/ removeFiles(p) \/ deleteRow(p) \/ clearActive(p)
    \/ checkVersion(p) \/ activate(p)

Next ==
    \/ \E f \in FrontendIds, slug \in Slugs : Create(f, slug)
    \/ \E p \in Procs : Requests(p) \/ Step(p) \/ Cut({p})
    \/ Cut(Procs)

Spec == Init /\ [][Next]_vars

-----------------------------------------------------------------------------
(* Properties.                                                             *)

FrontendsTypeOK ==
    /\ \E D \in SUBSET FrontendIds :
         frontends \in [D -> [slug : Slugs, active : VersionIds \cup {None}]]
    /\ \E D \in SUBSET VersionIds : versions \in [D -> Version]
    /\ files \subseteq FrontendIds \X VersionIds \X Entries
    /\ req \in [Procs -> Request]
    /\ calls \in Nat /\ faults \in Nat
    /\ uploads \in [VersionIds -> {None} \cup
                      [frontend : FrontendIds, archive : Archives]]
    /\ removed \subseteq VersionIds
    /\ stray \subseteq VersionIds
    /\ loose \subseteq VersionIds

\* A version in the list has every file of the archive it was uploaded from,
\* under its cleaned name, and nothing else; its row counts the files of the
\* archive, more than are stored when two names clean alike.  Both hold from
\* the moment the version appears until a delete of it starts: CreateVersion
\* inserts the row after the last file.  And a stored file belongs to a
\* version in the list or to an upload under way, unless the archive or a step
\* failed, a frontend went away under an upload, or a URL named a frontend
\* that does not own the version.
CleanedNames(archive) == {cleanName[archive[i]] : i \in DOMAIN archive}
Storing(v) == \E p \in Procs : At(p, "put") /\ req[p].v = v

DirectoriesMatchRows ==
    /\ \A v \in DOMAIN versions \ removed :
         LET owner == versions[v].frontend_id
         IN /\ Stored(owner, v) = CleanedNames(uploads[v].archive)
            /\ versions[v].file_count = Len(uploads[v].archive)
    /\ \A file \in files :
         file[2] \in DOMAIN versions \cup stray \/ Storing(file[2])

\* A frontend serves one of its own versions, never another frontend's, and
\* one that is still in the list, except while the delete that took the row
\* is about to clear the pointer, or when that delete was cut off there, was
\* overtaken by an activation already past its check, or named another
\* frontend in its URL.
Clearing(f, v) == \E p \in Procs : At(p, "clear") /\ req[p].f = f /\ req[p].v = v

ActiveIsOwnVersion ==
    \A f \in DOMAIN frontends :
      LET v == frontends[f].active
      IN v # None =>
           /\ uploads[v] # None /\ uploads[v].frontend = f
           /\ v \in DOMAIN versions \cup loose \/ Clearing(f, v)
=============================================================================
