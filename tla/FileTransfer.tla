------------------------------ MODULE FileTransfer ------------------------------
(***************************************************************************)
(* A file of a shared folder, uploaded and downloaded by peers while the   *)
(* configuration moves the folder (src/fsroot.mjs, the file routes of      *)
(* src/server.mjs, src/client.mjs, pullFile and pushFile of src/ops.mjs).  *)
(* An upload writes a temporary file and renames it; a download resolves   *)
(* the folder, takes the size, resolves it again, hashes the file, and     *)
(* streams it.  All requests share the cache of the folder's real path.    *)
(***************************************************************************)
EXTENDS Integers, FiniteSets, Sequences, SequencesExt

CONSTANTS
  Dir,         \* directories the root may be configured to
  Transfer,    \* requests in progress at once (bound)
  MaxUploads,  \* (bound)
  MaxMoves     \* changes of the configuration (bound)

ASSUME FilesAssumption == {MaxUploads, MaxMoves} \subseteq Nat /\ Dir # {}

VARIABLES
  root,     \* the configured directory, NoDir when the root is gone or its flags or
            \* its deny list refuse the path
  real,     \* _real: the cached real path, NoDir when there is none
  inode,    \* the contents of every file there was, as versions of its blocks
  file,     \* the file in each directory: an inode
  part,     \* the temporary file in each directory: an inode, 0 for none
  req,      \* the requests
  target,   \* the file all downloads are saved to, and the download that opened it last
  uploads,
  moves,
  overlap,  \* two uploads have written one temporary file (history)
  mixed     \* two downloads have written the target at once (history)

fileVars == <<root, real, inode, file, part, req, target, uploads, moves, overlap, mixed>>

NoDir == "-"
NoReq == [pc |-> "idle", path |-> NoDir, dir |-> NoDir, abs |-> NoDir, next |-> "idle",
          version |-> 0, fd |-> 0, size |-> 0, sha |-> <<>>, got |-> <<>>, verified |-> FALSE]

\* Versions differ in their length.
Body(u) == [i \in 1 .. 1 + (u % 2) |-> u]

FilesInit ==
  /\ root = (CHOOSE d \in Dir : TRUE) /\ real = NoDir
  /\ inode = <<Body(0)>>
  /\ file = [d \in Dir |-> 1] /\ part = [d \in Dir |-> 0]
  /\ req = [r \in Transfer |-> NoReq]
  /\ target = [by |-> 0, body |-> <<>>]
  /\ uploads = 0 /\ moves = 0
  /\ overlap = FALSE /\ mixed = FALSE

-----------------------------------------------------------------------------
UnchangedFiles == UNCHANGED <<inode, file, part, uploads, overlap>>

Becomes(r, new) == req' = [req EXCEPT ![r] = new]

End(r, how) == Becomes(r, [NoReq EXCEPT !.pc = how])

\* The checks and the cache of _realRoot; `next` is what follows the resolution.
resolve(r, q, next) ==
  IF root = NoDir THEN End(r, "failed")
  ELSE IF real # NoDir THEN Becomes(r, [q EXCEPT !.pc = next, !.dir = real])
  ELSE Becomes(r, [q EXCEPT !.pc = "realpath", !.path = root, !.next = next])

\* The real path is cached when it comes, whatever the configuration is by then.
_realRoot(r) ==
  /\ req[r].pc = "realpath"
  /\ real' = req[r].path
  /\ Becomes(r, [req[r] EXCEPT !.pc = req[r].next, !.dir = req[r].path, !.path = NoDir])
  /\ UnchangedFiles /\ UNCHANGED <<root, target, moves, mixed>>

reconfigureRoots(d) == root' = d /\ real' = NoDir

reconfigureFiles(d) ==
  /\ moves < MaxMoves /\ d # root
  /\ moves' = moves + 1
  /\ reconfigureRoots(d)
  /\ UnchangedFiles /\ UNCHANGED <<req, target, mixed>>

Free(r) == req[r].pc \in {"idle", "done", "failed"}

-----------------------------------------------------------------------------
\* A peer has read its file and sends it in one body.
pushFile(r) ==
  /\ Free(r) /\ uploads < MaxUploads
  /\ uploads' = uploads + 1

\* The body is too large or does not come to its end; or writeFile resolves the root.
upload(r) ==
  /\ pushFile(r)
  /\ \/ End(r, "failed")
     \/ resolve(r, [NoReq EXCEPT !.version = uploads'], "open")
  /\ UNCHANGED <<root, real, inode, file, part, target, moves, overlap, mixed>>

\* Mutant: the file itself is opened.
writeOpenInPlace(r) ==
  LET d == req[r].dir IN
  /\ req[r].pc = "open"
  /\ inode' = [inode EXCEPT ![file[d]] = <<>>]
  /\ Becomes(r, [req[r] EXCEPT !.pc = "write", !.fd = file[d]])
  /\ UNCHANGED <<root, real, file, part, target, uploads, moves, overlap, mixed>>

\* The temporary file is opened: one that exists is emptied.
writeOpen(r) ==
  LET d == req[r].dir IN
  /\ req[r].pc = "open"
  /\ IF part[d] = 0
     THEN inode' = Append(inode, <<>>) /\ part' = [part EXCEPT ![d] = Len(inode')]
     ELSE inode' = [inode EXCEPT ![part[d]] = <<>>] /\ UNCHANGED part
  /\ overlap' = (overlap \/ part[d] # 0)
  /\ Becomes(r, [req[r] EXCEPT !.pc = "write", !.fd = part'[d]])
  /\ UNCHANGED <<root, real, file, target, uploads, moves, mixed>>

Overwrite(old, new) == new \o SubSeq(old, Len(new) + 1, Len(old))

writeFile(r) ==
  /\ req[r].pc = "write"
  /\ inode' = [inode EXCEPT ![req[r].fd] = Overwrite(@, Body(req[r].version))]
  /\ Becomes(r, [req[r] EXCEPT !.pc = "rename"])
  /\ UNCHANGED <<root, real, file, part, target, uploads, moves, overlap, mixed>>

writeRename(r) ==
  LET d == req[r].dir IN
  /\ req[r].pc = "rename"
  /\ IF part[d] = 0 THEN End(r, "failed") /\ UNCHANGED <<file, part>>
     ELSE /\ file' = [file EXCEPT ![d] = part[d]]
          /\ part' = [part EXCEPT ![d] = 0]
          /\ End(r, "done")
  /\ UNCHANGED <<root, real, inode, target, uploads, moves, overlap, mixed>>

-----------------------------------------------------------------------------
\* A peer pulls the file, to save it where all of them do: openRead resolves the root.
download(r) ==
  /\ Free(r)
  /\ resolve(r, NoReq, "stat")
  /\ UnchangedFiles /\ UNCHANGED <<root, real, target, moves, mixed>>

Content(d) == inode[file[d]]

\* A node pulls from itself: the file is read in one piece, which counts as verified.
pullOwn(r) ==
  /\ Free(r)
  /\ resolve(r, NoReq, "own")
  /\ UnchangedFiles /\ UNCHANGED <<root, real, target, moves, mixed>>

\* openRead takes the size; hashFile resolves the root by its name again.
openRead(r) ==
  /\ req[r].pc = "stat"
  /\ LET d == req[r].dir IN
     resolve(r, [req[r] EXCEPT !.abs = d, !.size = Len(Content(d))], "hash")
  /\ UnchangedFiles /\ UNCHANGED <<root, real, target, moves, mixed>>

hashFile(r) ==
  /\ req[r].pc = "hash"
  /\ Becomes(r, [req[r] EXCEPT !.pc = "stream", !.sha = Content(req[r].dir)])
  /\ UnchangedFiles /\ UNCHANGED <<root, real, target, moves, mixed>>

\* The target is opened, and empty.
Opened(r) ==
  /\ target' = [by |-> r, body |-> <<>>]
  /\ mixed' = (mixed \/ \E q \in Transfer : req[q].pc = "save")

\* The file is opened once more and streamed, as many blocks as were announced; the
\* peer opens its target.
stream(r) ==
  LET body == Content(req[r].abs)
      n == IF Len(body) < req[r].size THEN Len(body) ELSE req[r].size
  IN
  /\ req[r].pc = "stream"
  /\ Opened(r)
  /\ Becomes(r, [req[r] EXCEPT !.pc = "save", !.got = SubSeq(body, 1, n)])
  /\ UnchangedFiles /\ UNCHANGED <<root, real, moves>>

readOwn(r) ==
  LET body == Content(req[r].dir) IN
  /\ req[r].pc = "own"
  /\ Opened(r)
  /\ Becomes(r, [req[r] EXCEPT !.pc = "save", !.size = Len(body), !.sha = body, !.got = body])
  /\ UnchangedFiles /\ UNCHANGED <<root, real, moves>>

\* Mutant: the length is compared, not the hash.
verifiedByLength(q) == Len(q.got) = Len(q.sha)

verified(q) == q.got = q.sha

\* What arrives is written; less than was announced fails.
save(r) ==
  LET q == req[r] IN
  /\ q.pc = "save"
  /\ target' = [target EXCEPT !.body = Overwrite(@, q.got)]
  /\ IF Len(q.got) < q.size THEN End(r, "failed")
     ELSE Becomes(r, [q EXCEPT !.pc = "done", !.verified = verified(q)])
  /\ UnchangedFiles /\ UNCHANGED <<root, real, moves, mixed>>

\* A request times out or its peer goes away; an upload that has begun goes on.
giveUp(r) ==
  /\ req[r].pc \in {"realpath", "own", "stat", "hash", "stream", "save"} /\ req[r].version = 0
  /\ End(r, "failed")
  /\ UnchangedFiles /\ UNCHANGED <<root, real, target, moves, mixed>>

FilesNext ==
  \/ \E r \in Transfer :
       \/ _realRoot(r) \/ upload(r) \/ writeOpen(r) \/ writeFile(r) \/ writeRename(r)
       \/ pullOwn(r) \/ readOwn(r) \/ download(r) \/ openRead(r) \/ hashFile(r) \/ stream(r) \/ save(r) \/ giveUp(r)
  \/ \E d \in Dir \cup {NoDir} : reconfigureFiles(d)

FilesSpec == FilesInit /\ [][FilesNext]_fileVars

-----------------------------------------------------------------------------
\* Whatever uploads are in progress, a reader finds one whole version, unless two of
\* them have written the temporary file of a directory at once (writeFile).
FilesAreWhole == ~overlap => \A d \in Dir : \E u \in 0 .. uploads : Content(d) = Body(u)

\* A download that is reported verified has saved what the node has hashed, although
\* the file, or the folder, may be another at each of its three reads; unless two
\* downloads were saved to one target at once (download, hashFile).
VerifiedIsSaved ==
  \A r \in Transfer :
    req[r].pc = "done" /\ req[r].verified /\ target.by = r /\ ~mixed => target.body = req[r].sha

\* docs/PROTOCOL.md:37-38: "shared roots changed by the CLI take effect immediately".  A
\* request that begins, and takes the folder from the cache, takes the configured one.
\* A resolution that is under way while the configuration changes puts the old one back.
RootIsCurrent ==
  [][\A r \in Transfer :
       Free(r) /\ req'[r].pc \in {"open", "own", "stat"} => req'[r].dir = root]_fileVars
=============================================================================
