------------------------------ MODULE FileProofs ------------------------------
(***************************************************************************)
(* Proofs about FileTransfer, for any number of directories, of requests   *)
(* in progress, of uploads and of changes of the configuration.            *)
(***************************************************************************)
EXTENDS FileTransfer, SequenceTheorems, TLAPS

\* The steps of an upload and of a download behind the resolution of the root.
UploadPc == {"open", "write", "rename"}
DownloadPc == {"own", "stat", "hash", "stream"}
FilePc == UploadPc \cup DownloadPc \cup {"idle", "realpath", "save", "done", "failed"}

Request ==
  [pc : FilePc, path : Dir \cup {NoDir}, dir : Dir \cup {NoDir}, abs : Dir \cup {NoDir},
   next : FilePc, version : Nat, fd : Nat, size : Nat, sha : Seq(Nat), got : Seq(Nat),
   verified : BOOLEAN]

\* What a request has resolved before it uses it.
Resolved(q) ==
  /\ q.pc \in UploadPc \cup DownloadPc => q.dir \in Dir
  /\ q.pc \in {"hash", "stream"} \/ (q.pc = "realpath" /\ q.next = "hash") => q.abs \in Dir
  /\ q.pc = "realpath" => q.path \in Dir /\ q.next \in {"open", "own", "stat", "hash"}
  /\ q.pc \in UploadPc \/ (q.pc = "realpath" /\ q.next = "open") => q.version \in 1 .. uploads

\* What the variables hold.
FilesTypeOK ==
  /\ root \in Dir \cup {NoDir} /\ real \in Dir \cup {NoDir}
  /\ inode \in Seq(Seq(Nat))
  /\ file \in [Dir -> DOMAIN inode] /\ part \in [Dir -> DOMAIN inode \cup {0}]
  /\ req \in [Transfer -> Request]
  /\ \A r \in Transfer : Resolved(req[r])
  /\ target \in [by : Transfer \cup {0}, body : Seq(Nat)]
  /\ uploads \in Nat /\ moves \in Nat
  /\ overlap \in BOOLEAN /\ mixed \in BOOLEAN

\* The upload that has the temporary file of directory d.
HasPart(r, d) == req[r].pc \in {"write", "rename"} /\ req[r].dir = d

\* What the temporary file of an upload holds before and behind its write.
PartHolds(q) ==
  /\ q.pc \in {"write", "rename"} => q.fd # 0 /\ part[q.dir] = q.fd
  /\ q.pc = "write" => inode[q.fd] = <<>>
  /\ q.pc = "rename" => inode[q.fd] = Body(q.version)

\* A temporary file is no directory's file, belongs to one directory, and is written
\* by one upload; so what is renamed over the file is a whole version.
PartsApart ==
  ~overlap =>
    /\ \A d, e \in Dir : part[d] # 0 => part[d] # file[e] /\ (d # e => part[d] # part[e])
    /\ \A r \in Transfer : PartHolds(req[r])
    /\ \A q, r \in Transfer : \A d \in Dir : HasPart(q, d) /\ HasPart(r, d) => q = r

\* The one download that is being saved opened the target last, and it is still empty.
OneSaves ==
  ~mixed => \A r \in Transfer : req[r].pc = "save" => target.by = r /\ target.body = <<>>

FilesInvariant ==
  FilesTypeOK /\ PartsApart /\ FilesAreWhole /\ OneSaves /\ VerifiedIsSaved

-----------------------------------------------------------------------------
(* What is read, written and asked for.                                    *)

\* A version of the file is a sequence of blocks.
LEMMA BodyType == ASSUME NEW u \in Nat PROVE Body(u) \in Seq(Nat)
<1>1. u % 2 \in Nat /\ 1 + (u % 2) \in Nat
  OBVIOUS
<1>2. [i \in 1 .. 1 + (u % 2) |-> u] \in Seq(Nat)
  BY <1>1
<1>3. QED BY <1>2 DEF Body

\* What is written over a sequence of blocks is one again.
LEMMA OverwriteType ==
  ASSUME NEW old \in Seq(Nat), NEW new \in Seq(Nat)
  PROVE  Overwrite(old, new) \in Seq(Nat)
<1>1. SubSeq(old, Len(new) + 1, Len(old)) \in Seq(Nat)
  BY SubSeqProperties
<1>2. QED BY <1>1 DEF Overwrite

\* What is written into an empty file is all that it holds.
LEMMA OverwriteEmpty ==
  ASSUME NEW new \in Seq(Nat)
  PROVE  Overwrite(<<>>, new) = new
<1>1. <<>> \in Seq(Nat) /\ Len(new) \in Nat /\ Len(<<>>) = 0
  OBVIOUS
<1>2. SubSeq(<<>>, Len(new) + 1, Len(<<>>)) = <<>>
  BY <1>1, SubSeqEmpty
<1>3. new \o <<>> = new
  BY ConcatEmptySeq
<1>4. QED BY <1>2, <1>3 DEF Overwrite

\* A request that begins or has ended asks for nothing.
LEMMA NoReqType ==
  /\ NoReq \in Request /\ NoReq.version = 0
  /\ \A how \in {"done", "failed"} :
       /\ [NoReq EXCEPT !.pc = how] \in Request
       /\ [NoReq EXCEPT !.pc = how].pc = how /\ ~[NoReq EXCEPT !.pc = how].verified
<1>1. NoReq \in Request /\ NoReq.version = 0 /\ NoReq.verified = FALSE
  <2>1. <<>> \in Seq(Nat)
    OBVIOUS
  <2>2. QED BY <2>1 DEF NoReq, Request, FilePc
<1>2. {"done", "failed"} \subseteq FilePc
  BY DEF FilePc
<1>3. QED BY <1>1, <1>2 DEF Request

\* A step of one request leaves the others as they are.
LEMMA OneBecomes ==
  ASSUME FilesTypeOK, NEW r \in Transfer, NEW new \in Request, Becomes(r, new)
  PROVE  /\ req' \in [Transfer -> Request] /\ req'[r] = new
         /\ \A s \in Transfer \ {r} : req'[s] = req[s]
BY DEF FilesTypeOK, Becomes

\* A request that ends.
LEMMA OneEnds ==
  ASSUME FilesTypeOK, NEW r \in Transfer, NEW how \in {"done", "failed"}, End(r, how)
  PROVE  /\ req' \in [Transfer -> Request]
         /\ req'[r].pc = how /\ ~req'[r].verified
         /\ \A s \in Transfer \ {r} : req'[s] = req[s]
BY OneBecomes, NoReqType DEF End

\* What a resolution of the root makes of a request: it fails, has the cached path, or
\* waits for the path of the configured directory.
LEMMA ResolveSpec ==
  ASSUME FilesTypeOK, NEW r \in Transfer, NEW q \in Request, NEW next \in {"open", "own", "stat", "hash"},
         resolve(r, q, next), next = "hash" => q.abs \in Dir,
         next = "open" => q.version \in 1 .. uploads', UNCHANGED root
  PROVE  /\ req' \in [Transfer -> Request]
         /\ \A s \in Transfer \ {r} : req'[s] = req[s]
         /\ Resolved(req[r])'
         /\ req'[r].pc \in {next, "realpath", "failed"}
         /\ req'[r].pc = "realpath" => req'[r].path = root
<1>1. CASE root = NoDir
  <2>1. End(r, "failed")
    BY <1>1 DEF resolve
  <2>2. QED BY <2>1, OneEnds DEF Resolved, UploadPc, DownloadPc
<1>2. CASE root # NoDir /\ real # NoDir
  <2> DEFINE new == [q EXCEPT !.pc = next, !.dir = real]
  <2>1. Becomes(r, new)
    BY <1>2 DEF resolve
  <2>2. /\ new \in Request /\ new.pc = next /\ new.dir \in Dir
        /\ new.abs = q.abs /\ new.version = q.version
    BY <1>2 DEF FilesTypeOK, Request, FilePc, UploadPc, DownloadPc
  <2> HIDE DEF new
  <2>3. QED BY <2>1, <2>2, OneBecomes DEF Resolved, UploadPc, DownloadPc
<1>3. CASE root # NoDir /\ real = NoDir
  <2> DEFINE new == [q EXCEPT !.pc = "realpath", !.path = root, !.next = next]
  <2>1. Becomes(r, new)
    BY <1>3 DEF resolve
  <2>2. /\ new \in Request /\ new.pc = "realpath" /\ new.path = root /\ root \in Dir
        /\ new.next = next /\ new.abs = q.abs /\ new.version = q.version
    BY <1>3 DEF FilesTypeOK, Request, FilePc, UploadPc, DownloadPc
  <2> HIDE DEF new
  <2>3. QED BY <2>1, <2>2, OneBecomes DEF Resolved, UploadPc, DownloadPc
<1>4. QED BY <1>1, <1>2, <1>3

\* A step that only takes a request on, not into a write and not to its end, keeps the
\* invariant: nothing is written by it.
LEMMA TakenOnKeeps ==
  ASSUME FilesInvariant, NEW r \in Transfer,
         req' \in [Transfer -> Request], \A s \in Transfer \ {r} : req'[s] = req[s],
         Resolved(req[r])', req'[r].pc \notin {"write", "rename", "save", "done"},
         uploads' \in {uploads, uploads + 1},
         UNCHANGED <<root, inode, file, part, target, moves, overlap, mixed>>,
         real' \in Dir \cup {NoDir}
  PROVE  FilesInvariant'
<1> USE DEF FilesInvariant
<1>1. uploads' \in Nat /\ uploads <= uploads'
  BY DEF FilesTypeOK
<1>2. \A s \in Transfer \ {r} : Resolved(req[s])'
  <2> SUFFICES ASSUME NEW s \in Transfer \ {r} PROVE Resolved(req[s])'
    OBVIOUS
  <2>1. req'[s] = req[s] /\ Resolved(req[s]) /\ 1 .. uploads \subseteq 1 .. uploads'
    BY <1>1 DEF FilesTypeOK
  <2>2. QED BY <2>1 DEF Resolved
<1>3. FilesTypeOK'
  BY <1>1, <1>2 DEF FilesTypeOK
<1>4. PartsApart'
  BY DEF PartsApart, PartHolds, HasPart
<1>5. FilesAreWhole'
  <2>1. \A d \in Dir : Content(d)' = Content(d)
    BY DEF Content
  <2>2. 0 .. uploads \subseteq 0 .. uploads'
    BY <1>1 DEF FilesTypeOK
  <2>3. QED BY <2>1, <2>2 DEF FilesAreWhole
<1>6. OneSaves' /\ VerifiedIsSaved'
  BY DEF OneSaves, VerifiedIsSaved
<1>7. QED BY <1>3, <1>4, <1>5, <1>6

-----------------------------------------------------------------------------
(* One lemma for each action.                                              *)

\* The path of the directory that was configured when the resolution began is cached.
LEMMA RealRootKeeps ==
  ASSUME FilesInvariant, NEW r \in Transfer, _realRoot(r) PROVE FilesInvariant'
<1> DEFINE new == [req[r] EXCEPT !.pc = req[r].next, !.dir = req[r].path, !.path = NoDir]
<1>1. FilesTypeOK /\ req[r] \in Request /\ Resolved(req[r]) /\ req[r].pc = "realpath"
  BY DEF FilesInvariant, FilesTypeOK, _realRoot
<1>2. req[r].path \in Dir /\ req[r].next \in {"open", "own", "stat", "hash"}
  BY <1>1 DEF Resolved
<1>3. /\ new \in Request /\ new.pc = req[r].next /\ new.dir = req[r].path
      /\ new.abs = req[r].abs /\ new.version = req[r].version
  BY <1>1, <1>2 DEF Request, FilePc, UploadPc, DownloadPc
<1>4. Becomes(r, new)
  BY DEF _realRoot
<1> HIDE DEF new
<1>5. /\ req' \in [Transfer -> Request] /\ req'[r] = new
      /\ \A s \in Transfer \ {r} : req'[s] = req[s]
  BY <1>1, <1>3, <1>4, OneBecomes
<1>6. Resolved(req[r])'
  BY <1>1, <1>2, <1>3, <1>5 DEF Resolved, UploadPc, DownloadPc, _realRoot, UnchangedFiles
<1>7. QED
  BY <1>1, <1>2, <1>3, <1>5, <1>6, TakenOnKeeps DEF _realRoot, UnchangedFiles

\* A request that resolves the root is taken on.
LEMMA ResolveKeeps ==
  ASSUME FilesInvariant, NEW r \in Transfer, NEW q \in Request, NEW next \in {"open", "own", "stat", "hash"},
         resolve(r, q, next), next = "hash" => q.abs \in Dir,
         next = "open" => q.version \in 1 .. uploads', uploads' \in {uploads, uploads + 1},
         UNCHANGED <<root, real, inode, file, part, target, moves, overlap, mixed>>
  PROVE  FilesInvariant'
<1>1. FilesTypeOK
  BY DEF FilesInvariant
<1>2. real' \in Dir \cup {NoDir}
  BY DEF FilesInvariant, FilesTypeOK
<1>3. /\ req' \in [Transfer -> Request] /\ \A s \in Transfer \ {r} : req'[s] = req[s]
      /\ Resolved(req[r])' /\ req'[r].pc \in {next, "realpath", "failed"}
      /\ req'[r].pc = "realpath" => req'[r].path = root
  BY <1>1, ResolveSpec
<1>4. QED BY <1>2, <1>3, TakenOnKeeps

\* A request that fails has written nothing.
LEMMA FailedKeeps ==
  ASSUME FilesInvariant, NEW r \in Transfer, End(r, "failed"), uploads' \in {uploads, uploads + 1},
         UNCHANGED <<root, real, inode, file, part, target, moves, overlap, mixed>>
  PROVE  FilesInvariant'
<1>1. FilesTypeOK /\ real' \in Dir \cup {NoDir}
  BY DEF FilesInvariant, FilesTypeOK
<1>2. /\ req' \in [Transfer -> Request] /\ \A s \in Transfer \ {r} : req'[s] = req[s]
      /\ req'[r].pc = "failed"
  BY <1>1, OneEnds
<1>3. Resolved(req[r])'
  BY <1>2 DEF Resolved, UploadPc, DownloadPc
<1>4. QED BY <1>1, <1>2, <1>3, TakenOnKeeps

\* An upload begins with a version of its own.
LEMMA UploadKeeps ==
  ASSUME FilesInvariant, NEW r \in Transfer, upload(r) PROVE FilesInvariant'
<1>1. uploads \in Nat /\ uploads' = uploads + 1
  BY DEF FilesInvariant, FilesTypeOK, upload, pushFile
<1>2. CASE End(r, "failed")
  BY <1>1, <1>2, FailedKeeps DEF upload
<1>3. CASE resolve(r, [NoReq EXCEPT !.version = uploads'], "open")
  <2>1. /\ [NoReq EXCEPT !.version = uploads'] \in Request
        /\ [NoReq EXCEPT !.version = uploads'].version \in 1 .. uploads'
    <3>1. uploads' \in Nat /\ uploads' \in 1 .. uploads' /\ NoReq \in Request
      BY <1>1, NoReqType
    <3>2. QED BY <3>1 DEF Request
  <2>2. QED BY <1>1, <1>3, <2>1, ResolveKeeps DEF upload
<1>4. QED BY <1>2, <1>3 DEF upload

\* A download or a node's own pull begins, or goes on to its hash.
LEMMA ReadKeeps ==
  ASSUME FilesInvariant, NEW r \in Transfer, download(r) \/ pullOwn(r) \/ openRead(r)
  PROVE  FilesInvariant'
<1>1. CASE download(r)
  BY <1>1, NoReqType, ResolveKeeps DEF download, UnchangedFiles
<1>2. CASE pullOwn(r)
  BY <1>2, NoReqType, ResolveKeeps DEF pullOwn, UnchangedFiles
<1>3. CASE openRead(r)
  <2> DEFINE d == req[r].dir
             q == [req[r] EXCEPT !.abs = d, !.size = Len(Content(d))]
  <2>1. req[r] \in Request /\ d \in Dir
    BY <1>3 DEF FilesInvariant, FilesTypeOK, Resolved, openRead, DownloadPc
  <2>2. Len(Content(d)) \in Nat
    BY <2>1 DEF Content, FilesInvariant, FilesTypeOK
  <2>3. q \in Request /\ q.abs \in Dir
    BY <2>1, <2>2 DEF Request
  <2>4. QED BY <1>3, <2>3, ResolveKeeps DEF openRead, UnchangedFiles
<1>4. QED BY <1>1, <1>2, <1>3

\* The file is hashed as it is by then.
LEMMA HashKeeps ==
  ASSUME FilesInvariant, NEW r \in Transfer, hashFile(r) PROVE FilesInvariant'
<1> DEFINE new == [req[r] EXCEPT !.pc = "stream", !.sha = Content(req[r].dir)]
<1>1. FilesTypeOK /\ real \in Dir \cup {NoDir}
  BY DEF FilesInvariant, FilesTypeOK
<1>2. req[r] \in Request /\ req[r].dir \in Dir /\ req[r].abs \in Dir
  BY DEF FilesInvariant, FilesTypeOK, Resolved, hashFile, DownloadPc
<1>3. Content(req[r].dir) \in Seq(Nat)
  BY <1>1, <1>2 DEF Content, FilesTypeOK
<1>4. new \in Request /\ new.pc = "stream" /\ new.dir \in Dir /\ new.abs \in Dir
  BY <1>2, <1>3 DEF Request, FilePc, DownloadPc
<1>5. Becomes(r, new)
  BY DEF hashFile
<1> HIDE DEF new
<1>6. /\ req' \in [Transfer -> Request] /\ req'[r] = new
      /\ \A s \in Transfer \ {r} : req'[s] = req[s]
  BY <1>1, <1>4, <1>5, OneBecomes
<1>7. Resolved(req[r])'
  BY <1>4, <1>6 DEF Resolved, UploadPc
<1>8. QED BY <1>1, <1>4, <1>6, <1>7, TakenOnKeeps DEF hashFile, UnchangedFiles

\* A request that is given up has written nothing.
LEMMA GiveUpKeeps ==
  ASSUME FilesInvariant, NEW r \in Transfer, giveUp(r) PROVE FilesInvariant'
BY FailedKeeps DEF giveUp, UnchangedFiles

\* What a step that changes no file leaves as it is.
LEMMA FilesStay ==
  ASSUME FilesInvariant, NEW r \in Transfer, \A s \in Transfer \ {r} : req'[s] = req[s],
         req'[r].pc \notin {"write", "rename", "realpath"},
         UnchangedFiles, UNCHANGED <<root, real, moves>>
  PROVE  PartsApart' /\ FilesAreWhole'
<1>1. PartsApart'
  BY DEF FilesInvariant, PartsApart, PartHolds, HasPart, UnchangedFiles
<1>2. FilesAreWhole'
  BY DEF FilesInvariant, FilesAreWhole, Content, UnchangedFiles
<1>3. QED BY <1>1, <1>2

\* A download that opens the target empties it, and is the only one that saves to it,
\* or the history says otherwise.
LEMMA OpenedKeeps ==
  ASSUME FilesInvariant, NEW r \in Transfer, NEW new \in Request, new.pc = "save",
         Opened(r), Becomes(r, new), UnchangedFiles, UNCHANGED <<root, real, moves>>
  PROVE  FilesInvariant'
<1> USE DEF FilesInvariant
<1>1. /\ req' \in [Transfer -> Request] /\ req'[r] = new
      /\ \A s \in Transfer \ {r} : req'[s] = req[s]
  BY OneBecomes
<1>2. target' = [by |-> r, body |-> <<>>] /\ mixed' = (mixed \/ \E q \in Transfer : req[q].pc = "save")
  BY DEF Opened
<1>3. FilesTypeOK'
  <2>1. target' \in [by : Transfer \cup {0}, body : Seq(Nat)]
    BY <1>2
  <2>2. \A s \in Transfer : Resolved(req[s])'
    BY <1>1 DEF FilesTypeOK, Resolved, UnchangedFiles, UploadPc, DownloadPc
  <2>3. mixed' \in BOOLEAN
    BY <1>2 DEF FilesTypeOK
  <2>4. QED BY <1>1, <2>1, <2>2, <2>3 DEF FilesTypeOK, UnchangedFiles
<1>4. OneSaves'
  BY <1>1, <1>2 DEF OneSaves
<1>5. VerifiedIsSaved'
  BY <1>1, <1>2 DEF VerifiedIsSaved
<1>6. QED BY <1>1, <1>3, <1>4, <1>5, FilesStay

\* The node's own file is read whole; a peer's is read as far as was announced.
LEMMA StreamKeeps ==
  ASSUME FilesInvariant, NEW r \in Transfer, stream(r) \/ readOwn(r) PROVE FilesInvariant'
<1>1. FilesTypeOK /\ req[r] \in Request /\ Resolved(req[r])
  BY DEF FilesInvariant, FilesTypeOK
<1>2. CASE stream(r)
  <2> DEFINE body == Content(req[r].abs)
             n == IF Len(body) < req[r].size THEN Len(body) ELSE req[r].size
             new == [req[r] EXCEPT !.pc = "save", !.got = SubSeq(body, 1, n)]
  <2>1. req[r].abs \in Dir
    BY <1>1, <1>2 DEF Resolved, stream
  <2>2. body \in Seq(Nat)
    BY <1>1, <2>1 DEF Content, FilesTypeOK
  <2>3. n \in 0 .. Len(body)
    BY <1>1, <2>2 DEF Request
  <2> HIDE DEF body, n
  <2>4. SubSeq(body, 1, n) \in Seq(Nat)
    BY <2>2, <2>3
  <2>5. new \in Request /\ new.pc = "save"
    BY <1>1, <2>4 DEF Request, FilePc
  <2>6. Becomes(r, new) /\ Opened(r) /\ UnchangedFiles /\ UNCHANGED <<root, real, moves>>
    BY <1>2 DEF stream, body, n
  <2> HIDE DEF new
  <2>7. QED BY <2>5, <2>6, OpenedKeeps
<1>3. CASE readOwn(r)
  <2> DEFINE body == Content(req[r].dir)
             new == [req[r] EXCEPT !.pc = "save", !.size = Len(body), !.sha = body, !.got = body]
  <2>1. req[r].dir \in Dir
    BY <1>1, <1>3 DEF Resolved, readOwn, DownloadPc
  <2>2. body \in Seq(Nat) /\ Len(body) \in Nat
    BY <1>1, <2>1 DEF Content, FilesTypeOK
  <2> HIDE DEF body
  <2>3. new \in Request /\ new.pc = "save"
    BY <1>1, <2>2 DEF Request, FilePc
  <2>4. Becomes(r, new) /\ Opened(r) /\ UnchangedFiles /\ UNCHANGED <<root, real, moves>>
    BY <1>3 DEF readOwn, body
  <2> HIDE DEF new
  <2>5. QED BY <2>3, <2>4, OpenedKeeps
<1>4. QED BY <1>2, <1>3

\* While downloads do not mix, the target is empty when a download writes to it, so it
\* holds what has arrived; and a verified one is what was hashed.
LEMMA SaveKeeps ==
  ASSUME FilesInvariant, NEW r \in Transfer, save(r) PROVE FilesInvariant'
<1> DEFINE q == req[r]
           new == [q EXCEPT !.pc = "done", !.verified = verified(q)]
<1>1. FilesTypeOK /\ q \in Request /\ q.pc = "save"
  BY DEF FilesInvariant, FilesTypeOK, save
<1>2. new \in Request /\ new.pc = "done" /\ new.sha = q.sha /\ new.verified = (q.got = q.sha)
  BY <1>1 DEF Request, FilePc, verified
<1>3. target' = [target EXCEPT !.body = Overwrite(@, q.got)] /\ mixed' = mixed
  BY DEF save
<1>4. End(r, "failed") \/ Becomes(r, new)
  BY DEF save
<1> HIDE DEF new
<1>5. /\ req' \in [Transfer -> Request] /\ \A s \in Transfer \ {r} : req'[s] = req[s]
      /\ req'[r].pc \in {"failed", "done"}
      /\ req'[r].verified => req'[r].sha = q.sha /\ q.got = q.sha
  <2>1. CASE End(r, "failed")
    BY <1>1, <2>1, OneEnds
  <2>2. CASE Becomes(r, new)
    BY <1>1, <1>2, <2>2, OneBecomes
  <2>3. QED BY <1>4, <2>1, <2>2
<1>6. Overwrite(target.body, q.got) \in Seq(Nat) /\ q.got \in Seq(Nat)
  BY <1>1, OverwriteType DEF FilesTypeOK, Request
<1>7. FilesTypeOK'
  <2>1. target' \in [by : Transfer \cup {0}, body : Seq(Nat)]
    BY <1>1, <1>3, <1>6 DEF FilesTypeOK
  <2>2. \A s \in Transfer : Resolved(req[s])'
    BY <1>1, <1>5 DEF FilesTypeOK, Resolved, UnchangedFiles, UploadPc, DownloadPc, save
  <2>3. QED BY <1>1, <1>3, <1>5, <2>1, <2>2 DEF FilesTypeOK, UnchangedFiles, save
<1>8. ASSUME ~mixed
      PROVE  /\ target.by = r /\ target' = [by |-> r, body |-> q.got]
             /\ \A s \in Transfer \ {r} : req[s].pc # "save"
  <2>1. target.by = r /\ target.body = <<>>
    BY <1>1, <1>8 DEF FilesInvariant, OneSaves
  <2>2. target \in [by : Transfer \cup {0}, body : Seq(Nat)] /\ Overwrite(<<>>, q.got) = q.got
    BY <1>1, <1>6, OverwriteEmpty DEF FilesTypeOK
  <2>3. QED BY <1>3, <1>8, <2>1, <2>2 DEF FilesInvariant, OneSaves
<1>9. OneSaves' /\ VerifiedIsSaved'
  BY <1>3, <1>5, <1>8 DEF OneSaves, VerifiedIsSaved
<1>10. QED BY <1>5, <1>7, <1>9, FilesStay DEF FilesInvariant, save

\* A file that is written is still a file of blocks, and there are as many.
LEMMA WrittenType ==
  ASSUME NEW files \in Seq(Seq(Nat)), NEW fd, NEW new, fd \in DOMAIN files => new \in Seq(Nat)
  PROVE  /\ [files EXCEPT ![fd] = new] \in Seq(Seq(Nat))
         /\ DOMAIN [files EXCEPT ![fd] = new] = DOMAIN files
         /\ \A i \in DOMAIN files \ {fd} : [files EXCEPT ![fd] = new][i] = files[i]
         /\ fd \in DOMAIN files => [files EXCEPT ![fd] = new][fd] = new
<1>1. CASE fd \in DOMAIN files
  <2>1. fd \in 1 .. Len(files) /\ new \in Seq(Nat)
    BY <1>1
  <2> DEFINE Blocks == Seq(Nat)
  <2> HIDE DEF Blocks
  <2>2. files \in Seq(Blocks) /\ new \in Blocks
    BY <2>1 DEF Blocks
  <2>3. /\ [files EXCEPT ![fd] = new] \in Seq(Blocks)
        /\ Len([files EXCEPT ![fd] = new]) = Len(files)
        /\ \A j \in 1 .. Len(files) : [files EXCEPT ![fd] = new][j] = IF j = fd THEN new ELSE files[j]
    BY <2>1, <2>2, ExceptSeq
  <2>4. QED BY <1>1, <2>2, <2>3 DEF Blocks
<1>2. CASE fd \notin DOMAIN files
  <2>1. [files EXCEPT ![fd] = new] = files
    BY <1>2
  <2>2. QED BY <1>2, <2>1
<1>3. QED BY <1>1, <1>2

\* A step of an upload leaves the downloads, and what they save, as they are.
LEMMA UploadStays ==
  ASSUME FilesInvariant, NEW r \in Transfer, \A s \in Transfer \ {r} : req'[s] = req[s],
         req'[r].pc \notin {"realpath", "save"}, req'[r].pc = "done" => ~req'[r].verified,
         UNCHANGED <<root, real, target, mixed>>
  PROVE  OneSaves' /\ VerifiedIsSaved'
BY DEF FilesInvariant, OneSaves, VerifiedIsSaved

\* A temporary file that nobody has is new: it is no directory's file.  One that exists
\* is opened again, and two uploads then write it.
LEMMA WriteOpenKeeps ==
  ASSUME FilesInvariant, NEW r \in Transfer, writeOpen(r) PROVE FilesInvariant'
<1> DEFINE d == req[r].dir
           new == [req[r] EXCEPT !.pc = "write", !.fd = part'[d]]
<1>1. /\ FilesTypeOK /\ req[r] \in Request /\ Resolved(req[r]) /\ req[r].pc = "open" /\ d \in Dir
      /\ req[r].version \in 1 .. uploads
  BY DEF FilesInvariant, FilesTypeOK, Resolved, writeOpen, UploadPc
<1>2. /\ inode' \in Seq(Seq(Nat)) /\ DOMAIN inode \subseteq DOMAIN inode'
      /\ part' \in [Dir -> DOMAIN inode' \cup {0}] /\ part'[d] # 0
      /\ \A e \in Dir \ {d} : part'[e] = part[e]
  <2>1. CASE part[d] = 0
    <3>1. inode' = Append(inode, <<>>) /\ part' = [part EXCEPT ![d] = Len(inode')]
      BY <2>1 DEF writeOpen
    <3>2. <<>> \in Seq(Nat) /\ inode \in Seq(Seq(Nat))
      BY <1>1 DEF FilesTypeOK
    <3>3. inode' \in Seq(Seq(Nat)) /\ Len(inode') = Len(inode) + 1
      BY <3>1, <3>2
    <3>4. QED BY <1>1, <3>1, <3>2, <3>3 DEF FilesTypeOK
  <2>2. CASE part[d] # 0
    <3>1. inode' = [inode EXCEPT ![part[d]] = <<>>] /\ part' = part
      BY <2>2 DEF writeOpen
    <3>2. inode' \in Seq(Seq(Nat)) /\ DOMAIN inode' = DOMAIN inode
      <4>1. inode \in Seq(Seq(Nat)) /\ <<>> \in Seq(Nat)
        BY <1>1 DEF FilesTypeOK
      <4>2. QED BY <3>1, <4>1, WrittenType
    <3>3. QED BY <1>1, <2>2, <3>1, <3>2 DEF FilesTypeOK
  <2>3. QED BY <2>1, <2>2
<1>3. new \in Request /\ new.pc = "write" /\ new.dir = d /\ new.fd = part'[d]
      /\ new.version = req[r].version
  <2>1. part'[d] \in Nat
    BY <1>1, <1>2
  <2>2. QED BY <1>1, <2>1 DEF Request, FilePc, UploadPc
<1>4. Becomes(r, new)
  BY DEF writeOpen
<1> HIDE DEF new
<1>5. /\ req' \in [Transfer -> Request] /\ req'[r] = new
      /\ \A s \in Transfer \ {r} : req'[s] = req[s]
  BY <1>1, <1>3, <1>4, OneBecomes
<1>6. UNCHANGED <<root, real, file, target, uploads, moves, mixed>>
      /\ overlap' = (overlap \/ part[d] # 0)
  BY DEF writeOpen
<1>7. FilesTypeOK'
  <2>1. \A s \in Transfer : Resolved(req[s])'
    BY <1>1, <1>3, <1>5, <1>6 DEF FilesTypeOK, Resolved, UploadPc
  <2>2. QED BY <1>1, <1>2, <1>5, <1>6, <2>1 DEF FilesTypeOK
<1>8. ASSUME ~overlap'
      PROVE  /\ ~overlap /\ part[d] = 0 /\ part'[d] \notin DOMAIN inode /\ inode'[part'[d]] = <<>>
             /\ \A i \in DOMAIN inode : inode'[i] = inode[i]
  <2>1. ~overlap /\ part[d] = 0
    BY <1>6, <1>8
  <2>2. inode' = Append(inode, <<>>) /\ part' = [part EXCEPT ![d] = Len(inode')]
    BY <2>1 DEF writeOpen
  <2>3. <<>> \in Seq(Nat) /\ inode \in Seq(Seq(Nat)) /\ part \in [Dir -> DOMAIN inode \cup {0}]
    BY <1>1 DEF FilesTypeOK
  <2>4. QED BY <1>1, <2>1, <2>2, <2>3
<1>9. PartsApart'
  <2> SUFFICES ASSUME ~overlap'
               PROVE  /\ \A e, f \in Dir : part'[e] # 0 =>
                           part'[e] # file[f] /\ (e # f => part'[e] # part'[f])
                      /\ \A s \in Transfer : PartHolds(req[s])'
                      /\ \A q, s \in Transfer : \A e \in Dir : HasPart(q, e)' /\ HasPart(s, e)' => q = s
    BY <1>6 DEF PartsApart
  <2>1. \A f \in Dir : file[f] \in DOMAIN inode /\ part[f] \in DOMAIN inode \cup {0}
    BY <1>1 DEF FilesTypeOK
  <2>2. ASSUME NEW s \in Transfer \ {r}, req[s].pc \in {"write", "rename"}
        PROVE  /\ req[s].dir \in Dir \ {d} /\ part[req[s].dir] = req[s].fd /\ req[s].fd # 0
               /\ req[s].fd \in DOMAIN inode
    <3>1. PartHolds(req[s]) /\ req[s].dir \in Dir
      BY <1>1, <1>8, <2>2 DEF FilesInvariant, PartsApart, FilesTypeOK, Resolved, UploadPc
    <3>2. QED BY <1>8, <2>1, <2>2, <3>1 DEF PartHolds
  <2>3. \A e, f \in Dir : part'[e] # 0 => part'[e] # file[f] /\ (e # f => part'[e] # part'[f])
    <3> SUFFICES ASSUME NEW e \in Dir, NEW f \in Dir, part'[e] # 0
                 PROVE  part'[e] # file[f] /\ (e # f => part'[e] # part'[f])
      OBVIOUS
    <3>1. CASE e = d
      BY <1>1, <1>2, <1>8, <2>1, <3>1
    <3>2. CASE e # d
      <4>1. part'[e] = part[e] /\ part[e] \in DOMAIN inode
        BY <1>2, <2>1, <3>2
      <4>2. part[e] # file[f] /\ (e # f => part[e] # part[f])
        BY <1>8, <4>1 DEF FilesInvariant, PartsApart
      <4>3. QED BY <1>2, <1>8, <4>1, <4>2
    <3>3. QED BY <3>1, <3>2
  <2>4. ASSUME NEW s \in Transfer PROVE PartHolds(req[s])'
    <3>1. CASE s = r
      BY <1>2, <1>3, <1>5, <1>8, <3>1 DEF PartHolds
    <3>2. CASE s # r
      <4>1. req'[s] = req[s] /\ PartHolds(req[s])
        BY <1>5, <1>8, <3>2 DEF FilesInvariant, PartsApart
      <4>2. QED BY <1>2, <1>8, <2>2, <3>2, <4>1 DEF PartHolds
    <3>3. QED BY <3>1, <3>2
  <2>5. \A q, s \in Transfer : \A e \in Dir : HasPart(q, e)' /\ HasPart(s, e)' => q = s
    BY <1>3, <1>5, <1>8, <2>2 DEF HasPart, FilesInvariant, PartsApart
  <2>6. QED BY <2>3, <2>4, <2>5
<1>10. FilesAreWhole'
  BY <1>1, <1>6, <1>8 DEF FilesInvariant, FilesAreWhole, FilesTypeOK, Content
<1>11. QED BY <1>3, <1>5, <1>6, <1>7, <1>9, <1>10, UploadStays DEF FilesInvariant

\* The temporary file that one upload writes is empty until it does.
LEMMA WriteFileKeeps ==
  ASSUME FilesInvariant, NEW r \in Transfer, writeFile(r) PROVE FilesInvariant'
<1> DEFINE fd == req[r].fd
           body == Body(req[r].version)
           new == [req[r] EXCEPT !.pc = "rename"]
<1>1. /\ FilesTypeOK /\ req[r] \in Request /\ req[r].pc = "write" /\ req[r].dir \in Dir
      /\ req[r].version \in 1 .. uploads /\ req[r].version \in Nat
  BY DEF FilesInvariant, FilesTypeOK, Resolved, writeFile, UploadPc, Request
<1>2. new \in Request /\ new.pc = "rename" /\ new.dir = req[r].dir /\ new.fd = fd
      /\ new.version = req[r].version
  BY <1>1 DEF Request, FilePc, UploadPc
<1>3. Becomes(r, new) /\ inode' = [inode EXCEPT ![fd] = Overwrite(inode[fd], body)]
  BY DEF writeFile
<1> HIDE DEF new
<1>4. /\ req' \in [Transfer -> Request] /\ req'[r] = new
      /\ \A s \in Transfer \ {r} : req'[s] = req[s]
  BY <1>1, <1>2, <1>3, OneBecomes
<1>5. UNCHANGED <<root, real, file, part, target, uploads, moves, overlap, mixed>>
  BY DEF writeFile
<1>6. body \in Seq(Nat)
  BY <1>1, BodyType
<1> HIDE DEF body
<1>7. /\ inode' \in Seq(Seq(Nat)) /\ DOMAIN inode' = DOMAIN inode
      /\ \A i \in DOMAIN inode \ {fd} : inode'[i] = inode[i]
      /\ fd \in DOMAIN inode => inode'[fd] = Overwrite(inode[fd], body)
  <2>1. inode \in Seq(Seq(Nat)) /\ (fd \in DOMAIN inode => inode[fd] \in Seq(Nat))
    BY <1>1 DEF FilesTypeOK
  <2>2. fd \in DOMAIN inode => Overwrite(inode[fd], body) \in Seq(Nat)
    BY <1>6, <2>1, OverwriteType
  <2>3. QED BY <1>3, <2>1, <2>2, WrittenType
<1>8. FilesTypeOK'
  <2>1. \A s \in Transfer : Resolved(req[s])'
    BY <1>1, <1>2, <1>4, <1>5 DEF FilesTypeOK, Resolved, UploadPc
  <2>2. QED BY <1>1, <1>4, <1>5, <1>7, <2>1 DEF FilesTypeOK
<1>9. ASSUME ~overlap
      PROVE  /\ fd # 0 /\ part[req[r].dir] = fd /\ fd \in DOMAIN inode /\ inode'[fd] = body
             /\ \A d \in Dir : file[d] # fd
             /\ \A s \in Transfer \ {r} : req[s].pc \in {"write", "rename"} =>
                  req[s].fd # fd /\ req[s].fd \in DOMAIN inode
  <2>1. fd # 0 /\ part[req[r].dir] = fd /\ inode[fd] = <<>>
    BY <1>1, <1>9 DEF FilesInvariant, PartsApart, PartHolds
  <2>2. fd \in DOMAIN inode
    BY <1>1, <2>1 DEF FilesTypeOK
  <2>3. inode'[fd] = body
    BY <1>6, <1>7, <2>1, <2>2, OverwriteEmpty
  <2>4. \A d \in Dir : file[d] # fd
    BY <1>1, <1>9, <2>1 DEF FilesInvariant, PartsApart
  <2>5. ASSUME NEW s \in Transfer \ {r}, req[s].pc \in {"write", "rename"}
        PROVE  req[s].fd # fd /\ req[s].fd \in DOMAIN inode
    <3>1. req[s].fd # 0 /\ part[req[s].dir] = req[s].fd /\ req[s].dir \in Dir
      BY <1>1, <1>9, <2>5 DEF FilesInvariant, PartsApart, PartHolds, FilesTypeOK, Resolved, UploadPc
    <3>2. req[s].dir # req[r].dir
      BY <1>1, <1>9, <2>5, <3>1 DEF FilesInvariant, PartsApart, HasPart
    <3>3. part[req[s].dir] # part[req[r].dir]
      BY <1>1, <1>9, <3>1, <3>2 DEF FilesInvariant, PartsApart
    <3>4. QED BY <1>1, <2>1, <3>1, <3>3 DEF FilesTypeOK
  <2>6. QED BY <2>1, <2>2, <2>3, <2>4, <2>5
<1>10. PartsApart'
  <2> SUFFICES ASSUME ~overlap
               PROVE  /\ \A d, e \in Dir : part[d] # 0 => part[d] # file[e] /\ (d # e => part[d] # part[e])
                      /\ \A s \in Transfer : PartHolds(req[s])'
                      /\ \A q, s \in Transfer : \A d \in Dir : HasPart(q, d)' /\ HasPart(s, d)' => q = s
    BY <1>5 DEF PartsApart
  <2>1. ASSUME NEW s \in Transfer PROVE PartHolds(req[s])'
    <3>1. CASE s = r
      BY <1>2, <1>4, <1>5, <1>9, <3>1 DEF PartHolds, body
    <3>2. CASE s # r
      <4>1. req'[s] = req[s] /\ PartHolds(req[s])
        BY <1>4, <3>2 DEF FilesInvariant, PartsApart
      <4>2. QED BY <1>5, <1>7, <1>9, <3>2, <4>1 DEF PartHolds
    <3>3. QED BY <3>1, <3>2
  <2>2. \A q, s \in Transfer : \A d \in Dir : HasPart(q, d)' /\ HasPart(s, d)' => q = s
    <3>1. \A s \in Transfer : \A d \in Dir : HasPart(s, d)' => HasPart(s, d)
      BY <1>1, <1>2, <1>4 DEF HasPart
    <3>2. QED BY <3>1 DEF FilesInvariant, PartsApart
  <2>3. QED BY <2>1, <2>2 DEF FilesInvariant, PartsApart
<1>11. FilesAreWhole'
  BY <1>1, <1>5, <1>7, <1>9 DEF FilesInvariant, FilesAreWhole, FilesTypeOK, Content
<1>12. QED BY <1>2, <1>4, <1>5, <1>8, <1>10, <1>11, UploadStays DEF FilesInvariant

\* The temporary file takes the place of the file, and there is none any more.
LEMMA WriteRenameKeeps ==
  ASSUME FilesInvariant, NEW r \in Transfer, writeRename(r) PROVE FilesInvariant'
<1> DEFINE d == req[r].dir
<1>1. /\ FilesTypeOK /\ req[r] \in Request /\ req[r].pc = "rename" /\ d \in Dir
      /\ req[r].version \in 1 .. uploads
  BY DEF FilesInvariant, FilesTypeOK, Resolved, writeRename, UploadPc
<1>2. UNCHANGED <<root, real, inode, target, uploads, moves, overlap, mixed>>
  BY DEF writeRename
<1>3. /\ req' \in [Transfer -> Request] /\ ~req'[r].verified /\ req'[r].pc \in {"done", "failed"}
      /\ \A s \in Transfer \ {r} : req'[s] = req[s]
  <2>1. End(r, "failed") \/ End(r, "done")
    BY DEF writeRename
  <2>2. QED BY <1>1, <2>1, OneEnds
<1>4. \/ part[d] = 0 /\ file' = file /\ part' = part
      \/ part[d] # 0 /\ file' = [file EXCEPT ![d] = part[d]] /\ part' = [part EXCEPT ![d] = 0]
  BY DEF writeRename
<1>5. FilesTypeOK'
  <2>1. \A s \in Transfer : Resolved(req[s])'
    BY <1>1, <1>2, <1>3 DEF FilesTypeOK, Resolved, UploadPc, DownloadPc
  <2>2. file' \in [Dir -> DOMAIN inode] /\ part' \in [Dir -> DOMAIN inode \cup {0}]
    BY <1>1, <1>4 DEF FilesTypeOK
  <2>3. QED BY <1>1, <1>2, <1>3, <2>1, <2>2 DEF FilesTypeOK
<1>6. ASSUME ~overlap
      PROVE  /\ part[d] # 0 /\ file' = [file EXCEPT ![d] = part[d]] /\ part' = [part EXCEPT ![d] = 0]
             /\ inode[part[d]] = Body(req[r].version)
  BY <1>1, <1>4, <1>6 DEF FilesInvariant, PartsApart, PartHolds
<1>7. PartsApart'
  <2> SUFFICES ASSUME ~overlap
               PROVE  /\ \A e, f \in Dir : part'[e] # 0 =>
                           part'[e] # file'[f] /\ (e # f => part'[e] # part'[f])
                      /\ \A s \in Transfer : PartHolds(req[s])'
                      /\ \A q, s \in Transfer : \A e \in Dir : HasPart(q, e)' /\ HasPart(s, e)' => q = s
    BY <1>2 DEF PartsApart
  <2>1. \A e, f \in Dir : part'[e] # 0 => part'[e] # file'[f] /\ (e # f => part'[e] # part'[f])
    <3> SUFFICES ASSUME NEW e \in Dir, NEW f \in Dir, part'[e] # 0
                 PROVE  part'[e] # file'[f] /\ (e # f => part'[e] # part'[f])
      OBVIOUS
    <3>1. e # d /\ part'[e] = part[e]
      BY <1>1, <1>6 DEF FilesTypeOK
    <3>2. part[e] # file[f] /\ (e # f => part[e] # part[f]) /\ part[e] # part[d]
      BY <1>1, <3>1 DEF FilesInvariant, PartsApart
    <3>3. QED BY <1>1, <1>6, <3>1, <3>2 DEF FilesTypeOK
  <2>2. ASSUME NEW s \in Transfer PROVE PartHolds(req[s])'
    <3>1. CASE s = r
      BY <1>3, <3>1 DEF PartHolds
    <3>2. CASE s # r
      <4>1. req'[s] = req[s] /\ PartHolds(req[s])
        BY <1>3, <3>2 DEF FilesInvariant, PartsApart
      <4>2. CASE req[s].pc \in {"write", "rename"}
        <5>1. req[s].dir \in Dir /\ HasPart(s, req[s].dir) /\ HasPart(r, d)
          BY <1>1, <4>2 DEF FilesTypeOK, Resolved, UploadPc, HasPart
        <5>2. req[s].dir # d
          BY <1>1, <3>2, <5>1 DEF FilesInvariant, PartsApart
        <5>3. part'[req[s].dir] = part[req[s].dir]
          BY <1>1, <1>6, <5>1, <5>2 DEF FilesTypeOK
        <5>4. QED BY <1>2, <4>1, <5>3 DEF PartHolds
      <4>3. QED BY <4>1, <4>2 DEF PartHolds
    <3>3. QED BY <3>1, <3>2
  <2>3. \A q, s \in Transfer : \A e \in Dir : HasPart(q, e)' /\ HasPart(s, e)' => q = s
    BY <1>3 DEF HasPart, FilesInvariant, PartsApart
  <2>4. QED BY <2>1, <2>2, <2>3
<1>8. FilesAreWhole'
  <2> SUFFICES ASSUME ~overlap, NEW e \in Dir
               PROVE  \E u \in 0 .. uploads : inode[file'[e]] = Body(u)
    BY <1>2 DEF FilesAreWhole, Content
  <2>1. CASE e = d
    <3>1. file'[e] = part[d] /\ inode[part[d]] = Body(req[r].version)
      BY <1>1, <1>6, <2>1 DEF FilesTypeOK
    <3>2. req[r].version \in 0 .. uploads
      BY <1>1
    <3>3. QED BY <3>1, <3>2
  <2>2. CASE e # d
    <3>1. file'[e] = file[e]
      BY <1>1, <1>6, <2>2 DEF FilesTypeOK
    <3>2. QED BY <3>1 DEF FilesInvariant, FilesAreWhole, Content
  <2>3. QED BY <2>1, <2>2
<1>9. QED BY <1>2, <1>3, <1>5, <1>7, <1>8, UploadStays DEF FilesInvariant

\* A new configuration empties the cache; what is being resolved is then of an old one.
LEMMA ReconfigureKeeps ==
  ASSUME FilesInvariant, NEW d \in Dir \cup {NoDir}, reconfigureFiles(d) PROVE FilesInvariant'
<1> USE DEF FilesInvariant, reconfigureFiles, UnchangedFiles
<1>1. root' = d /\ real' = NoDir
  BY DEF reconfigureRoots
<1>2. FilesTypeOK'
  <2>1. \A s \in Transfer : Resolved(req[s])'
    BY DEF FilesTypeOK, Resolved
  <2>2. moves' \in Nat
    BY DEF FilesTypeOK
  <2>3. QED BY <1>1, <2>1, <2>2 DEF FilesTypeOK
<1>3. PartsApart'
  BY DEF PartsApart, PartHolds, HasPart
<1>4. FilesAreWhole' /\ OneSaves' /\ VerifiedIsSaved'
  BY DEF FilesAreWhole, Content, OneSaves, VerifiedIsSaved
<1>5. QED BY <1>2, <1>3, <1>4

-----------------------------------------------------------------------------
\* At first there is one version, and nobody asks for it.
LEMMA FilesInitInvariant == FilesInit => FilesInvariant
<1> SUFFICES ASSUME FilesInit PROVE FilesInvariant
  OBVIOUS
<1>1. Body(0) \in Seq(Nat)
  BY BodyType
<1> DEFINE body == Body(0)
<1> HIDE DEF body
<1>2. inode = <<body>> /\ body \in Seq(Nat) /\ DOMAIN inode = {1} /\ inode[1] = body
  <2>1. inode = <<body>> /\ body \in Seq(Nat)
    BY <1>1 DEF FilesInit, body
  <2>2. QED BY <2>1
<1>3. root \in Dir /\ real = NoDir
  BY FilesAssumption DEF FilesInit
<1>4. FilesTypeOK
  <2>1. req \in [Transfer -> Request] /\ \A r \in Transfer : Resolved(req[r])
    BY NoReqType DEF FilesInit, Resolved, NoReq, UploadPc, DownloadPc
  <2>2. target \in [by : Transfer \cup {0}, body : Seq(Nat)]
    BY DEF FilesInit
  <2>3. inode \in Seq(Seq(Nat))
    BY <1>2
  <2>4. QED BY <1>2, <1>3, <2>1, <2>2, <2>3 DEF FilesInit, FilesTypeOK
<1>5. FilesAreWhole
  <2>1. \A d \in Dir : Content(d) = Body(0)
    BY <1>2 DEF FilesInit, Content, body
  <2>2. 0 \in 0 .. uploads
    BY DEF FilesInit
  <2>3. QED BY <2>1, <2>2 DEF FilesAreWhole
<1>6. PartsApart /\ OneSaves /\ VerifiedIsSaved
  BY <1>3 DEF FilesInit, NoReq, PartsApart, PartHolds, HasPart, OneSaves, VerifiedIsSaved
<1>7. QED BY <1>4, <1>5, <1>6 DEF FilesInvariant

\* What a stutter leaves.
LEMMA FilesStutter ==
  ASSUME FilesInvariant, UNCHANGED fileVars PROVE FilesInvariant'
BY DEF fileVars, FilesInvariant, FilesTypeOK, Resolved, PartsApart, PartHolds, HasPart,
       FilesAreWhole, Content, OneSaves, VerifiedIsSaved

\* The invariant holds whatever requests and configurations follow each other.
THEOREM FilesInvariantHolds == FilesSpec => []FilesInvariant
<1>1. ASSUME FilesInvariant, FilesNext PROVE FilesInvariant'
  BY <1>1, RealRootKeeps, UploadKeeps, WriteOpenKeeps, WriteFileKeeps, WriteRenameKeeps, ReadKeeps,
     HashKeeps, StreamKeeps, SaveKeeps, GiveUpKeeps, ReconfigureKeeps DEF FilesNext
<1>2. FilesInvariant /\ [FilesNext]_fileVars => FilesInvariant'
  BY <1>1, FilesStutter
<1>3. QED BY <1>2, FilesInitInvariant, PTL DEF FilesSpec

\* However many uploads, downloads and moves of the folder overlap, a reader finds one
\* whole version, unless two uploads have written one temporary file (writeFile).
THEOREM FilesAreWholeHolds == FilesSpec => []FilesAreWhole
BY FilesInvariantHolds, PTL DEF FilesInvariant

\* A verified download has saved what the node has hashed, whichever of its reads found
\* another file, unless downloads to one target have mixed (download, hashFile, save).
THEOREM VerifiedIsSavedHolds == FilesSpec => []VerifiedIsSaved
BY FilesInvariantHolds, PTL DEF FilesInvariant

=============================================================================
