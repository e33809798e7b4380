-------------------------- MODULE WorkspaceFileTool --------------------------
(***************************************************************************)
(* governed-runtime/adapters/workspace-file.adapter.ts: the tool that      *)
(* carries out a file action the policy admitted, in the directory of an   *)
(* organization.  A result is its code, the directories made and the files *)
(* opened; "OPENED" stands for every result after a file was opened (a     *)
(* size limit or a late timeout).  The content has been checked by         *)
(* assertTrustedOperation, and the host does not change during a call.     *)
(***************************************************************************)
EXTENDS ExecutionPolicy

SUPPORTED_ACTIONS == {"READ_FILE", "CREATE_FILE", "WRITE_FILE"}

-----------------------------------------------------------------------------
(* The host's own lookup: every link is followed, a dangling one too.      *)

Looked(host, entry) == IF entry \in DOMAIN host.links THEN host.links[entry] ELSE entry

hostLookup(host, path) ==
  LET at[n \in 0..Len(path)] ==
        IF n = 0 THEN <<>> ELSE Looked(host, Append(at[n - 1], path[n]))
  IN  at[Len(path)]

\* What lstat looks at: a link at the end of the path is not followed.
Entry(host, path) ==
  IF path = <<>> THEN <<>> ELSE Append(hostLookup(host, Front(path)), Last(path))

isSymbolicLink(host, path) == Entry(host, path) \in DOMAIN host.links
pathExists(host, path) == isSymbolicLink(host, path) \/ Entry(host, path) \in host.there

\* mkdir with recursive: the directories below the nearest one that exists.
NotThere(host, path) ==
  {n \in 1..Len(path) : \A m \in n..Len(path) : ~pathExists(host, SubSeq(path, 1, m))}
mkdir(host, path) == {hostLookup(host, SubSeq(path, 1, n)) : n \in NotThere(host, path)}

-----------------------------------------------------------------------------
(* The tool.                                                               *)

failed(code) == [code |-> code, made |-> {}, opened |-> {}]

resolveExistingInside(host, target, base) ==
  IF ~pathExists(host, target) THEN failed("FILE_NOT_FOUND")
  ELSE IF isSymbolicLink(host, target) \/ ~Inside(hostLookup(host, target), base)
    THEN failed("SYMLINK_ESCAPE")
  ELSE [code |-> "OPENED", made |-> {}, opened |-> {hostLookup(host, target)}]

readFile(host, target, base) == resolveExistingInside(host, target, base)
writeFile(host, target, base) == resolveExistingInside(host, target, base)

createFile(host, target, base) ==
  IF isSymbolicLink(host, target) THEN failed("SYMLINK_ESCAPE")
  ELSE IF pathExists(host, target) THEN failed("FILE_ALREADY_EXISTS")
  ELSE LET parent     == Front(target)
           parentReal == hostLookup(host, parent)
           made       == mkdir(host, parent)
       IN  IF ~Inside(parentReal, base)
           THEN [code |-> "SYMLINK_ESCAPE", made |-> made, opened |-> {}]
           ELSE [code |-> "OPENED", made |-> made, opened |-> {Append(parentReal, Last(target))}]

carryOut(action, host, target, base) ==
  CASE action = "READ_FILE"   -> readFile(host, target, base)
    [] action = "CREATE_FILE" -> createFile(host, target, base)
    [] action = "WRITE_FILE"  -> writeFile(host, target, base)

\* The nearest ancestor that lstat finds.
probe(host, target) ==
  SubSeq(target, 1, Max({0} \cup {n \in 1..Len(target) : pathExists(host, SubSeq(target, 1, n))}))

\* fs.realpath throws when nothing is there.  The path is taken as requested.
execute(ctx, workingDirectory) ==
  LET host     == ctx.host
      baseReal == hostLookup(host, workingDirectory)
      target   == resolvePath(baseReal, ctx.requestedPath)
      anchor   == probe(host, target)
  IN  IF ctx.requestedAction \notin SUPPORTED_ACTIONS THEN failed("UNSUPPORTED_ACTION")
      ELSE IF ctx.requestedPath = ABSENT THEN failed("TARGET_PATH_REQUIRED")
      ELSE IF baseReal \notin host.there THEN failed("FILE_TOOL_ERROR")
      ELSE IF ~Inside(target, baseReal) \/ ~Inside(anchor, baseReal) THEN failed("PATH_ESCAPE")
      ELSE IF hostLookup(host, anchor) \notin host.there THEN failed("FILE_TOOL_ERROR")
      ELSE IF ~Inside(hostLookup(host, anchor), baseReal) THEN failed("SYMLINK_ESCAPE")
      ELSE carryOut(ctx.requestedAction, host, target, baseReal)
=============================================================================
