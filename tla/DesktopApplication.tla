------------------------- MODULE DesktopApplication -------------------------
(***************************************************************************)
(* The windows of the desktop application (apps/desktop: FilesystemBridge  *)
(* over the C bridge over kubeweft-local) on one data directory that other *)
(* clients, such as the command line, change at the same time.             *)
(*                                                                         *)
(* A button or a list item calls one handler of FilesystemBridge.  The     *)
(* handler makes its service calls one after the other on the GUI thread;  *)
(* each call takes effect in one step (FilesystemRefinement), except that  *)
(* read and write resolve the path one step before they use the file.      *)
(*                                                                         *)
(* Abstractions.  A path is the sequence of its components.  The texts of  *)
(* a file are content ids, the empty text of a file that was never written *)
(* is NoContent.  Status lines are left out.                               *)
(***************************************************************************)
EXTENDS MetadataSnapshot

CONSTANTS Windows,        \* desktop processes
          HomePath,       \* /home/user
          MaxDepth,       \* bound on the depth of the directory shown
          MaxGeneration   \* bound on the generations of files

VARIABLES metadata,  \* the filesystem
          issued,    \* ids in use, now or before
          window,    \* what each window shows
          call       \* the handler each window runs: its next step and inputs

vars == <<metadata, issued, window, call>>

Kinds == {"file", "directory"}

\* The fields of FilesystemBridge; open says that filesystem_ is not null.
Views == [open : BOOLEAN, currentPath : Seq(Names), entries : SUBSET (Names \X Kinds),
          selectedPath : Seq(Names), content : ContentIds \cup {NoContent},
          generation : Nat]

Steps == {"stat home", "mkdir home", "idle", "list", "resolve", "load", "stat",
          "mkdir", "create", "stat created", "open", "commit", "remove"}

\* at: the path, or the prefix of HomePath.  then: what follows refresh().
\* file: what the path was resolved to.  text: what was read, or is written.
Handlers == [step : Steps, at : Seq(Names), then : {"idle", "resolve"},
             file : FileIds \cup {Root}, text : ContentIds \cup {NoContent}]

\* A window as its constructor finds it, before kubeweft_desktop_open.
Init ==
  /\ metadata = DefaultSnapshot
  /\ issued = {Root}
  /\ window = [w \in Windows |->
       [open |-> FALSE, currentPath |-> HomePath, entries |-> {},
        selectedPath |-> <<>>, content |-> NoContent, generation |-> 0]]
  /\ call = [w \in Windows |->
       [step |-> "stat home", at |-> SubSeq(HomePath, 1, 1), then |-> "idle",
        file |-> Root, text |-> NoContent]]

-----------------------------------------------------------------------------
(* Paths *)

Split(path) == [parents |-> SubSeq(path, 1, Len(path) - 1), name |-> path[Len(path)]]

ChildPath(w, name) == Append(window[w].currentPath, name)

EntryAt(s, path) ==
  {e \in s.entries : /\ e.parent \in ResolveDirectory(s, Split(path).parents)
                     /\ e.name = Split(path).name}

\* EntryMetadata::generation of what the path names, a file or a directory.
StatGeneration(s, path) ==
  {IF e.target \in FileIds THEN s.files[e.target].generation
                           ELSE s.directories[e.target] : e \in EntryAt(s, path)}

-----------------------------------------------------------------------------
(* Handlers *)

\* The handler goes on with a step.
Goto(w, step) == call' = [call EXCEPT ![w].step = step]

\* A handler begins with a service call on a path.
Begin(w, step, path, text) ==
  /\ call[w].step = "idle"
  /\ call' = [call EXCEPT ![w] =
       [step |-> step, at |-> path, then |-> "idle", file |-> Root, text |-> text]]
  /\ UNCHANGED <<metadata, issued>>

\* currentPath_ = path, clearSelection and refresh, which does nothing while
\* filesystem_ is null.
ShowDirectory(w, path) ==
  /\ Begin(w, IF window[w].open THEN "list" ELSE "idle", path, NoContent)
  /\ window' = [window EXCEPT ![w].currentPath = path, ![w].selectedPath = <<>>,
                              ![w].content = NoContent, ![w].generation = 0]

OpenDirectory(w) ==
  \E name \in Names :
    /\ <<name, "directory">> \in window[w].entries
    /\ Len(window[w].currentPath) < MaxDepth
    /\ ShowDirectory(w, ChildPath(w, name))

OpenFile(w) ==
  \E name \in Names :
    /\ <<name, "file">> \in window[w].entries
    /\ Begin(w, "resolve", ChildPath(w, name), NoContent)
    /\ UNCHANGED window

Up(w) ==
  /\ window[w].currentPath # <<>>
  /\ ShowDirectory(w, Split(window[w].currentPath).parents)

CreateDirectory(w) ==
  \E name \in Names :
    Begin(w, "mkdir", ChildPath(w, name), NoContent) /\ UNCHANGED window

CreateFile(w) ==
  \E name \in Names :
    Begin(w, "create", ChildPath(w, name), NoContent) /\ UNCHANGED window

Save(w) ==
  /\ window[w].selectedPath # <<>>
  /\ \E text \in ContentIds : Begin(w, "open", window[w].selectedPath, text)
  /\ UNCHANGED window

RemoveSelected(w) ==
  /\ window[w].selectedPath # <<>>
  /\ Begin(w, "remove", window[w].selectedPath, NoContent)
  /\ UNCHANGED window

-----------------------------------------------------------------------------
(* What the service calls change *)

MkdirAt(w) ==
  \E id \in DirIds \ issued :
    /\ metadata' \in Mkdir(metadata, Split(call[w].at), id)
    /\ issued' = issued \cup {id}

CreateAt(w) ==
  \E id \in FileIds \ issued :
    /\ metadata' \in Create(metadata, Split(call[w].at), id)
    /\ issued' = issued \cup {id}

\* The bytes are stored and the new version is committed, if the file still has
\* the generation that the window shows.
WriteFile(w) ==
  LET f == call[w].file
  IN  /\ HasFile(metadata, f)
      /\ metadata.files[f].generation = window[w].generation
      /\ metadata.files[f].generation < MaxGeneration
      /\ \E n \in Nodes : metadata' = CommitWrite(metadata, f, call[w].text, n)
      /\ UNCHANGED issued

RemoveAt(w) == metadata' \in Remove(metadata, Split(call[w].at)) /\ UNCHANGED issued

-----------------------------------------------------------------------------
(* kubeweft_desktop_open: LocalFilesystem::ensure_directory_tree, then refresh *)

\* The next component of /home/user, or the end of the constructor.
NextComponent(w) ==
  LET depth == Len(call[w].at)
  IN  IF depth < Len(HomePath)
      THEN /\ call' = [call EXCEPT ![w].step = "stat home",
                                   ![w].at = SubSeq(HomePath, 1, depth + 1)]
           /\ UNCHANGED window
      ELSE /\ Goto(w, "list")
           /\ window' = [window EXCEPT ![w].open = TRUE]

StatHome(w) ==
  /\ call[w].step = "stat home"
  /\ \/ /\ ResolveDirectory(metadata, call[w].at) # {}
        /\ NextComponent(w)
     \/ /\ EntryAt(metadata, call[w].at) = {}
        /\ Goto(w, "mkdir home")
        /\ UNCHANGED window
  /\ UNCHANGED <<metadata, issued>>

MakeHome(w) ==
  /\ call[w].step = "mkdir home"
  /\ MkdirAt(w)
  /\ NextComponent(w)

-----------------------------------------------------------------------------
(* The service calls of the other handlers *)

\* refresh
List(w) ==
  /\ call[w].step = "list"
  /\ \E d \in ResolveDirectory(metadata, window[w].currentPath) :
       window' = [window EXCEPT ![w].entries =
         {<<e.name, IF e.target \in FileIds THEN "file" ELSE "directory">> :
            e \in Listing(metadata, d)}]
  /\ Goto(w, call[w].then)
  /\ UNCHANGED <<metadata, issued>>

\* FilesystemService::read and ::write: the path is resolved to a file.
ResolvePath(w) ==
  /\ call[w].step \in {"resolve", "open"}
  /\ \E f \in ResolveFile(metadata, Split(call[w].at)) :
       call' = [call EXCEPT ![w].file = f,
                            ![w].step = IF @ = "open" THEN "commit" ELSE "load"]
  /\ UNCHANGED <<metadata, issued, window>>

\* ... and the file's content is read.
Load(w) ==
  /\ call[w].step = "load"
  /\ HasFile(metadata, call[w].file)
  /\ call' = [call EXCEPT ![w].step = "stat",
                          ![w].text = metadata.files[call[w].file].manifest]
  /\ UNCHANGED <<metadata, issued, window>>

\* The second call of kubeweft_desktop_read, and the end of openEntry.
Stat(w) ==
  /\ call[w].step = "stat"
  /\ \E g \in StatGeneration(metadata, call[w].at) :
       window' = [window EXCEPT ![w].selectedPath = call[w].at,
                                ![w].content = call[w].text,
                                ![w].generation = g]
  /\ Goto(w, "idle")
  /\ UNCHANGED <<metadata, issued>>

MakeDirectory(w) ==
  /\ call[w].step = "mkdir"
  /\ MkdirAt(w)
  /\ Goto(w, "list")
  /\ UNCHANGED window

MakeFile(w) ==
  /\ call[w].step = "create"
  /\ CreateAt(w)
  /\ Goto(w, "stat created")
  /\ UNCHANGED window

\* FilesystemService::create ends with a stat; then refresh and openEntry.
StatCreated(w) ==
  /\ call[w].step = "stat created"
  /\ ResolveFile(metadata, Split(call[w].at)) # {}
  /\ call' = [call EXCEPT ![w].step = "list", ![w].then = "resolve"]
  /\ UNCHANGED <<metadata, issued, window>>

Commit(w) ==
  /\ call[w].step = "commit"
  /\ WriteFile(w)
  /\ window' = [window EXCEPT ![w].content = call[w].text,
                              ![w].generation = metadata'.files[call[w].file].generation]
  /\ Goto(w, "list")

RemovePath(w) ==
  /\ call[w].step = "remove"
  /\ RemoveAt(w)
  /\ window' = [window EXCEPT ![w].selectedPath = <<>>, ![w].content = NoContent,
                              ![w].generation = 0]
  /\ Goto(w, "list")

\* A service call fails: it is impossible, it loses every swap, a file does not
\* hold text, filesystem_ is null; or the store fails, before the change or after
\* it.  The handler returns and leaves the window as it is, except that
\* createFile goes on after a refresh that failed.
CallFails(w) ==
  /\ call[w].step # "idle"
  /\ \/ UNCHANGED <<metadata, issued>>
     \/ call[w].step \in {"mkdir home", "mkdir"} /\ MkdirAt(w)
     \/ call[w].step = "create" /\ CreateAt(w)
     \/ call[w].step = "commit" /\ WriteFile(w)
     \/ call[w].step = "remove" /\ RemoveAt(w)
  /\ Goto(w, IF call[w].step = "list" THEN call[w].then ELSE "idle")
  /\ UNCHANGED window

-----------------------------------------------------------------------------
(* Another client, such as `kubeweft fs`, makes a change.  A write of it that
   succeeds has the same effect with the expected generation and without. *)

OtherCalls ==
  Mkdirs \cup Creates \cup Renames \cup Removes
    \cup [kind : {"write"}, at : Paths, content : ContentIds, node : Nodes, expected : {0}]

Elsewhere ==
  /\ \E o \in OtherCalls, f \in FileIds :
       /\ o.kind \in {"mkdir", "create"} => o.id \notin issued
       /\ o.kind = "write" => metadata.files[f].generation \in 1..(MaxGeneration - 1)
       /\ metadata' \in Effect(metadata, o, f)
       /\ issued' = IF o.kind \in {"mkdir", "create"} THEN issued \cup {o.id} ELSE issued
  /\ UNCHANGED <<window, call>>

Click(w) ==
  \/ OpenDirectory(w) \/ OpenFile(w) \/ Up(w) \/ CreateDirectory(w) \/ CreateFile(w)
  \/ Save(w) \/ RemoveSelected(w)

HandlerStep(w) ==
  /\ window[w].open \/ call[w].step \in {"stat home", "mkdir home"}
  /\ \/ StatHome(w) \/ MakeHome(w) \/ List(w) \/ ResolvePath(w) \/ Load(w) \/ Stat(w)
     \/ MakeDirectory(w) \/ MakeFile(w) \/ StatCreated(w) \/ Commit(w) \/ RemovePath(w)

Next ==
  \/ \E w \in Windows : Click(w) \/ HandlerStep(w) \/ CallFails(w)
  \/ Elsewhere

Spec == Init /\ [][Next]_vars

-----------------------------------------------------------------------------
(* Properties *)

\* The types of the variables.
TypeOK ==
  /\ metadata \in Snapshots
  /\ issued \subseteq FileIds \cup DirIds
  /\ window \in [Windows -> Views]
  /\ call \in [Windows -> Handlers]

\* "A supplied generation protects a client's previously-read version"
\* (service.rs:110).  The desktop supplies the generation it shows beside the
\* text: a save that succeeds replaces the text that its window shows.
SaveReplacesWhatWasShown ==
  [][\A w \in Windows :
       Commit(w) => metadata.files[call[w].file].manifest = window[w].content]_vars
=============================================================================
