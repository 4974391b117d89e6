---------------------------- MODULE KeyContainer ----------------------------
(***************************************************************************)
(* The Decryptor's key service: the callback functions of the new-key, key,*)
(* delete-key and intermediate-result requests, each run by a handler of   *)
(* its own connection, and the KeyContainer they share, a map of key ids   *)
(* in memory and five files per id on disk.  Nothing locks either of them, *)
(* so an access to the map, or opening, saving, loading or removing one    *)
(* file, is an action.                                                     *)
(*                                                                         *)
(* What a file holds is the number of the key set saved in it.             *)
(***************************************************************************)
EXTENDS Integers, Sequences, FiniteSets

CONSTANTS
  Handler,      \* connections with a request in progress, at most
  KeyId,        \* what gen_uuid returns
  MaxKeys,      \* bound: new-key requests
  MaxRestarts,  \* bound: restarts of the Decryptor
  None

ASSUME KeyAssumption ==
  /\ MaxKeys \in Nat /\ MaxRestarts \in Nat
  /\ None \notin KeyId \cup 1 .. MaxKeys

Kind == {"pub", "sec", "galois", "relin", "param"}  \* KeyKind_t

SaveOrder == <<"pub", "sec", "param", "galois", "relin">>
RemoveOrder == <<"pub", "sec", "galois", "relin", "param">>
MidResultKeys == <<"sec", "pub", "param">>

Absent == 0   \* no such file
Torn == -1    \* the file is open for saving: empty, or cut off

VARIABLES
  map_,     \* KeyContainer::Impl::map_, the ids in it
  files,    \* the key files
  made,     \* made[n]: the id of the n-th key set
  pc,       \* what each handler does next
  hid,      \* the key id of its request
  hset,     \* the key set it makes, for a new-key request
  todo,     \* the files it still has to save, load or remove
  loaded,   \* what it has loaded
  held,     \* the <<key id, secret key>> pairs that users have received
  deleted,  \* history: ids somebody asked to delete
  restarts

handlerVars == <<pc, hid, hset, todo, loaded>>
vars == <<map_, files, made, pc, hid, hset, todo, loaded, held, deleted, restarts>>

KeySet == 1 .. MaxKeys
Content == KeySet \cup {Absent, Torn}

Init ==
  /\ map_ = {} /\ files = [id \in KeyId |-> [k \in Kind |-> Absent]]
  /\ made = <<>> /\ held = {} /\ deleted = {} /\ restarts = 0
  /\ pc = [h \in Handler |-> "free"]
  /\ hid = [h \in Handler |-> None]
  /\ hset = [h \in Handler |-> None]
  /\ todo = [h \in Handler |-> <<>>]
  /\ loaded = [h \in Handler |-> <<>>]

Known == {p[1] : p \in held}

Begin(h, step, id, set, kinds) ==
  /\ pc[h] = "free"
  /\ pc' = [pc EXCEPT ![h] = step]
  /\ hid' = [hid EXCEPT ![h] = id]
  /\ hset' = [hset EXCEPT ![h] = set]
  /\ todo' = [todo EXCEPT ![h] = kinds]
  /\ loaded' = [loaded EXCEPT ![h] = <<>>]

Proceed(h, step, kinds) ==
  /\ pc' = [pc EXCEPT ![h] = step]
  /\ todo' = [todo EXCEPT ![h] = kinds]
  /\ UNCHANGED <<hid, hset>>

\* The handler ends, having replied or because an exception left the callback.
End(h) ==
  /\ pc' = [pc EXCEPT ![h] = "free"]
  /\ hid' = [hid EXCEPT ![h] = None]
  /\ hset' = [hset EXCEPT ![h] = None]
  /\ todo' = [todo EXCEPT ![h] = <<>>]
  /\ loaded' = [loaded EXCEPT ![h] = <<>>]

\* map_.at(id) throws for an id that is not there.  It may miss one that is,
\* while another handler inserts into the table or erases from it.
Racing(h) == \E o \in Handler \ {h} : pc[o] \in {"emplace", "erase"}
Found(id) == id \in map_
Missed(h, id) == id \notin map_ \/ Racing(h)
-----------------------------------------------------------------------------
(***************************************************************************)
(* CallbackFunctionNewKeyRequest, new_keys and generate_keyfiles.          *)
(***************************************************************************)
\* gen_uuid returns the same id for two calls in the same second.
NewKeyRequest(h, id) ==
  /\ Len(made) < MaxKeys
  /\ Begin(h, "emplace", id, Len(made) + 1, SaveOrder)
  /\ made' = Append(made, id)
  /\ UNCHANGED <<map_, files, held, deleted, restarts>>

EmplaceAndReply(h) ==  \* mutant: the user gets the id before the files exist
  /\ pc[h] = "emplace"
  /\ map_' = map_ \cup {hid[h]}
  /\ held' = held \cup {<<hid[h], hset[h]>>}
  /\ Proceed(h, "open", todo[h])
  /\ UNCHANGED <<files, made, loaded, deleted, restarts>>

EmplaceKey(h) ==
  /\ pc[h] = "emplace"
  /\ map_' = map_ \cup {hid[h]}
  /\ Proceed(h, "open", todo[h])
  /\ UNCHANGED <<files, made, loaded, held, deleted, restarts>>

\* SEAL rejects the parameters: nothing has been saved, the id stays in map_.
GenerateThrows(h) ==
  /\ pc[h] = "open" /\ todo[h] = SaveOrder
  /\ End(h)
  /\ UNCHANGED <<map_, files, made, held, deleted, restarts>>

OpenKeyFile(h) ==
  /\ pc[h] = "open"
  /\ files' = [files EXCEPT ![hid[h]][Head(todo[h])] = Torn]
  /\ Proceed(h, "save", todo[h])
  /\ UNCHANGED <<map_, made, loaded, held, deleted, restarts>>

SaveKeyFileUnflushed(h) ==  \* mutant: the last file is not closed
  /\ pc[h] = "save"
  /\ IF Len(todo[h]) > 1
     THEN /\ files' = [files EXCEPT ![hid[h]][Head(todo[h])] = hset[h]]
          /\ Proceed(h, "open", Tail(todo[h]))
     ELSE UNCHANGED files /\ Proceed(h, "load", <<"sec">>)
  /\ UNCHANGED <<map_, made, loaded, held, deleted, restarts>>

SaveKeyFile(h) ==
  /\ pc[h] = "save"
  /\ files' = [files EXCEPT ![hid[h]][Head(todo[h])] = hset[h]]
  /\ IF Len(todo[h]) > 1
     THEN Proceed(h, "open", Tail(todo[h]))
     ELSE Proceed(h, "load", <<"sec">>)  \* the callback reads it back
  /\ UNCHANGED <<map_, made, loaded, held, deleted, restarts>>
-----------------------------------------------------------------------------
(***************************************************************************)
(* The key requests, and the part of CallbackFunctionCsMidResult that      *)
(* reads keys.  A client asks for an id that a user was given.             *)
(***************************************************************************)
KeyRequest(h, id, k) ==
  /\ Begin(h, "load", id, None, <<k>>)
  /\ UNCHANGED <<map_, files, made, held, deleted, restarts>>

CsMidResult(h, id) ==
  /\ Begin(h, "load", id, None, MidResultKeys)
  /\ UNCHANGED <<map_, files, made, held, deleted, restarts>>

\* data_size and get, or get_param, of one file.
LoadKeyFile(h) ==
  /\ pc[h] = "load" /\ Found(hid[h])
  /\ LET content == files[hid[h]][Head(todo[h])]
     IN content # Absent /\ loaded' = [loaded EXCEPT ![h] = Append(@, content)]
  /\ Proceed(h, IF Len(todo[h]) > 1 THEN "load" ELSE "reply", Tail(todo[h]))
  /\ UNCHANGED <<map_, files, made, held, deleted, restarts>>

LoadThrows(h) ==
  /\ pc[h] = "load"
  /\ Missed(h, hid[h]) \/ files[hid[h]][Head(todo[h])] = Absent
  /\ End(h)
  /\ UNCHANGED <<map_, files, made, held, deleted, restarts>>

\* The keys, or the PIR queries made with them, are sent.
SendReply(h) ==
  /\ pc[h] = "reply"
  /\ held' = IF hset[h] = None THEN held ELSE held \cup {<<hid[h], loaded[h][1]>>}
  /\ End(h)
  /\ UNCHANGED <<map_, files, made, deleted, restarts>>
-----------------------------------------------------------------------------
(***************************************************************************)
(* CallbackFunctionDeleteKeyRequest, delete_keys and remove_keyfiles.      *)
(***************************************************************************)
DeleteKeyRequest(h, id) ==
  /\ Begin(h, "at", id, None, RemoveOrder)
  /\ deleted' = deleted \cup {id}
  /\ UNCHANGED <<map_, files, made, held, restarts>>

FindKeyFiles(h) ==
  /\ pc[h] = "at" /\ Found(hid[h])
  /\ Proceed(h, "remove", todo[h])
  /\ UNCHANGED <<map_, files, made, loaded, held, deleted, restarts>>

FindThrows(h) ==
  /\ pc[h] = "at" /\ Missed(h, hid[h])
  /\ End(h)
  /\ UNCHANGED <<map_, files, made, held, deleted, restarts>>

RemoveKeyFileButLast(h) ==  \* mutant: "i < end" in remove_keyfiles
  /\ pc[h] = "remove" /\ files[hid[h]][Head(todo[h])] # Absent
  /\ files' = [files EXCEPT ![hid[h]][Head(todo[h])] = Absent]
  /\ Proceed(h, IF Len(todo[h]) > 2 THEN "remove" ELSE "erase", Tail(todo[h]))
  /\ UNCHANGED <<map_, made, loaded, held, deleted, restarts>>

RemoveKeyFile(h) ==
  /\ pc[h] = "remove" /\ files[hid[h]][Head(todo[h])] # Absent
  /\ files' = [files EXCEPT ![hid[h]][Head(todo[h])] = Absent]
  /\ Proceed(h, IF Len(todo[h]) > 1 THEN "remove" ELSE "erase", Tail(todo[h]))
  /\ UNCHANGED <<map_, made, loaded, held, deleted, restarts>>

\* A file is gone already: the files after it and the map entry stay.
RemoveThrows(h) ==
  /\ pc[h] = "remove" /\ files[hid[h]][Head(todo[h])] = Absent
  /\ End(h)
  /\ UNCHANGED <<map_, files, made, held, deleted, restarts>>

\* No response is sent.
EraseKey(h) ==
  /\ pc[h] = "erase"
  /\ map_' = map_ \ {hid[h]}
  /\ End(h)
  /\ UNCHANGED <<files, made, held, deleted, restarts>>
-----------------------------------------------------------------------------
RestartKeepsRequests ==  \* mutant: requests survive the process
  /\ restarts < MaxRestarts
  /\ restarts' = restarts + 1
  /\ map_' = {}
  /\ pc' = [h \in Handler |-> "free"]
  /\ UNCHANGED <<files, made, hid, hset, todo, loaded, held, deleted>>

\* The process ends at any moment and starts again: the map is empty, the
\* files are there.
Restart ==
  /\ restarts < MaxRestarts
  /\ restarts' = restarts + 1
  /\ map_' = {}
  /\ pc' = [h \in Handler |-> "free"]
  /\ hid' = [h \in Handler |-> None]
  /\ hset' = [h \in Handler |-> None]
  /\ todo' = [h \in Handler |-> <<>>]
  /\ loaded' = [h \in Handler |-> <<>>]
  /\ UNCHANGED <<files, made, held, deleted>>

Request(h) ==
  \/ \E id \in KeyId : NewKeyRequest(h, id)
  \/ \E id \in Known, k \in Kind \ {"sec"} : KeyRequest(h, id, k)
  \/ \E id \in Known : CsMidResult(h, id)
  \/ \E id \in Known : DeleteKeyRequest(h, id)

HandlerStep(h) ==
  \/ EmplaceKey(h) \/ GenerateThrows(h) \/ OpenKeyFile(h) \/ SaveKeyFile(h)
  \/ LoadKeyFile(h) \/ LoadThrows(h) \/ SendReply(h)
  \/ FindKeyFiles(h) \/ FindThrows(h)
  \/ RemoveKeyFile(h) \/ RemoveThrows(h) \/ EraseKey(h)

Next == (\E h \in Handler : Request(h) \/ HandlerStep(h)) \/ Restart

Spec == Init /\ [][Next]_vars
-----------------------------------------------------------------------------
\* Types, and that a free handler has no request.
TypeOK ==
  /\ map_ \subseteq KeyId
  /\ files \in [KeyId -> [Kind -> Content]]
  /\ made \in Seq(KeyId) /\ Len(made) <= MaxKeys
  /\ pc \in [Handler -> {"free", "emplace", "open", "save", "load", "reply",
                         "at", "remove", "erase"}]
  /\ hid \in [Handler -> KeyId \cup {None}]
  /\ hset \in [Handler -> KeySet \cup {None}]
  /\ todo \in [Handler -> Seq(Kind)]
  /\ loaded \in [Handler -> Seq(Content)]
  /\ held \subseteq KeyId \X Content
  /\ deleted \subseteq KeyId /\ restarts \in 0 .. MaxRestarts
  /\ \A h \in Handler : pc[h] = "free" <=> hid[h] = None

\* gen_uuid returned the id for one key set only.
Unique(id) == \E n \in DOMAIN made : \A m \in DOMAIN made : made[m] = id <=> m = n

\* A user who has been given a key id can rely on it: until somebody asks to
\* delete it, or the Decryptor restarts, the id is in the map and its five
\* files hold the key set of the user's secret key, complete.
GivenIsComplete ==
  \A p \in held :
    Unique(p[1]) /\ p[1] \notin deleted /\ restarts = 0 =>
      p[1] \in map_ /\ \A k \in Kind : files[p[1]][k] = p[2]

\* Whatever is being deleted, saved or restarted meanwhile, the keys that one
\* request has loaded are complete and of the id's one key set: the Decryptor
\* never encrypts PIR queries for another secret key than it decrypted with.
LoadsOneKeySet ==
  \A h \in Handler : hid[h] # None /\ Unique(hid[h]) =>
    \A i \in DOMAIN loaded[h] :
      loaded[h][i] \in DOMAIN made /\ made[loaded[h][i]] = hid[h]

\* Two deletions of an id, or a deletion and the reads of others, leave no
\* part of it behind: once no handler works on an id, it has all five files
\* and its map entry, or no file.  A restart may leave any part.
AllFilesOrNone ==
  \A id \in KeyId :
    Unique(id) /\ restarts = 0 /\ (\A h \in Handler : hid[h] # id) =>
      \/ \A k \in Kind : files[id][k] = Absent
      \/ id \in map_ /\ \A k \in Kind : files[id][k] \in KeySet
=============================================================================
