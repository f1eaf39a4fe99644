--------------------------- MODULE ServiceCatalog ---------------------------
(***************************************************************************)
(* What the service API promises about one host's services, with no files, *)
(* no supervisord and no handlers: a catalogue whose entries have a name   *)
(* and a path of their own, whose active entries have a port of their own, *)
(* and whose entries go  active <-> archived -> removed.  Every promise is *)
(* kept in the one step that changes the catalogue.                        *)
(***************************************************************************)
CONSTANTS Ids, Names, Paths, Ports, None

VARIABLE services

Entry == [name : Names, path : Paths, port : Ports, archived : BOOLEAN]

Listed == {i \in Ids : services[i] # None}
Active == {i \in Listed : ~services[i].archived}

Free(e, i) ==
  /\ \A k \in Listed \ {i} : services[k].name # e.name /\ services[k].path # e.path
  /\ \A k \in Active \ {i} : services[k].port # e.port

Put(i, e) == services' = [services EXCEPT ![i] = e]

Register(i, e) == i \notin Listed /\ ~e.archived /\ Free(e, i) /\ Put(i, e)

Replace(i, e)  == i \in Active /\ ~e.archived /\ Free(e, i) /\ Put(i, e)

Archive(i) == i \in Active /\ Put(i, [services[i] EXCEPT !.archived = TRUE])

Restore(i) == /\ i \in Listed \ Active
              /\ Free(services[i], i)
              /\ Put(i, [services[i] EXCEPT !.archived = FALSE])

Remove(i)  == i \in Listed \ Active /\ Put(i, None)

Init == /\ services \in [Ids -> Entry \cup {None}]
        /\ \A i \in Listed : ~services[i].archived /\ Free(services[i], i)

Next == /\ services' # services
        /\ \E i \in Ids : \/ \E e \in Entry : Register(i, e) \/ Replace(i, e)
                          \/ Archive(i)
                          \/ Restore(i)
                          \/ Remove(i)

Spec == Init /\ [][Next]_services
=============================================================================
