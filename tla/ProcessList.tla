---------------------------- MODULE ProcessList ----------------------------
(***************************************************************************)
(* The kernel's process lists (process_list.c).  A doubly linked list with *)
(* a dummy head is the sequence of the pids of its nodes, head first; the  *)
(* six lists of list_pointer[] are one function from list numbers to       *)
(* sequences.                                                              *)
(***************************************************************************)
EXTENDS Integers, Sequences, SequencesExt

\* The six entries of list_pointer[], by index.
ReadyHigh  == 0
ReadyMed   == 1
ReadyLow   == 2
Blocked    == 3
Stopped    == 4
Zombie     == 5

ListId     == 0 .. 5
ReadyLists == {ReadyHigh, ReadyMed, ReadyLow}

On(list, pid) == pid \in Range(list)

k_add_head(list, pid) == <<pid>> \o list

k_add_tail(list, pid) == Append(list, pid)

FirstNode(list, pid) ==
    CHOOSE i \in DOMAIN list :
        list[i] = pid /\ \A j \in 1 .. i - 1 : list[j] # pid

\* k_delete unlinks the first node of the list with that pid, if there is one.
k_delete(list, pid) ==
    IF On(list, pid) THEN RemoveAt(list, FirstNode(list, pid)) ELSE list

\* The lists in which k_get_node_by_pid_in_multiple_lists finds the pid.
ListsOf(lists, pid) == {l \in ListId : On(lists[l], pid)}

Listed(lists, pid) == ListsOf(lists, pid) # {}

k_delete_in_processlists(lists, pid) ==
    [l \in ListId |-> k_delete(lists[l], pid)]

DeleteFrom(lists, pid, l) == [lists EXCEPT ![l] = k_delete(@, pid)]
AddTail(lists, pid, l)    == [lists EXCEPT ![l] = k_add_tail(@, pid)]
AddHead(lists, pid, l)    == [lists EXCEPT ![l] = k_add_head(@, pid)]

\* The idiom of process_control.c: delete a pid wherever it is listed, then
\* append it to one list.
MoveTo(lists, pid, target) ==
    AddTail(k_delete_in_processlists(lists, pid), pid, target)

\* Delete a pid from one list and append it to another.
Shift(lists, pid, source, target) ==
    AddTail(DeleteFrom(lists, pid, source), pid, target)
=============================================================================
