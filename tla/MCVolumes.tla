------------------------------- MODULE MCVolumes -------------------------------
(* Volumes of eight records: $MFT, the root, a directory whose parent may come     *)
(* after it, wanted files of every kind, and two records that extend one of them. *)
EXTENDS Integers, Sequences

R(st, base, used, std, names, data, list) ==
  [state |-> st, base |-> base, used |-> used, std |-> std,
   names |-> names, data |-> data, list |-> list]
N(name, parent, rank) == [name |-> name, parent |-> parent, rank |-> rank]
A(res, vcn, runs, real, init, unit) ==
  [resident |-> res, vcn |-> vcn, runs |-> runs, real |-> real, init |-> init, unit |-> unit]
Run(lcn, n) == [lcn |-> lcn, length |-> n]
E(type, ref) == [type |-> type, ref |-> ref]

Plain(name, parent, data) == R("ok", 0, TRUE, FALSE, <<N(name, parent, 0)>>, data, <<>>)
Dir(name, parent) == Plain(name, parent, <<>>)
Inside == A(TRUE, 0, <<>>, 3, 3, 0)
Packed == A(FALSE, 0, <<Run(20, 1), Run(-1, 1)>>, 4, 4, 2)
Flat == A(FALSE, 0, <<Run(30, 2)>>, 4, 3, 0)
Seg0(init, u) == A(FALSE, 0, <<Run(40, 1), Run(-1, 1)>>, 7, init, u)
Seg2 == A(FALSE, 2, <<Run(50, 2)>>, 7, 0, 0)

Gone(r) == [r EXCEPT !.state = "unreadable"]
Torn(r) == [r EXCEPT !.state = "badfixup"]
Unused(r) == [r EXCEPT !.used = FALSE]
Listed(own, std, list) == R("ok", 0, TRUE, std, <<N("DOS~1", 2, 3), N("b.evtx", 2, 0)>>, own, list)

Slot2 == {Dir("dir", 1), Dir("$Recycle.Bin", 1), Dir("dir", 5), Unused(Dir("old", 1))}
Slot3 == {Plain("a.evtx", p, <<d>>) : p \in {1, 2}, d \in {Inside, Packed, Flat}}
         \cup {Plain("$Ixyz", p, <<Inside>>) : p \in {1, 2}}
         \cup {Torn(Plain("a.evtx", 1, <<Packed>>)), Unused(Plain("a.evtx", 1, <<Packed>>)),
               Plain("a.evtx", 7, <<>>)}
Two == <<E("name", 4), E("data", 7), E("data", 6)>>
Slot4 == {Listed(<<>>, FALSE, Two), Listed(<<>>, TRUE, Two), Listed(<<Seg0(7, 0)>>, FALSE, <<E("data", 7)>>),
          Listed(<<Inside>>, FALSE, <<>>),
          R("ok", 0, TRUE, FALSE, <<>>, <<>>, <<E("name", 6), E("name", 7), E("data", 6)>>)}
Slot5 == {Dir("sub", 1), Dir("sub", 2), Gone(Dir("sub", 1))}
Ext(st, data) == R(st, 4, TRUE, FALSE, <<>>, data, <<>>)
NameExt == R("ok", 4, TRUE, FALSE, <<N("b.evtx", 2, 1)>>, <<>>, <<>>)
Slot6(r) == IF r.std THEN {Ext("ok", <<Seg0(7, 2)>>)}
            ELSE IF r.data # <<>> THEN {Unused(Dir("y", 1))}
            ELSE {Ext("ok", <<Seg0(7, 0)>>), Ext("badfixup", <<Seg0(0, 0)>>), Ext("unreadable", <<Seg0(7, 0)>>)}
Slot7(r) == IF r.names = <<>> THEN {NameExt} ELSE IF r.list = <<>> THEN {Unused(Dir("x", 1))} ELSE {Ext("ok", <<Seg2>>)}

MCMfts ==
  UNION {{<<Plain("$MFT", 1, <<Flat>>), Dir(".", 1), a, b, c, d, e, f>> :
            a \in Slot2, b \in Slot3, d \in Slot5, e \in Slot6(c), f \in Slot7(c)} : c \in Slot4}
=============================================================================
