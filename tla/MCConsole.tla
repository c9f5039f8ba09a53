----------------------------- MODULE MCConsole -----------------------------
(* The console's parts, one at a time. *)
EXTENDS Lists, Worklists, CountSheet, DeliveryForm, Drawers, AskForm, Shortfall

VARIABLE part   \* the part this behaviour is about

Login == {"mg", "s1", "s2", "ki", "cl"}
Roles == [u \in Login |-> CASE u = "mg" -> "management" [] u \in {"s1", "s2"} -> "storekeeper"
                            [] u = "ki" -> "kitchen" [] u = "cl" -> "cleaning"]
OrdersOf == [A |-> "s1", B |-> Anyone]
Held == {[a |-> n, b |-> 0] : n \in 0..1}
Requests == [p |-> [x |-> 2]]

\* These work like ItemsScreen, WastageScreen and SectionReturnsScreen under another
\* name, so those are checked for them.
Doubles == {SuppliersScreen, SupplierReturnsScreen, UsersScreen}

vars == <<part, listVars, worklistVars, sheetVars, formVars, drawerVars, askVars, shortVars>>

Init ==
    /\ part \in {"lists", "worklists", "sheet", "form", "drawer", "ask", "shortfall"}
    /\ ListsInit /\ WorklistsInit /\ CountSheetInit /\ DeliveryFormInit /\ DrawersInit
    /\ AskFormInit /\ ShortfallInit
    /\ part # "drawer" => drawer = ReturnDrawer
    /\ part # "shortfall" => shelf = [i \in BuyItem |-> 0]
    /\ part # "lists" => screen = CountsScreen /\ DealtWith = {}
    /\ screen \notin Doubles

Next ==
    /\ part' = part
    /\ \/ /\ part = "lists" /\ ListsNext
          /\ UNCHANGED <<worklistVars, sheetVars, formVars, drawerVars, askVars, shortVars>>
       \/ /\ part = "worklists" /\ WorklistsNext
          /\ UNCHANGED <<listVars, sheetVars, formVars, drawerVars, askVars, shortVars>>
       \/ /\ part = "sheet" /\ CountSheetNext
          /\ UNCHANGED <<listVars, worklistVars, formVars, drawerVars, askVars, shortVars>>
       \/ /\ part = "form" /\ DeliveryFormNext
          /\ UNCHANGED <<listVars, worklistVars, sheetVars, drawerVars, askVars, shortVars>>
       \/ /\ part = "drawer" /\ DrawersNext
          /\ UNCHANGED <<listVars, worklistVars, sheetVars, formVars, askVars, shortVars>>
       \/ /\ part = "ask" /\ AskFormNext
          /\ UNCHANGED <<listVars, worklistVars, sheetVars, formVars, drawerVars, shortVars>>
       \/ /\ part = "shortfall" /\ ShortfallNext
          /\ UNCHANGED <<listVars, worklistVars, sheetVars, formVars, drawerVars, askVars>>

Spec == Init /\ [][Next]_vars
=============================================================================
