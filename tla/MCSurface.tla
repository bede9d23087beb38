---------------------------- MODULE MCSurface ----------------------------
(* Three pages of the operations console: the search form, and a member's  *)
(* accounts with one row of another account that comes and goes.  The      *)
(* links without a name and the two equal balances are what ordinals are   *)
(* for; the search button of the first page stands twice, once covered and *)
(* so without a ref.                                                       *)
EXTENDS SurfaceProtocol

Covered(node)    == [node EXCEPT !.hasRef = FALSE]
Text(node, text) == [node EXCEPT !.text = text]

SearchTree ==
  <<Node("main", "", 0), Node("link", "Member Search", 1), Node("group", "Look up", 1),
    Node("textbox", "Member ID", 3), Covered(Node("button", "Search", 3)),
    Node("button", "Search", 3)>>

AccountsTree ==
  <<Node("link", "", 0), Node("table", "", 0), Text(Node("caption", "", 2), "Accounts"),
    Node("row", "", 2), Node("rowheader", "Checking", 4), Node("cell", "100", 4),
    Node("row", "", 2), Node("rowheader", "Savings", 7), Node("cell", "100", 7),
    Node("link", "Transfer", 7), Node("link", "", 0)>>

SavingsFirstTree ==
  <<Node("link", "Transfer", 0), Node("table", "Accounts", 0),
    Node("row", "", 2), Node("rowheader", "Savings", 3), Node("cell", "100", 3),
    Node("link", "", 0)>>

MCPages == {"search", "accounts", "savings"}
MCTree  == [p \in MCPages |-> IF p = "search" THEN SearchTree
                              ELSE IF p = "accounts" THEN AccountsTree
                              ELSE SavingsFirstTree]
=============================================================================
