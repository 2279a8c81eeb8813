--------------------------- MODULE MCStructParser ---------------------------
(***************************************************************************)
(* Instances of StructParser: the types of two C++ modules.                *)
(*                                                                         *)
(*   typedef struct leaf { int x; int y; } leaf_t;                         *)
(*   struct regs { int r; };                                               *)
(*   struct alignas(64) node {                                             *)
(*     node *next; const leaf_t leaf; unsigned f : 3, g : 5;               *)
(*     alignas(32) void *data; regs *regs; void method(); };               *)
(*                                                                         *)
(*   struct item { static item *first; int x; };                           *)
(*                                                                         *)
(* The compiler lists the methods of a struct behind its fields, gives a   *)
(* static member the offset 0, and pads a struct with elements of its own. *)
(* Offsets are in bits.                                                    *)
(***************************************************************************)
EXTENDS StructParser, TLC

Other == [kind |-> "other", pointee |-> "i32", elements |-> <<>>]
Pointer(t) == [kind |-> "pointer", pointee |-> t, elements |-> <<>>]
Struct(es) == [kind |-> "struct", pointee |-> "i32", elements |-> es]
Element(t, o) == [type |-> t, offset |-> o]

MCIr ==
  "i8" :> Other @@ "i32" :> Other @@ "pad" :> Other @@ "i8*" :> Pointer("i8")
  @@ "leaf" :> Struct(<<Element("i32", 0), Element("i32", 32)>>)
  @@ "regs" :> Struct(<<Element("i32", 0)>>)
  @@ "node" :> Struct(<<Element("node*", 0), Element("leaf", 64), Element("i8", 128),
                        Element("pad", 136), Element("i8*", 256), Element("regs*", 320),
                        Element("pad", 384)>>)
  @@ "item" :> Struct(<<Element("i32", 0)>>)
  @@ "node*" :> Pointer("node") @@ "regs*" :> Pointer("regs") @@ "leaf*" :> Pointer("leaf")
  @@ "item*" :> Pointer("item")
MCTypes == DOMAIN MCIr

Debug(tag, base, name, offset, es) ==
  [tag |-> tag, base |-> base, name |-> name, offset |-> offset, elements |-> es]
Wrap(tag, base) == Debug(tag, base, "", 0, <<>>)
Field(base, name, offset) == Debug("member", base, name, offset, <<>>)
Aggregate(es) == Debug("structure", "null", "", 0, es)

MCDi ==
  "int" :> Wrap("other", "null") @@ "unsigned" :> Wrap("other", "null")
  @@ "leaf" :> Aggregate(<<"leaf.x", "leaf.y">>)
  @@ "leaf.x" :> Field("int", "x", 0) @@ "leaf.y" :> Field("int", "y", 32)
  @@ "leaf_t" :> Wrap("typedef", "leaf") @@ "const leaf_t" :> Wrap("const", "leaf_t")
  @@ "leaf_t*" :> Wrap("pointer", "const leaf_t")
  @@ "regs" :> Aggregate(<<"regs.r">>) @@ "regs.r" :> Field("int", "r", 0)
  @@ "regs*" :> Wrap("pointer", "regs")
  @@ "volatile regs" :> Wrap("volatile", "regs")
  @@ "node" :> Aggregate(<<"node.next", "node.leaf", "node.f", "node.g", "node.data",
                           "node.regs", "method">>)
  @@ "node.next" :> Field("node*", "next", 0) @@ "node.leaf" :> Field("const leaf_t", "leaf", 64)
  @@ "node.f" :> Field("unsigned", "f", 128) @@ "node.g" :> Field("unsigned", "g", 131)
  @@ "method" :> Wrap("subprogram", "null")
  @@ "node.data" :> Field("void*", "data", 256) @@ "node.regs" :> Field("regs*", "regs", 320)
  @@ "node*" :> Wrap("pointer", "node")
  @@ "const void" :> Wrap("const", "null")
  @@ "void*" :> Wrap("pointer", "null") @@ "const void*" :> Wrap("pointer", "const void")
  @@ "item" :> Aggregate(<<"item.first", "item.x">>)
  @@ "item.first" :> Field("item*", "first", 0) @@ "item.x" :> Field("int", "x", 0)
  @@ "item*" :> Wrap("pointer", "item")
MCDITypes == DOMAIN MCDi
MCVoid == {"const void"}

Variable(t, d) == [type |-> t, di |-> d, expression |-> FALSE]
NodeVariables ==
  {Variable("node*", "node*"), Variable("leaf*", "leaf_t*"),
   Variable("regs", "volatile regs"), Variable("regs*", "regs*"), Variable("i8*", "const void*"),
   [type |-> "node", di |-> "node", expression |-> TRUE]}
ItemVariables == {Variable("item", "item"), Variable("i32", "int")}

(* Up to three of them, in any order. *)
OrdersOf(S) == UNION {{s \in [1 .. n -> S] : \A k, l \in 1 .. n : s[k] = s[l] => k = l} : n \in 0 .. 3}
NodeOrders == OrdersOf(NodeVariables)
ItemOrders == OrdersOf(ItemVariables)

MCOwn == [t \in MCTypes |-> IF MCIr[t].kind = "struct" THEN t ELSE "null"]
MCFields ==
  [t \in MCTypes |->
     CASE t = "leaf" -> <<"x", "y">>
       [] t = "regs" -> <<"r">>
       [] t = "node" -> <<"next", "leaf", "f", "", "data", "regs", "">>
       [] t = "item" -> <<"x">>
       [] OTHER -> <<>>]
=============================================================================
