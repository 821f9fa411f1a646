----------------------------- MODULE DMTreeJNI -----------------------------
(***************************************************************************)
(* The JNI natives of src/engine/jni/DMTreeManager.cc: the lazily opened   *)
(* static tree pointer ptrTree, the static text buffer resultBuf that      *)
(* strcatEx appends to and the string natives return, and the JNI strings  *)
(* each native obtains from Java and must release.                        *)
(*                                                                         *)
(* The DmtTree engine behind ptrTree is outside src/: every call into it   *)
(* (GetSubtree, GetNode, SetStringValue, Execute, Create*Node, DeleteNode, *)
(* GetPath, GetAttributes, GetValue, GetChildNodes) is a nondeterministic  *)
(* success or failure.  Text is abstracted to tagged pieces with a length  *)
(* in bytes; the formatting itself is left out.                            *)
(***************************************************************************)
EXTENDS Integers, Sequences, SequencesExt

CONSTANTS
    RESULT_BUF_SIZE,   \* size of resultBuf (8192 in the code)
    MsgLen,            \* bytes strcatEx would format for each kind of text
    Nodes,             \* the nodes of the (fixed) tree behind ptrTree
    Children,          \* Children[n]: the child nodes of n, in order
    ArraySizes,        \* lengths of the byte arrays passed to createLeafByte
    NoString,          \* model value: the last native returned a jint
    NoDump,            \* model value: the last native was not a dumpTree
    WbxmlLens          \* lengths of the arrays passed to ConvertWbxml2Xml

ASSUME RESULT_BUF_SIZE \in Nat /\ RESULT_BUF_SIZE >= 2

SUCCESS == "SYNCML_DM_SUCCESS"
FAIL == "SYNCML_DM_FAIL"

IsLeaf(n) == Children[n] = <<>>

\* The C int (32 bits, two's complement) x * k holds for 0 <= x < 2^31
\* and a small k >= 0, computed in 16-bit halves so that no intermediate
\* value leaves TLC's own 32-bit integers.
Int32Times(x, k) ==
    LET lo == k * (x % 2^16)
        hi == (k * (x \div 2^16) + lo \div 2^16) % 2^16
    IN  IF hi >= 2^15 THEN (hi - 2^16) * 2^16 + (lo % 2^16)
                      ELSE hi * 2^16 + (lo % 2^16)

(***************************************************************************)
(* resultBuf as the sequence of pieces written into it.  A piece records   *)
(* what it says (tag) and how many bytes of it fitted (n).                  *)
(***************************************************************************)
Piece == [tag : DOMAIN MsgLen, n : Nat]

\* strlen(resultBuf)
BufLen(buf) == FoldLeft(LAMBDA acc, p : acc + p.n, 0, buf)

\* Fault the bound must catch: the size argument of vsnprintf two too large.
WriteLimitOffByOne(len) == RESULT_BUF_SIZE - len + 1

\* The size argument strcatEx passes to vsnprintf.
WriteLimit(len) == RESULT_BUF_SIZE - len - 1

(***************************************************************************)
(* strcatEx(format, ...): if len < RESULT_BUF_SIZE - 1, vsnprintf writes   *)
(* at most WriteLimit(len) - 1 characters and a NUL at &resultBuf[len].    *)
(* The encoding-error return -1 is not modelled (plain %s/%d formats).     *)
(***************************************************************************)
strcatEx(buf, tag) ==
    LET len == BufLen(buf)
        lim == WriteLimit(len)
        w   == IF MsgLen[tag] < lim - 1 THEN MsgLen[tag] ELSE lim - 1
    IN  IF len < RESULT_BUF_SIZE - 1 /\ w > 0
        THEN Append(buf, [tag |-> tag, n |-> w])
        ELSE buf

\* resultBuf[0] = 0x0.
ResetResult(buf) == <<>>

VARIABLES
    ptrTree,      \* the static PDmtTree is non-NULL
    resultBuf,    \* the static text buffer, as pieces
    e,            \* the static PDmtErrorDescription, as [code, text]
    returned,     \* what the last native returned: resultBuf's text or NoString
    jret,         \* the jint the last int native returned
    held,         \* JNI strings and array elements the last native obtained
                  \* and did not release
    readPastEnd,  \* a createLeafByte has read past the end of pData
    xmlAlloc,     \* the last ConvertWbxml2Xml's input length and xmlLen
    lastDump,     \* the last dumpTree's node, engine faults and visited nodes
    natives       \* the C functions Java can call: bound by registerDMTreeNatives

vars == <<ptrTree, resultBuf, e, returned, jret, held, readPastEnd, xmlAlloc,
          lastDump, natives>>

\* The error descriptor class, over the global e; an engine call returns
\* SYNCML_DM_SUCCESS (0) or an error (1).
ED == INSTANCE ErrorDescription WITH ErrCodes <- {0, 1}, GarbageCodes <- {}

(***************************************************************************)
(* A native's working state: ptrTree, resultBuf and e as the call leaves   *)
(* them so far, the node pointer GetNode returned, and (bookkeeping for    *)
(* DumpVisitsReachable) the nodes DumpSubTree has been called on.          *)
(***************************************************************************)
Ctx0 == [tree |-> ptrTree, buf |-> resultBuf, e |-> e, node |-> FALSE,
         visited |-> {}]

\* resultBuf[0] = 0x0 at the start of setStringNode, getNodeInfo,
\* executePlugin and dumpTree.
StrCtx == [Ctx0 EXCEPT !.buf = ResetResult(@)]

\* "e = <engine call>": the call succeeded (ok) or returned an error.
SetE(c, ok) == [c EXCEPT !.e = ED!Assign(@, IF ok THEN 0 ELSE 1).desc]

AppendText(c, tag) == [c EXCEPT !.buf = strcatEx(@, tag)]

(***************************************************************************)
(* GetTree(): returns the cached ptrTree; otherwise e = GetSubtree(...)    *)
(* for s_strRootPath, and a failure is reported into resultBuf.            *)
(***************************************************************************)
GetTree(c, gotTree) ==
    CASE c.tree   -> c
      [] gotTree  -> [SetE(c, TRUE) EXCEPT !.tree = TRUE]
      [] OTHER    -> AppendText(SetE(c, FALSE), "CantGetTree")

\* GetNode(szNodeName): GetTree, then e = ptrTree->GetNode(...); node stays
\* FALSE (the NULL smart pointer) unless GetNode succeeds.
GetNode(c, gotTree, gotNode) ==
    LET t == GetTree(c, gotTree)
    IN  CASE ~t.tree  -> t
          [] gotNode  -> [SetE(t, TRUE) EXCEPT !.node = TRUE]
          [] OTHER    -> AppendText(SetE(t, FALSE), "CantGetNode")

(***************************************************************************)
(* Which of PrintNode/DumpSubTree's engine calls fail for one node: none,  *)
(* GetPath, GetAttributes, GetValue, or GetChildNodes.                     *)
(***************************************************************************)
NodeFaults == {"none", "path", "attr", "value", "children"}

\* PrintNode(ptrNode): e = GetPath, e = GetAttributes (a failure ends it),
\* then GetValue into the local ret1, so e is left as GetAttributes set it.
\* The text of a fully printed node is one piece: truncating its parts one
\* by one keeps as many bytes as truncating their concatenation.
PrintNode(c, f) ==
    LET c1 == SetE(c, f # "path")
        c2 == IF f = "path" THEN AppendText(c1, "CantGetPath") ELSE c1
        c3 == SetE(c2, f # "attr")
    IN  CASE f = "attr"  -> AppendText(c3, "CantGetAttr")
          [] f = "value" -> AppendText(c3, "CantGetValue")
          [] OTHER       -> AppendText(c3, "NodeInfo")

\* DumpSubTree(ptrNode) for node n, when fault[m] says which engine call
\* fails at node m: print the node and a newline, stop if e != NULL, else
\* e = GetChildNodes and recurse over the children in order.
RECURSIVE DumpSubTree(_, _, _)
DumpSubTree(c, n, fault) ==
    LET p == AppendText(PrintNode([c EXCEPT !.visited = @ \cup {n}], fault[n]), "NL")
    IN  CASE ED!NotNull(p.e)          -> p
          [] IsLeaf(n)                -> p
          [] fault[n] = "children"    -> AppendText(SetE(p, FALSE), "CantGetChildren")
          [] OTHER -> FoldLeft(LAMBDA acc, ch : DumpSubTree(acc, ch, fault),
                               SetE(p, TRUE), Children[n])

(***************************************************************************)
(* gMethods and registerDMTreeNatives: the table binds each Java method    *)
(* (name and signature; createLeaf is overloaded) to a C function, and     *)
(* registration binds the whole table or, when FindClass returns NULL or   *)
(* RegisterNatives fails, returns JNI_FALSE.  The library is then unusable *)
(* and nothing more happens (natives = NoNatives, a final state).          *)
(***************************************************************************)
gMethods ==
    <<[name |-> "setStringNode",    fn |-> "setStringNode"],
      [name |-> "getNodeInfo",      fn |-> "getNodeInfo"],
      [name |-> "executePlugin",    fn |-> "executePlugin"],
      [name |-> "dumpTree",         fn |-> "dumpTree"],
      [name |-> "createInterior",   fn |-> "createInterior"],
      [name |-> "createLeaf",       fn |-> "createLeaf"],
      [name |-> "createLeaf",       fn |-> "createLeafByte"],
      [name |-> "deleteNode",       fn |-> "deleteNode"],
      [name |-> "nativeWbxmlToXml", fn |-> "ConvertWbxml2Xml"]>>

NativeFns == {gMethods[i].fn : i \in DOMAIN gMethods}

NoNatives == {"JNI_FALSE"}

TypeOK ==
    /\ ptrTree \in BOOLEAN
    /\ resultBuf \in Seq(Piece)
    /\ BufLen(resultBuf) + 1 <= RESULT_BUF_SIZE
    /\ e \in [code : {0, 1}, text : {ED!SuccessText, ED!ReferText}]
    /\ returned \in Seq(Piece) \cup {NoString}
    /\ jret \in {SUCCESS, FAIL}
    /\ held \in 0..2
    /\ readPastEnd \in BOOLEAN
    /\ xmlAlloc \in [wbxmlLen : WbxmlLens \cup {0}, xmlLen : Int]
    /\ lastDump \in [root : Nodes, fault : [Nodes -> NodeFaults],
                     visited : SUBSET Nodes] \cup {NoDump}
    /\ natives \in {{}, NativeFns, NoNatives}

\* The static initialisers: ptrTree = NULL, resultBuf all zero, e built by
\* the default constructor.  Open(), the only writer of s_strRootPath and
\* the only reset of ptrTree, is never called.
Init ==
    /\ ptrTree = FALSE
    /\ resultBuf = <<>>
    /\ e = ED!DefaultDesc
    /\ returned = NoString
    /\ jret = SUCCESS
    /\ held = 0
    /\ readPastEnd = FALSE
    /\ xmlAlloc = [wbxmlLen |-> 0, xmlLen |-> 0]
    /\ lastDump = NoDump
    /\ natives = {}

\* Ends a string native: NewStringUTF(resultBuf) is returned.
ReturnString(c, nHeld, dump) ==
    /\ ptrTree' = c.tree
    /\ resultBuf' = c.buf
    /\ e' = c.e
    /\ returned' = c.buf
    /\ held' = nHeld
    /\ lastDump' = dump
    /\ UNCHANGED <<jret, readPastEnd, xmlAlloc>>

\* Ends an int native; overRead: it read past an allocation.
ReturnInt(c, r, nHeld, overRead) ==
    /\ ptrTree' = c.tree
    /\ resultBuf' = c.buf
    /\ e' = c.e
    /\ returned' = NoString
    /\ jret' = r
    /\ held' = nHeld
    /\ readPastEnd' = (readPastEnd \/ overRead)
    /\ lastDump' = NoDump
    /\ UNCHANGED xmlAlloc

\* setStringNode(nodePath, value): both strings obtained, never released.
setStringNode(gotTree, gotNode, setOk, f) ==
    LET g == GetNode(StrCtx, gotTree, gotNode)
        c == CASE ~g.node -> g
               [] setOk   -> PrintNode(AppendText(SetE(g, TRUE), "SetOK"), f)
               [] OTHER   -> AppendText(SetE(g, FALSE), "CantSet")
    IN  ReturnString(c, 2, NoDump)

\* getNodeInfo(jszNode): the node path is never released.
getNodeInfo(gotTree, gotNode, f) ==
    LET g == GetNode(StrCtx, gotTree, gotNode)
    IN  ReturnString(IF g.node THEN PrintNode(g, f) ELSE g, 1, NoDump)

\* executePlugin(jszNode, jszData): neither string is released.
executePlugin(gotTree, gotNode, execOk) ==
    LET g == GetNode(StrCtx, gotTree, gotNode)
        c == CASE ~g.node -> g
               [] execOk  -> AppendText(SetE(g, TRUE), "ExecOK")
               [] OTHER   -> AppendText(SetE(g, FALSE), "CantExec")
    IN  ReturnString(c, 2, NoDump)

\* dumpTree(jszNode): the subtree at n; the path is never released.
dumpTree(n, gotTree, gotNode, fault) ==
    LET g == GetNode(StrCtx, gotTree, gotNode)
        d == DumpSubTree(g, n, fault)
    IN  IF g.node
        THEN ReturnString(d, 1, [root |-> n, fault |-> fault, visited |-> d.visited])
        ELSE ReturnString(g, 1, NoDump)

\* createInterior(jszNode): resultBuf is not reset; the path is released
\* only once ptrTree is known to be non-NULL.
createInterior(gotTree, createOk) ==
    LET t == GetTree(Ctx0, gotTree)
    IN  IF ~t.tree THEN ReturnInt(t, FAIL, 1, FALSE)
        ELSE ReturnInt(SetE(t, createOk), IF createOk THEN SUCCESS ELSE FAIL, 0, FALSE)

\* createLeaf(jszNode, jszData): a NULL node path fails at once; a NULL
\* data string becomes "" and is not obtained.
createLeaf(nodeNull, dataNull, gotTree, createOk) ==
    LET t == GetTree(Ctx0, gotTree)
        nStr == IF dataNull THEN 1 ELSE 2
    IN  CASE nodeNull -> ReturnInt(Ctx0, FAIL, 0, FALSE)
          [] ~t.tree  -> ReturnInt(t, FAIL, nStr, FALSE)
          [] OTHER    -> ReturnInt(SetE(t, createOk),
                                   IF createOk THEN SUCCESS ELSE FAIL, 0, FALSE)

\* createLeafByte(jszNode, bDataArray): copies the array into a buffer of
\* arraySize + 1 bytes, logs pData[0..6], never releases the node path.
\* The byte array elements are released on every path.
createLeafByte(arraySize, gotTree, createOk) ==
    LET t == GetTree(Ctx0, gotTree)
    IN  IF ~t.tree
        THEN ReturnInt(t, FAIL, 1, FALSE)
        ELSE ReturnInt(SetE(t, createOk), IF createOk THEN SUCCESS ELSE FAIL, 1,
                       6 > arraySize)

\* deleteNode(jszNode): the path is never released.
deleteNode(gotTree, deleteOk) ==
    LET t == GetTree(Ctx0, gotTree)
    IN  IF ~t.tree THEN ReturnInt(t, FAIL, 1, FALSE)
        ELSE ReturnInt(SetE(t, deleteOk), IF deleteOk THEN SUCCESS ELSE FAIL, 1, FALSE)

(***************************************************************************)
(* ConvertWbxml2Xml(bArray): pins the array elements (never released on    *)
(* any path), returns NULL for no elements or an empty array, else sizes   *)
(* the XML buffer as wbxmlLen * 6 in an int and calls the codec (outside   *)
(* src/; without __SML_WBXML__ it always fails).  Its result array is not  *)
(* modelled: ptrTree, resultBuf and e are untouched.                       *)
(***************************************************************************)
ConvertWbxml2Xml(wbxmlLen, pinned) ==
    /\ held' = IF pinned THEN 1 ELSE 0
    /\ xmlAlloc' = IF pinned /\ wbxmlLen > 0
                   THEN [wbxmlLen |-> wbxmlLen, xmlLen |-> Int32Times(wbxmlLen, 6)]
                   ELSE xmlAlloc
    /\ returned' = NoString
    /\ lastDump' = NoDump
    /\ UNCHANGED <<ptrTree, resultBuf, e, jret, readPastEnd>>

registerDMTreeNatives(classFound, registerOk) ==
    /\ natives = {}
    /\ natives' = IF classFound /\ registerOk THEN NativeFns ELSE NoNatives
    /\ UNCHANGED <<ptrTree, resultBuf, e, returned, jret, held, readPastEnd,
                   xmlAlloc, lastDump>>

\* Java calls the native C function fn: only once it is bound.
Call(fn, A) == fn \in natives /\ A /\ UNCHANGED natives

Next ==
    \/ \E found, ok \in BOOLEAN : registerDMTreeNatives(found, ok)
    \/ \E gt, gn, ok \in BOOLEAN, f \in NodeFaults :
          Call("setStringNode", setStringNode(gt, gn, ok, f))
    \/ \E gt, gn \in BOOLEAN, f \in NodeFaults :
          Call("getNodeInfo", getNodeInfo(gt, gn, f))
    \/ \E gt, gn, ok \in BOOLEAN : Call("executePlugin", executePlugin(gt, gn, ok))
    \/ \E n \in Nodes, gt, gn \in BOOLEAN, fault \in [Nodes -> NodeFaults] :
          Call("dumpTree", dumpTree(n, gt, gn, fault))
    \/ \E gt, ok \in BOOLEAN : Call("createInterior", createInterior(gt, ok))
    \/ \E nn, dn, gt, ok \in BOOLEAN : Call("createLeaf", createLeaf(nn, dn, gt, ok))
    \/ \E sz \in ArraySizes, gt, ok \in BOOLEAN :
          Call("createLeafByte", createLeafByte(sz, gt, ok))
    \/ \E gt, ok \in BOOLEAN : Call("deleteNode", deleteNode(gt, ok))
    \/ \E len \in WbxmlLens, pinned \in BOOLEAN :
          Call("ConvertWbxml2Xml", ConvertWbxml2Xml(len, pinned))

Spec == Init /\ [][Next]_vars

(***************************************************************************)
(* Properties                                                              *)
(***************************************************************************)

\* Every native releases the JNI strings it obtained with
\* GetStringUTFChars before it returns (the JNI contract; createInterior
\* and createLeaf release theirs on the paths past the ptrTree check).
NoLeakedJNIStrings == held = 0

\* ConvertWbxml2Xml allocates six bytes of XML buffer for every byte of
\* WBXML it was given (xmlLen = wbxmlLen * 6, the size passed to new[]
\* and to the codec as the output capacity).
XmlBufferSized == xmlAlloc.xmlLen \div 6 = xmlAlloc.wbxmlLen

\* The tree behind ptrTree as a graph (Graphs' [node, edge] record).
Gr == INSTANCE Graphs
TreeGraph == [node |-> Nodes,
              edge |-> UNION {{<<p, ch>> : ch \in Range(Children[p])} : p \in Nodes}]

\* Reference for a dump: the nodes of the subtree at n none of whose
\* ancestors within that subtree failed GetAttributes or GetChildNodes.
DumpReference(n, fault) ==
    LET sub == {n} \cup Gr!Descendants(TreeGraph, n)
    IN  {m \in sub : \A a \in Gr!Ancestors(TreeGraph, m) \cap sub :
                        fault[a] \notin {"attr", "children"}}

\* dumpTree visits exactly the nodes of the reference: DumpSubTree's
\* "e != NULL" test after PrintNode stops the descent below a node exactly
\* when that node's own GetAttributes failed, never because of an error
\* an earlier engine call (GetPath, GetNode, an earlier native) left in
\* the static e.
DumpVisitsReachable ==
    lastDump # NoDump =>
        lastDump.visited = DumpReference(lastDump.root, lastDump.fault)

\* createLeafByte reads only within the arraySize + 1 bytes it allocated
\* for pData (its LOGI prints pData[0] .. pData[6]).
NoHeapOverRead == ~readPastEnd

=============================================================================
