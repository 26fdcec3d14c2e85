------------------------------ MODULE Catalogue ------------------------------
(***************************************************************************)
(* The modules of modules/: for each, the lines of its REGISTER_MODULE()   *)
(* and the parameters its constructor reads.                               *)
(***************************************************************************)
EXTENDS Definitions

Typed(name, type)            == <<name, ":", type>>
Default(name, type, default) == <<name, ":", type, "=", default>>
ListOf(name, type)           == <<name, ":", "list", "(", type, ")">>
NamedInputs(names)           == [i \in DOMAIN names |-> Input(<<names[i]>>)]
Outputs(names)               == [i \in DOMAIN names |-> Output(<<names[i]>>)]
Solutions                    == <<Output(<<"solutions">>)>>
Energy                       == <<GlobalAttr(Typed("energy", "double"))>>
Branches                     == <<OptionalInputs(<<"branches">>)>>
Met                          == <<Input(<<"met", "=", "met::p4">>)>>
PtIsMet                      == <<Attr(Default("pT_is_met", "bool", "false"))>>
Mass(name)                   == <<Attr(Default(name, "double", "0"))>>

\* A read of `name' in the set that the attributes `in' lead to.  It throws if
\* the parameter has another type, or if it is absent without a default; it is
\* not made at all when `unless' is false.
Read(name, type)         == [in |-> <<>>, name |-> name, type |-> type, default |-> FALSE, unless |-> ""]
ReadOr(name, type)       == [Read(name, type) EXCEPT !.default = TRUE]
ReadIn(path, name, type) == [Read(name, type) EXCEPT !.in = path]
Tags(names)              == {Read(n, "tag") : n \in names}
Numbers(names)           == {Read(n, "double") : n \in names}
Tunable(names)           == {ReadOr(n, "double") : n \in names}
ReadEnergy               == ReadIn(<<"@global_parameters">>, "energy", "double")
ReadBranches             == ReadOr("branches", "vector of tag")
ReadMet                  == {ReadOr("met", "tag"), ReadOr("pT_is_met", "bool")}

-----------------------------------------------------------------------------
(* Blocks                                                                  *)

BlockA == NamedInputs(<<"p1", "p2">>) \o Branches \o Solutions \o Energy
BlockAReads == {ReadEnergy, Read("branches", "vector of tag")} \cup Tags({"p1", "p2"})
BlockB == NamedInputs(<<"s12", "p2">>) \o Branches \o Met \o Solutions \o Energy \o PtIsMet \o Mass("m1")
BlockBReads == {ReadEnergy, ReadBranches} \cup ReadMet \cup Tags({"s12", "p2"}) \cup Tunable({"m1"})
BlockC == NamedInputs(<<"s12", "s123", "p2", "p3">>) \o Branches \o Met \o Solutions \o Energy
    \o PtIsMet \o Mass("m1")
BlockCReads == {ReadEnergy, ReadBranches} \cup ReadMet \cup Tags({"s12", "s123", "p2", "p3"})
    \cup Tunable({"m1"})
BlockD == NamedInputs(<<"s13", "s134", "s25", "s256", "p3", "p4", "p5", "p6">>) \o Branches \o Met
    \o Solutions \o Energy
    \o PtIsMet \o Mass("m1") \o Mass("m2")
BlockDReads == {ReadEnergy, ReadBranches} \cup ReadMet \cup Tunable({"m1", "m2"})
    \cup Tags({"s13", "s134", "s25", "s256", "p3", "p4", "p5", "p6"})
BlockE == NamedInputs(<<"s_hat", "y_tot", "s13", "s24", "p3", "p4">>) \o Branches \o Solutions \o Energy
    \o Mass("m1") \o Mass("m2")
BlockEReads == {ReadEnergy, ReadBranches} \cup Tunable({"m1", "m2"})
    \cup Tags({"s_hat", "y_tot", "s13", "s24", "p3", "p4"})
BlockF == NamedInputs(<<"q1", "q2", "s13", "s24", "p3", "p4">>) \o Branches \o Solutions \o Energy
    \o Mass("m1") \o Mass("m2")
BlockFReads == {ReadEnergy, ReadBranches} \cup Tunable({"m1", "m2"})
    \cup Tags({"q1", "q2", "s13", "s24", "p3", "p4"})
BlockG == NamedInputs(<<"s12", "s34", "p1", "p2", "p3", "p4">>) \o Branches \o Solutions \o Energy
BlockGReads == {ReadEnergy, ReadBranches} \cup Tags({"s12", "s34", "p1", "p2", "p3", "p4"})
SecondaryBlockA == NamedInputs(<<"s12", "s123", "s1234", "p1", "p2", "p3", "p4">>) \o Solutions
    \o Energy \o Mass("m1")
SecondaryBlockAReads == {ReadEnergy} \cup Tags({"s12", "s123", "s1234", "p2", "p3", "p4"})
    \cup Tunable({"m1"})
SecondaryBlockB == NamedInputs(<<"s12", "s123", "p1", "p2", "p3">>) \o Solutions \o Energy
SecondaryBlockBReads == {ReadEnergy} \cup Tags({"s12", "s123", "p1", "p2", "p3"})
SecondaryBlockCD == NamedInputs(<<"s12", "p1", "p2">>) \o Solutions \o Energy
SecondaryBlockCDReads == {ReadEnergy} \cup Tags({"s12", "p1", "p2"})
SecondaryBlockE == NamedInputs(<<"s12", "s123", "p1", "p2", "p3">>) \o Solutions \o Energy
SecondaryBlockEReads == {ReadEnergy} \cup Tags({"s12", "s123", "p1", "p2", "p3"})

-----------------------------------------------------------------------------
(* Generators and transfer functions                                       *)

TransferFunction == Outputs(<<"output", "TF_times_jacobian">>)
Histogram        == <<Attr(Typed("file", "string")), Attr(Typed("th2_name", "string"))>>
Gaussian         == <<Attr(Default("sigma", "double", "0.10")), Attr(Default("sigma_range", "double", "5"))>>

BinnedOnEnergyBaseReads == Tags({"reco_particle"})
    \cup {Read("file", "string"), Read("th2_name", "string")} \cup Tunable({"min_E"})
BinnedTransferFunctionOnEnergy == NamedInputs(<<"reco_particle", "ps_point">>) \o TransferFunction
    \o Histogram \o Mass("min_E")
BinnedTransferFunctionOnEnergyReads == BinnedOnEnergyBaseReads \cup Tags({"ps_point"})
BinnedTransferFunctionOnEnergyEvaluator == NamedInputs(<<"reco_particle", "gen_particle">>)
    \o Outputs(<<"TF">>) \o Histogram \o Mass("min_E")
BinnedTransferFunctionOnEnergyEvaluatorReads == BinnedOnEnergyBaseReads \cup Tags({"gen_particle"})
BinnedOnPtBaseReads == Tags({"reco_particle"})
    \cup {Read("file", "string"), Read("th2_name", "string")} \cup Tunable({"min_Pt"})
BinnedTransferFunctionOnPt == NamedInputs(<<"reco_particle", "ps_point">>) \o TransferFunction
    \o Histogram \o Mass("min_Pt")
BinnedTransferFunctionOnPtReads == BinnedOnPtBaseReads \cup Tags({"ps_point"})
BinnedTransferFunctionOnPtEvaluator == NamedInputs(<<"reco_particle", "gen_particle">>)
    \o Outputs(<<"TF">>) \o Histogram \o Mass("min_Pt")
BinnedTransferFunctionOnPtEvaluatorReads == BinnedOnPtBaseReads \cup Tags({"gen_particle"})
GaussianOnEnergyBaseReads == Tags({"reco_particle"}) \cup Tunable({"sigma", "sigma_range", "min_E"})
GaussianTransferFunctionOnEnergy == NamedInputs(<<"ps_point", "reco_particle">>) \o TransferFunction
    \o Gaussian \o Mass("min_E")
GaussianTransferFunctionOnEnergyReads == GaussianOnEnergyBaseReads \cup Tags({"ps_point"})
GaussianTransferFunctionOnEnergyEvaluator == NamedInputs(<<"gen_particle", "reco_particle">>)
    \o Outputs(<<"TF">>) \o Gaussian \o Mass("min_E")
GaussianTransferFunctionOnEnergyEvaluatorReads == GaussianOnEnergyBaseReads \cup Tags({"gen_particle"})
GaussianOnPtBaseReads == Tags({"reco_particle"}) \cup Tunable({"sigma", "sigma_range", "min_Pt"})
GaussianTransferFunctionOnPt == NamedInputs(<<"ps_point", "reco_particle">>) \o TransferFunction
    \o Gaussian \o Mass("min_Pt")
GaussianTransferFunctionOnPtReads == GaussianOnPtBaseReads \cup Tags({"ps_point"})
GaussianTransferFunctionOnPtEvaluator == NamedInputs(<<"gen_particle", "reco_particle">>)
    \o Outputs(<<"TF">>) \o Gaussian \o Mass("min_Pt")
GaussianTransferFunctionOnPtEvaluatorReads == GaussianOnPtBaseReads \cup Tags({"gen_particle"})
FlatTransferFunctionOnP == NamedInputs(<<"ps_point", "reco_particle">>) \o TransferFunction
    \o <<Attr(Typed("min", "double")), Attr(Typed("max", "double"))>>
FlatTransferFunctionOnPReads == Tags({"ps_point", "reco_particle"}) \cup Numbers({"min", "max"})
FlatTransferFunctionOnTheta == NamedInputs(<<"ps_point", "reco_particle">>) \o TransferFunction
FlatTransferFunctionOnThetaReads == Tags({"ps_point", "reco_particle"})
FlatTransferFunctionOnPhi == NamedInputs(<<"ps_point", "reco_particle">>) \o TransferFunction
FlatTransferFunctionOnPhiReads == Tags({"ps_point", "reco_particle"})
BreitWignerGenerator == NamedInputs(<<"ps_point">>) \o Outputs(<<"s", "jacobian">>)
    \o <<Attr(Typed("mass", "double")), Attr(Typed("width", "double"))>>
BreitWignerGeneratorReads == Tags({"ps_point"}) \cup Numbers({"mass", "width"})
UniformGenerator == NamedInputs(<<"ps_point">>) \o Outputs(<<"output", "jacobian">>)
    \o <<Attr(Typed("min", "double")), Attr(Typed("max", "double"))>>
UniformGeneratorReads == Tags({"ps_point"}) \cup Numbers({"min", "max"})
NarrowWidthApproximation == Outputs(<<"s", "jacobian">>)
    \o <<Attr(Typed("mass", "double")), Attr(Typed("width", "double")),
         Attr(Default("propagator_in_me", "bool", "true"))>>
NarrowWidthApproximationReads == Numbers({"mass", "width"}) \cup {ReadOr("propagator_in_me", "bool")}

-----------------------------------------------------------------------------
(* The other modules.  Several instances of a template are registered with *)
(* the same lines, under the names that Modules lists.                     *)

BuildInitialState == <<Inputs(<<"particles">>), Output(<<"partons">>)>> \o Energy
    \o <<Attr(Default("do_transverse_boost", "bool", "false"))>>
BuildInitialStateReads ==
    {ReadEnergy, Read("particles", "vector of tag"), ReadOr("do_transverse_boost", "bool")}
Constant(type) == <<Output(<<"value">>), Attr(Typed("value", type))>>
ConstantReads(type) == {Read("value", type)}
Counter == NamedInputs(<<"input">>) \o Outputs(<<"count">>)
CounterReads == Tags({"input"})
SimpleCounter == Outputs(<<"count">>)
DMEM == <<Inputs(<<"particles">>)>> \o NamedInputs(<<"ps_weight", "me_output">>) \o Outputs(<<"hist">>)
    \o <<Attr(Typed("x_start", "double")), Attr(Typed("x_end", "double")), Attr(Typed("n_bins", "int")), Sticky>>
DMEMReads == {Read("particles", "vector of tag"), Read("n_bins", "int")}
    \cup Numbers({"x_start", "x_end"}) \cup Tags({"ps_weight", "me_output"})
LinearCombinator == <<Inputs(<<"inputs">>), Output(<<"output">>), Attr(ListOf("coefficients", "double"))>>
LinearCombinatorReads == {Read("inputs", "vector of tag"), Read("coefficients", "vector of double")}
Looper == NamedInputs(<<"solutions">>) \o Outputs(<<"particles", "jacobian">>)
    \o <<Attr(Typed("path", "path"))>>
LooperReads == Tags({"solutions"}) \cup {Read("path", "path")}
LooperSummer == NamedInputs(<<"input">>) \o Outputs(<<"sum">>)
LooperSummerReads == Tags({"input"})
MatrixElement == NamedInputs(<<"initialState">>)
    \o <<OptionalInputs(<<"jacobians">>), Inputs(<<"particles", "/", "inputs">>), Output(<<"output">>)>>
    \o Energy
    \o <<Attr(Typed("matrix_element", "string")), Attr(Typed("matrix_element_parameters", "pset")),
         OptionalAttr(Typed("override_parameters", "pset")), Attr(Typed("particles", "pset")),
         Attr(Default("use_pdf", "bool", "true")), OptionalAttr(Typed("pdf", "string")),
         OptionalAttr(Typed("pdf_scale", "double"))>>
MatrixElementReads == Tags({"initialState"})
    \cup {ReadEnergy, ReadOr("use_pdf", "bool"), ReadOr("jacobians", "vector of tag"),
          Read("particles", "pset"),
          ReadIn(<<"particles">>, "inputs", "vector of tag"), ReadIn(<<"particles">>, "ids", "vector of pset"),
          Read("matrix_element", "string"), Read("matrix_element_parameters", "pset"),
          ReadOr("override_parameters", "pset"),
          [Read("pdf", "string") EXCEPT !.unless = "use_pdf"],
          [Read("pdf_scale", "double") EXCEPT !.unless = "use_pdf"]}
PermutatorModule == <<Input(<<"ps_point">>), Inputs(<<"inputs">>), Output(<<"output">>)>>
PermutatorModuleReads == Tags({"ps_point"}) \cup {Read("inputs", "vector of tag")}
Printer == NamedInputs(<<"input">>) \o <<OptionalAttr(Typed("name", "string")), Sticky>>
PrinterReads == Tags({"input"}) \cup {ReadOr("name", "string")}
StandardPhaseSpace == <<Inputs(<<"particles">>), Output(<<"phase_space">>)>>
StandardPhaseSpaceReads == {Read("particles", "vector of tag")}

InternalModules ==
    [_cuba |-> Outputs(<<"ps_points", "ps_weight">>), _met |-> Outputs(<<"p4">>),
     _input |-> Outputs(<<"p4", "type">>), _momemta |-> <<Inputs(<<"integrands">>)>>]

Entry(lines, reads) == [lines |-> lines, reads |-> reads]
Same(names, entry)  == [n \in names |-> entry]
Printers == {"IntPrinter", "DoublePrinter", "P4Printer", "SolutionPrinter", "IntVectorPrinter",
             "DoubleVectorPrinter", "P4VectorPrinter", "SolutionVectorPrinter"}

Modules ==
    [BlockA |-> Entry(BlockA, BlockAReads), BlockB |-> Entry(BlockB, BlockBReads),
     BlockC |-> Entry(BlockC, BlockCReads), BlockD |-> Entry(BlockD, BlockDReads),
     BlockE |-> Entry(BlockE, BlockEReads), BlockF |-> Entry(BlockF, BlockFReads),
     BlockG |-> Entry(BlockG, BlockGReads), SecondaryBlockA |-> Entry(SecondaryBlockA, SecondaryBlockAReads),
     SecondaryBlockB |-> Entry(SecondaryBlockB, SecondaryBlockBReads),
     SecondaryBlockCD |-> Entry(SecondaryBlockCD, SecondaryBlockCDReads),
     SecondaryBlockE |-> Entry(SecondaryBlockE, SecondaryBlockEReads),
     BinnedTransferFunctionOnEnergy |->
             Entry(BinnedTransferFunctionOnEnergy, BinnedTransferFunctionOnEnergyReads),
     BinnedTransferFunctionOnEnergyEvaluator |->
             Entry(BinnedTransferFunctionOnEnergyEvaluator, BinnedTransferFunctionOnEnergyEvaluatorReads),
     BinnedTransferFunctionOnPt |-> Entry(BinnedTransferFunctionOnPt, BinnedTransferFunctionOnPtReads),
     BinnedTransferFunctionOnPtEvaluator |->
             Entry(BinnedTransferFunctionOnPtEvaluator, BinnedTransferFunctionOnPtEvaluatorReads),
     GaussianTransferFunctionOnEnergy |->
             Entry(GaussianTransferFunctionOnEnergy, GaussianTransferFunctionOnEnergyReads),
     GaussianTransferFunctionOnEnergyEvaluator |->
             Entry(GaussianTransferFunctionOnEnergyEvaluator, GaussianTransferFunctionOnEnergyEvaluatorReads),
     GaussianTransferFunctionOnPt |-> Entry(GaussianTransferFunctionOnPt, GaussianTransferFunctionOnPtReads),
     GaussianTransferFunctionOnPtEvaluator |->
             Entry(GaussianTransferFunctionOnPtEvaluator, GaussianTransferFunctionOnPtEvaluatorReads),
     FlatTransferFunctionOnP |-> Entry(FlatTransferFunctionOnP, FlatTransferFunctionOnPReads),
     FlatTransferFunctionOnTheta |-> Entry(FlatTransferFunctionOnTheta, FlatTransferFunctionOnThetaReads),
     FlatTransferFunctionOnPhi |-> Entry(FlatTransferFunctionOnPhi, FlatTransferFunctionOnPhiReads),
     BreitWignerGenerator |-> Entry(BreitWignerGenerator, BreitWignerGeneratorReads),
     UniformGenerator |-> Entry(UniformGenerator, UniformGeneratorReads),
     NarrowWidthApproximation |-> Entry(NarrowWidthApproximation, NarrowWidthApproximationReads),
     BuildInitialState |-> Entry(BuildInitialState, BuildInitialStateReads), DMEM |-> Entry(DMEM, DMEMReads),
     Looper |-> Entry(Looper, LooperReads), MatrixElement |-> Entry(MatrixElement, MatrixElementReads),
     StandardPhaseSpace |-> Entry(StandardPhaseSpace, StandardPhaseSpaceReads),
     Permutator |-> Entry(PermutatorModule, PermutatorModuleReads),
     IntConstant |-> Entry(Constant("int"), ConstantReads("int")),
     DoubleConstant |-> Entry(Constant("double"), ConstantReads("double")),
     SimpleCounter |-> Entry(SimpleCounter, {}), EmptyModule |-> Entry(<<>>, {})]
    @@ Same({"IntCounter", "DoubleCounter", "LorentzVectorCounter"}, Entry(Counter, CounterReads))
    @@ Same({"VectorLinearCombinator", "DoubleLinearCombinator", "IntLinearCombinator"},
            Entry(LinearCombinator, LinearCombinatorReads))
    @@ Same({"IntLooperSummer", "DoubleLooperSummer", "P4LooperSummer"},
            Entry(LooperSummer, LooperSummerReads))
    @@ Same(Printers, Entry(Printer, PrinterReads))
    @@ [n \in DOMAIN InternalModules |-> Entry(InternalModules[n], {})]
=============================================================================
